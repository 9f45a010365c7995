---------------------------- MODULE RecorderProofs ----------------------------
(***************************************************************************)
(* The recorder's safety for any number of callers, sessions and calls;    *)
(* that the server's capture requests use it as it allows; and, for any    *)
(* number of runs, attempts, overlapping requests and restarts, what       *)
(* recorded attempts promise: the barrier between trips, that no recording *)
(* is left alone, and that an attempt which is counted is whole.           *)
(*                                                                         *)
(* The inductive invariant of recorded attempts has four layers, each      *)
(* resting on those before it: BaseInv (types, phases, requests under way),*)
(* BarrierInv (telemetry and the manifest), WritingInv (files) and         *)
(* RecordingInv (starts, sessions and stops).                              *)
(***************************************************************************)
EXTENDS TripCapture, SequenceTheorems, FiniteSetTheorems, TLAPS

(* Process, waiter and s.active of a session go through their lives        *)
(* together, and its result exists only after the waiter's end.            *)
SessionLife ==
  \A s \in Captures :
    /\ process[s] = "running" => waiter[s] = "wait"
    /\ waiter[s] # "off" <=> process[s] # "none"
    /\ active = s <=> waiter[s] \in {"wait", "reaped"}
    /\ done[s] => waiter[s] = "end"

(* A stop under way has a session; one that reported success has taken its *)
(* result.                                                                 *)
CallLife ==
  \A c \in Callers :
    /\ call[c] \in {"stopping", "killing"} => target[c] \in Captures
    /\ result[c] = "stopped" =>
         target[c] \in Captures /\ waiter[target[c]] = "end" /\ ~done[target[c]]

(* The inductive invariant.                                                *)
RecorderInv == RecorderTypeOK /\ SessionLife /\ CallLife /\ StoppedOnce

(* A new service satisfies it.                                             *)
LEMMA RecorderInvInit == RecorderInit => RecorderInv
  BY RecorderAssumption
     DEF RecorderInit, RecorderInv, RecorderTypeOK, SessionLife, CallLife, StoppedOnce,
         Captures, Results

(* Every step of a Start keeps it, ...                                     *)
LEMMA StartKeepsInv ==
  ASSUME RecorderInv, NEW c \in Callers, Start(c)
  PROVE  RecorderInv'
<1> USE RecorderAssumption DEF Captures, Results, sessionState, callState
<1>1. CASE StartBegin(c)
  BY <1>1 DEF StartBegin, Begin, RecorderInv, RecorderTypeOK, SessionLife, CallLife, StoppedOnce
<1>2. CASE StartFails(c)
  BY <1>2 DEF StartFails, Return, RecorderInv, RecorderTypeOK, SessionLife, CallLife, StoppedOnce
<1>3. CASE StartRefused(c)
  BY <1>3 DEF StartRefused, Return, RecorderInv, RecorderTypeOK, SessionLife, CallLife, StoppedOnce
<1>4. CASE StartProcess(c)
  <2>1. PICK s \in Captures : active = 0 /\ call[c] = "starting" /\ Spawn(c, s)
    BY <1>4 DEF StartProcess
  <2>2. waiter[s] = "off"
    BY <2>1 DEF Spawn, RecorderInv, SessionLife
  <2>3. RecorderTypeOK'
    BY <2>1 DEF Spawn, Return, RecorderInv, RecorderTypeOK
  <2>4. SessionLife'
    BY <2>1, <2>2 DEF Spawn, RecorderInv, RecorderTypeOK, SessionLife
  <2>5. CallLife'
    BY <2>1, <2>2 DEF Spawn, Return, RecorderInv, RecorderTypeOK, CallLife
  <2>6. StoppedOnce'
    BY <2>1 DEF Spawn, Return, RecorderInv, RecorderTypeOK, StoppedOnce
  <2> QED BY <2>3, <2>4, <2>5, <2>6 DEF RecorderInv
<1> QED BY <1>1, <1>2, <1>3, <1>4 DEF Start

(* ... every step of a Stop, ...                                           *)
LEMMA StopKeepsInv ==
  ASSUME RecorderInv, NEW c \in Callers, Stop(c)
  PROVE  RecorderInv'
<1> USE RecorderAssumption DEF Captures, Results, sessionState, callState
<1>1. CASE StopBegin(c)
  <2>1. RecorderTypeOK'
    <3>1. /\ call' \in [Callers -> {"idle", "starting", "stopping", "killing"}]
          /\ result' \in [Callers -> Results]
      <4>1. CASE active = 0
        BY <1>1, <4>1 DEF StopBegin, Return, RecorderInv, RecorderTypeOK
      <4>2. CASE active # 0
        BY <1>1, <4>2 DEF StopBegin, RecorderInv, RecorderTypeOK
      <4> QED BY <4>1, <4>2
    <3>2. target' \in [Callers -> {0} \cup Captures] /\ calls' \in [Callers -> 0..MaxCalls]
      BY <1>1 DEF StopBegin, Begin, RecorderInv, RecorderTypeOK
    <3> QED BY <1>1, <3>1, <3>2 DEF StopBegin, RecorderInv, RecorderTypeOK
  <2>2. SessionLife'
    BY <1>1 DEF StopBegin, RecorderInv, SessionLife
  <2>3. CallLife' /\ StoppedOnce'
    BY <1>1 DEF StopBegin, Return, RecorderInv, RecorderTypeOK, CallLife, StoppedOnce
  <2> QED BY <2>1, <2>2, <2>3 DEF RecorderInv
<1>2. CASE StopDone(c)
  <2>1. target[c] \in Captures /\ done[target[c]]
    BY <1>2 DEF StopDone, RecorderInv, CallLife
  <2>2. RecorderTypeOK'
    <3>1. /\ call' \in [Callers -> {"idle", "starting", "stopping", "killing"}]
          /\ result' \in [Callers -> Results]
      BY <1>2 DEF StopDone, Return, RecorderInv, RecorderTypeOK
    <3>2. done' \in [Captures -> BOOLEAN]
      BY <1>2, <2>1 DEF StopDone, RecorderInv, RecorderTypeOK
    <3> QED BY <1>2, <3>1, <3>2 DEF StopDone, RecorderInv, RecorderTypeOK
  <2>3. SessionLife'
    BY <1>2 DEF StopDone, RecorderInv, RecorderTypeOK, SessionLife
  <2>4. \A d \in Callers : result[d] = "stopped" => target[d] # target[c]
    BY <2>1 DEF RecorderInv, CallLife
  <2>5. CallLife'
    BY <1>2, <2>1 DEF StopDone, Return, RecorderInv, RecorderTypeOK, SessionLife, CallLife
  <2>6. StoppedOnce'
    BY <1>2, <2>4 DEF StopDone, Return, RecorderInv, RecorderTypeOK, StoppedOnce
  <2> QED BY <2>2, <2>3, <2>5, <2>6 DEF RecorderInv
<1>3. CASE StopCancelled(c)
  BY <1>3 DEF StopCancelled, Return, RecorderInv, RecorderTypeOK, SessionLife, CallLife, StoppedOnce
<1>4. CASE StopKills(c)
  <2>1. target[c] \in Captures
    BY <1>4 DEF StopKills, RecorderInv, CallLife
  <2>2. RecorderTypeOK'
    BY <1>4 DEF StopKills, RecorderInv, RecorderTypeOK
  <2>3. SessionLife'
    BY <1>4, <2>1 DEF StopKills, RecorderInv, RecorderTypeOK, SessionLife
  <2>4. CallLife' /\ StoppedOnce'
    BY <1>4 DEF StopKills, RecorderInv, RecorderTypeOK, CallLife, StoppedOnce
  <2> QED BY <2>2, <2>3, <2>4 DEF RecorderInv
<1>5. CASE StopCannotKill(c)
  BY <1>5 DEF StopCannotKill, Return, RecorderInv, RecorderTypeOK, SessionLife, CallLife, StoppedOnce
<1>6. CASE KillTimesOut(c)
  BY <1>6 DEF KillTimesOut, Return, RecorderInv, RecorderTypeOK, SessionLife, CallLife, StoppedOnce
<1> QED BY <1>1, <1>2, <1>3, <1>4, <1>5, <1>6 DEF Stop, StopTimer

(* ... and the ends of a process and of its waiter.                        *)
LEMMA SessionKeepsInv ==
  ASSUME RecorderInv, NEW s \in Captures, ProcessExits(s) \/ Waiter(s)
  PROVE  RecorderInv'
<1> USE RecorderAssumption DEF Captures, Results, callState
<1>1. CASE ProcessExits(s)
  BY <1>1 DEF ProcessExits, RecorderInv, RecorderTypeOK, SessionLife, CallLife, StoppedOnce
<1>2. CASE Reap(s)
  BY <1>2 DEF Reap, RecorderInv, RecorderTypeOK, SessionLife, CallLife, StoppedOnce
<1>3. CASE Clear(s)
  <2>1. active = s /\ active' = 0
    BY <1>3 DEF Clear, RecorderInv, SessionLife
  <2>2. RecorderTypeOK'
    BY <1>3, <2>1 DEF Clear, RecorderInv, RecorderTypeOK
  <2>3. SessionLife'
    BY <1>3, <2>1 DEF Clear, RecorderInv, RecorderTypeOK, SessionLife
  <2>4. CallLife' /\ StoppedOnce'
    BY <1>3 DEF Clear, RecorderInv, RecorderTypeOK, CallLife, StoppedOnce
  <2> QED BY <2>2, <2>3, <2>4 DEF RecorderInv
<1>4. CASE Deliver(s)
  BY <1>4 DEF Deliver, RecorderInv, RecorderTypeOK, SessionLife, CallLife, StoppedOnce
<1> QED BY <1>1, <1>2, <1>3, <1>4 DEF Waiter

LEMMA RecorderStepKeepsInv == RecorderInv /\ [RecorderNext]_recorderVars => RecorderInv'
<1>1. RecorderInv /\ UNCHANGED recorderVars => RecorderInv'
  BY DEF recorderVars, sessionState, callState, RecorderInv, RecorderTypeOK, SessionLife,
         CallLife, StoppedOnce
<1> QED BY <1>1, StartKeepsInv, StopKeepsInv, SessionKeepsInv DEF RecorderNext

THEOREM RecorderInvariant == RecorderSpec => []RecorderInv
BY RecorderStepKeepsInv, RecorderInvInit, PTL DEF RecorderSpec

(* A process that runs is always that of the active session.               *)
THEOREM RunningProcessIsActive == RecorderSpec => []RunningIsActive
<1>1. RecorderInv => RunningIsActive
  BY DEF RecorderInv, SessionLife, RunningIsActive
<1> QED BY <1>1, RecorderInvariant, PTL

(* A stop that reports success is over: process ended, recorder free.      *)
THEOREM SuccessfulStopIsOver == RecorderSpec => []StoppedIsOver
<1>1. RecorderInv => StoppedIsOver
  BY DEF RecorderInv, RecorderTypeOK, SessionLife, CallLife, StoppedIsOver
<1> QED BY <1>1, RecorderInvariant, PTL

(* No two stops report the same recording stopped.                         *)
THEOREM StopIsReportedOnce == RecorderSpec => []StoppedOnce
<1>1. RecorderInv => StoppedOnce
  BY DEF RecorderInv
<1> QED BY <1>1, RecorderInvariant, PTL

(* All three at once: sessions, processes and what callers were told.      *)
THEOREM RecorderIsSound == RecorderSpec => []SessionsMatchProcesses
<1>1. RunningIsActive /\ StoppedIsOver /\ StoppedOnce => SessionsMatchProcesses
  BY DEF SessionsMatchProcesses
<1> QED BY <1>1, RunningProcessIsActive, SuccessfulStopIsOver, StopIsReportedOnce, PTL

-----------------------------------------------------------------------------
(* What a server's request does to the recorder is a step of the recorder. *)
LEMMA CaptureCallsAreCalls == CaptureCalls => [RecorderNext]_recorderVars
<1> SUFFICES ASSUME CaptureCalls PROVE RecorderNext
  OBVIOUS
<1> USE CaptureAssumption
<1>1. ASSUME NEW t \in Trips, StartArrives(t) PROVE RecorderNext
  <2>1. FirstFree(Starters) \in Callers
    BY <1>1 DEF StartArrives, FirstFree, Free
  <2> QED BY <1>1, <2>1 DEF StartArrives, RecorderNext, Start
<1>2. ASSUME NEW c \in Starters, StartReturns(c) PROVE RecorderNext
  BY <1>2 DEF StartReturns, RecorderNext, Start
<1>3. ASSUME NEW e, StopArrives(e) PROVE RecorderNext
  <2>1. FirstFree(Stoppers) \in Callers
    BY <1>3 DEF StopArrives, FirstFree, Free
  <2> QED BY <1>3, <2>1 DEF StopArrives, RecorderNext, Stop
<1>4. ASSUME NEW c \in Stoppers, StopGoesOn(c) PROVE RecorderNext
  BY <1>4 DEF StopGoesOn, RecorderNext, Stop
<1> QED BY <1>1, <1>2, <1>3, <1>4 DEF CaptureCalls

LEMMA TripStepsAreRecorderSteps == [TripNext]_tripVars => [RecorderNext]_recorderVars
<1> SUFFICES ASSUME [TripNext]_tripVars PROVE [RecorderNext]_recorderVars
  OBVIOUS
<1>1. CASE Client
  BY <1>1 DEF Client
<1>2. CASE Server
  BY <1>2 DEF Server
<1>3. CASE CaptureCalls
  BY <1>3, CaptureCallsAreCalls
<1>4. CASE Process
  BY <1>4 DEF Process, RecorderNext
<1>5. CASE ClientRestarts \/ ResourceRestarts
  BY <1>5 DEF ClientRestarts, ResourceRestarts, Restart
<1>6. CASE UNCHANGED tripVars
  BY <1>6 DEF tripVars
<1> QED BY <1>1, <1>2, <1>3, <1>4, <1>5, <1>6 DEF TripNext

(* Recorded attempts implement the recorder: the client, the server, its   *)
(* restarts and the telemetry leave it alone, and /capture/start and       *)
(* /capture/stop are its Start and Stop (main.go), however requests        *)
(* overlap, are aborted or given up.                                       *)
THEOREM TripsUseRecorder == TripSpec => RecorderSpec
<1>1. TripInit => RecorderInit
  BY DEF TripInit
<1> QED BY <1>1, TripStepsAreRecorderSteps, PTL DEF TripSpec, RecorderSpec

(* So at most one attempt is recorded at a time, and what the server is    *)
(* told of a stop is true, also when clients and resources restart.        *)
THEOREM AttemptsShareOneRecorder == TripSpec => []SessionsMatchProcesses
BY TripsUseRecorder, RecorderIsSound, PTL
-----------------------------------------------------------------------------
(* The inductive invariant of recorded attempts, part by part.             *)

(* The runner's attempts are those it was asked for, one after the other.  *)
RunnerFits ==
  /\ runner.phase # "idle" => runner.trip.run \in Runs
  /\ runner.phase = "neutralize" => runner.trip.index = 0
  /\ runner.phase \notin {"idle", "neutralize"} => runner.trip \in Trips

(* What stops any recording.                                               *)
Stopping == {"abort", "register"}

(* Requests of both kinds, and what has become of the sessions.            *)
CallsFit ==
  /\ \A c \in Starters :
       /\ call[c] \in {"idle", "starting"}
       /\ call[c] = "starting" => serving[c].kind = "start" /\ serving[c].trip \in Trips
  /\ \A c \in Stoppers :
       /\ call[c] \in {"idle", "stopping", "killing"}
       /\ call[c] # "idle" => serving[c].kind \in {"stop"} \cup Stopping
       /\ call[c] = "killing" => process[target[c]] = "exited"
  /\ cancelled \subseteq {c \in Stoppers : call[c] # "idle"}

SessionsFit == \A s \in Captures : recorded[s] = NoTrip <=> process[s] = "none"

BaseInv == TripTypeOK /\ RecorderInv /\ RunnerFits /\ CallsFit /\ SessionsFit

(* Of a trip the runner has come to, and at it past some phases.           *)
Passed(t, phases) ==
  \/ t.run < runner.trip.run
  \/ t.run = runner.trip.run /\ t.index < runner.trip.index
  \/ t = runner.trip /\ runner.phase \notin phases

BeforeStart    == {"neutralize", "spawn"}
BeforeFinalize == BeforeStart \cup {"start", "flash", "record"}
BeforeStop     == BeforeFinalize \cup {"finalize"}

StartAsked(t)    == Passed(t, BeforeStart)
FinalizeAsked(t) == Passed(t, BeforeFinalize)
StopAsked(t)     == Passed(t, BeforeStop)

(* The trip that is active gathers telemetry.                              *)
PendingIsActive ==
  /\ \A t \in server.pending : t \notin server.finalized /\ server.active[t.run] = t.index
  /\ \A r \in Runs : server.active[r] # 0 => [run |-> r, index |-> server.active[r]] \in server.pending

(* Telemetry that is on its way or not written yet is that of the last     *)
(* trip of its run, whose successor does not begin before it is written.   *)
OpenTrips == (server.pending \cup telemetry) \ server.finalized

OpenFits ==
  /\ \A t \in OpenTrips :
       \/ t.run < runner.trip.run
       \/ /\ t = runner.trip /\ runner.phase \in {"finalize", "abort", "idle"}
          /\ runner.phase = "finalize" => runner.reply # "ok"
  /\ \A s, t \in OpenTrips : s.run = t.run => s = t

ManifestFits ==
  \A i \in DOMAIN written.manifest :
    LET s == written.manifest[i]
    IN /\ FinalizeAsked(s)
       /\ \A t \in OpenTrips : s.run = t.run => s.index < t.index
       /\ \A j \in DOMAIN written.manifest :
            i < j /\ s.run = written.manifest[j].run => s.index < written.manifest[j].index

BarrierInv == PendingIsActive /\ OpenFits /\ ManifestFits

(* A trip is asked to be finalized once, so it is written once.            *)
Unwritten(t) == Count(t, written.rows) = 0 /\ Count(t, written.manifest) = 0

WrittenOnce(t) ==
  t \in written.metadata /\ Count(t, written.rows) = 1 /\ Count(t, written.manifest) = 1

FinalizeFits ==
  /\ \A i \in DOMAIN requests : requests[i].kind = "finalize" =>
       LET t == requests[i].trip
       IN /\ t \in Trips /\ t \notin server.finalizing /\ FinalizeAsked(t) /\ Unwritten(t)
          /\ \A j \in DOMAIN requests : requests[j] = requests[i] => i = j
  /\ \A t \in server.finalizing : FinalizeAsked(t) /\ Unwritten(t)
  /\ \A t \in Trips : ~FinalizeAsked(t) => Unwritten(t)

WrittenFits ==
  /\ \A t \in server.finalized \cup collected : WrittenOnce(t)
  /\ runner.phase = "stop" \/ (runner.phase = "finalize" /\ runner.reply = "ok") =>
       runner.trip \in server.finalized

WritingInv == FinalizeFits /\ WrittenFits

(* The start of a trip is a request, then a call, then a session.          *)
StartFits ==
  /\ \A i \in DOMAIN requests : requests[i].kind = "start" =>
       LET t == requests[i].trip
       IN /\ t \in Trips /\ StartAsked(t) /\ t \notin BeingStarted /\ RecordingsOf(t) = {}
          /\ \A j \in DOMAIN requests : requests[j] = requests[i] => i = j
  /\ \A c \in Starters : call[c] = "starting" =>
       LET t == serving[c].trip
       IN /\ t \in Trips /\ StartAsked(t) /\ RecordingsOf(t) = {}
          /\ \A d \in Starters : call[d] = "starting" /\ serving[d].trip = t => c = d
  /\ \A s \in Captures : recorded[s] # NoTrip =>
       StartAsked(recorded[s]) /\ \A d \in Captures : recorded[d] = recorded[s] => s = d

AwaitsStart(t) == runner.phase = "start" /\ runner.trip = t

(* A start that the runner does not wait for any more is followed by a     *)
(* request that stops it, or was overtaken by it.                          *)
StartsAreFollowed ==
  /\ \A i \in DOMAIN requests : requests[i].kind = "start" =>
       \/ AwaitsStart(requests[i].trip)
       \/ \E k \in DOMAIN requests : i < k /\ requests[k].kind \in Stopping
  /\ \A t \in BeingStarted :
       \/ AwaitsStart(t) \/ t \in overtaken
       \/ \E k \in DOMAIN requests : requests[k].kind \in Stopping

RunningIsAttended ==
  \A s \in Captures : process[s] = "running" =>
    \/ recorded[s] \in overtaken
    \/ runner.trip = recorded[s] /\ runner.phase \in {"start", "flash", "record", "finalize", "stop"}
    \/ \E k \in DOMAIN requests : requests[k].kind \in Stopping
    \/ \E c \in Stoppers \ cancelled : call[c] # "idle" /\ target[c] = s

(* Requests are served in their order: while the runner waits for a start  *)
(* nothing comes after it, and once that was served nothing is left that   *)
(* starts or stops another trip.                                           *)
NothingElseAsked == \A i \in DOMAIN requests : requests[i].kind \notin Stopping \cup {"start"}

StartIsLast ==
  runner.phase = "start" =>
    \/ NothingElseAsked
    \/ requests # <<>> /\ requests[Len(requests)] = Event("start", runner.trip)

RecordingGoesOn ==
  (runner.phase = "start" /\ runner.reply = "ok") \/ runner.phase \in {"flash", "record", "finalize", "stop"}

RecordingFits ==
  RecordingGoesOn =>
    /\ RecordingsOf(runner.trip) # {} /\ NothingElseAsked
    /\ BeingStarted \subseteq overtaken
    /\ active = 0 \/ recorded[active] \in overtaken \cup {runner.trip}

(* Its stop is asked once, and finds its session, or another one that a    *)
(* late start made.                                                        *)
StopsAreAsked ==
  /\ \A i \in DOMAIN requests : requests[i].kind = "stop" => StopAsked(requests[i].trip)
  /\ \A c \in Stoppers : call[c] # "idle" /\ serving[c].kind = "stop" => StopAsked(serving[c].trip)

RecordedWhole(t) ==
  /\ \E s \in RecordingsOf(t) : process[s] = "exited"
  /\ t \in queued \/ Strays # {}

StopFits ==
  /\ runner.phase = "stop" =>
       \A c \in Stoppers : call[c] # "idle" /\ serving[c] = Event("stop", runner.trip) =>
         /\ recorded[target[c]] \in overtaken \cup {runner.trip}
         /\ \A s \in RecordingsOf(runner.trip) : s = target[c] \/ process[s] # "running"
  /\ runner.phase = "stop" /\ runner.reply = "ok" => RecordedWhole(runner.trip)
  /\ \A t \in collected : RecordedWhole(t)

RecordingInv ==
  /\ StartFits /\ StartsAreFollowed /\ RunningIsAttended
  /\ StartIsLast /\ RecordingFits /\ StopsAreAsked /\ StopFits
-----------------------------------------------------------------------------
(* Trips, and sequences of requests.                                       *)
LEMMA TripParts ==
  /\ Runs \subseteq Nat \ {0} /\ Runs = 1..Len(Attempts) /\ Len(Attempts) \in Nat
  /\ \A r \in Runs : Attempts[r] \in Nat \ {0}
  /\ \A t \in Trips : /\ t.run \in Runs /\ t.index \in 1..Attempts[t.run] /\ t.index \in Nat \ {0}
                      /\ t = [run |-> t.run, index |-> t.index] /\ t # NoTrip
  /\ \A r \in Runs : \A i \in 1..Attempts[r] : [run |-> r, index |-> i] \in Trips
<1>1. Runs = 1..Len(Attempts) /\ Len(Attempts) \in Nat
  BY CaptureAssumption DEF Runs
<1>2. \A r \in Runs : Attempts[r] \in Nat \ {0}
  BY CaptureAssumption DEF Runs
<1>3. \A t : t \in Trips <=> \E r \in Runs : t \in [run : {r}, index : 1..Attempts[r]]
  BY DEF Trips
<1>4. ASSUME NEW t \in Trips
      PROVE  /\ t.run \in Runs /\ t.index \in 1..Attempts[t.run] /\ t.index \in Nat \ {0}
             /\ t = [run |-> t.run, index |-> t.index] /\ t # NoTrip
  <2>1. PICK r \in Runs : t \in [run : {r}, index : 1..Attempts[r]]
    BY <1>3
  <2>2. t.run = r /\ t.index \in 1..Attempts[r] /\ t = [run |-> t.run, index |-> t.index]
    BY <2>1
  <2>3. r # 0
    BY <1>1
  <2> QED BY <1>2, <2>2, <2>3 DEF NoTrip
<1>5. ASSUME NEW r \in Runs, NEW i \in 1..Attempts[r] PROVE [run |-> r, index |-> i] \in Trips
  BY <1>3
<1> QED BY <1>1, <1>2, <1>4, <1>5

LEMMA Popped ==
  ASSUME NEW S, NEW q \in Seq(S), q # <<>>
  PROVE  /\ Len(q) \in Nat \ {0} /\ DOMAIN q = 1..Len(q) /\ Head(q) = q[1] /\ Head(q) \in S
         /\ Tail(q) \in Seq(S) /\ Len(Tail(q)) = Len(q) - 1 /\ DOMAIN Tail(q) = 1..Len(q) - 1
         /\ \A i \in 1..Len(q) - 1 : Tail(q)[i] = q[i + 1]
<1>1. Len(q) \in Nat \ {0}
  BY EmptySeq
<1> QED BY <1>1

LEMMA Appended ==
  ASSUME NEW S, NEW q \in Seq(S), NEW e \in S
  PROVE  /\ Len(q) \in Nat /\ DOMAIN q = 1..Len(q)
         /\ Append(q, e) \in Seq(S) /\ Len(Append(q, e)) = Len(q) + 1 /\ DOMAIN Append(q, e) = 1..Len(q) + 1
         /\ Append(q, e)[Len(q) + 1] = e /\ \A i \in 1..Len(q) : Append(q, e)[i] = q[i]
OBVIOUS

(* What is waited for is asked of the trip that the runner is at.          *)
LEMMA EventParts ==
  /\ \A kind \in Awaiting : \A t \in Trips : Event(kind, t) \in Events
  /\ Event("register", NoTrip) \in Events
  /\ \A e \in Events : /\ e.kind \in Awaiting \cup {"register"} /\ e = Event(e.kind, e.trip)
                       /\ e.kind # "register" => e.trip \in Trips
  /\ \A kind, t : Event(kind, t).kind = kind /\ Event(kind, t).trip = t
BY DEF Events, Event, Awaiting

-----------------------------------------------------------------------------
(* The runner's steps.                                                     *)
LEMMA GotoMakes ==
  ASSUME TripTypeOK, NEW phase \in Phases, Goto(phase)
  PROVE  /\ runner' \in RunnerStates /\ runner'.phase = phase /\ runner'.reply = "none" /\ runner'.trip = runner.trip
BY DEF TripTypeOK, RunnerStates, Goto

LEMMA EndRunMakes ==
  ASSUME TripTypeOK, EndRun
  PROVE  /\ runner' \in RunnerStates /\ runner'.phase = "idle" /\ runner'.reply = "none" /\ runner'.trip = runner.trip
BY DEF TripTypeOK, RunnerStates, EndRun, AtRest, Phases

LEMMA NextAttemptMakes ==
  ASSUME TripTypeOK, NextAttempt, ~EndRun
  PROVE  /\ runner' \in RunnerStates /\ runner'.phase = "spawn" /\ runner'.reply = "none"
         /\ runner'.trip.run = runner.trip.run /\ runner'.trip.index = runner.trip.index + 1
         /\ runner.trip.index # Attempts[runner.trip.run]
<1>1. runner' = [runner EXCEPT !.phase = "spawn", !.reply = "none", !.trip.index = @ + 1]
      /\ runner.trip.index # Attempts[runner.trip.run]
  BY DEF NextAttempt
<1>2. runner.trip \in [run : 0..Len(Attempts), index : Nat]
  BY DEF TripTypeOK, RunnerStates
<1> DEFINE next == [runner.trip EXCEPT !.index = @ + 1]
<1>3. /\ next \in [run : 0..Len(Attempts), index : Nat]
      /\ next.run = runner.trip.run /\ next.index = runner.trip.index + 1
  BY <1>2
<1>4. runner' = [runner EXCEPT !.phase = "spawn", !.reply = "none", !.trip = next]
  BY <1>1, <1>2 DEF TripTypeOK, RunnerStates
<1> HIDE DEF next
<1> QED BY <1>1, <1>3, <1>4 DEF TripTypeOK, RunnerStates, Phases

(* A request, and the telemetry that goes with it.                         *)
LEMMA AskMakes ==
  ASSUME TripTypeOK, NEW kind \in Awaiting, runner.trip \in Trips, Ask(kind)
  PROVE  /\ runner' \in RunnerStates /\ runner'.phase = kind /\ runner'.reply = "none" /\ runner'.trip = runner.trip
         /\ Event(kind, runner.trip) \in Events
         /\ requests' = Append(requests, Event(kind, runner.trip)) /\ requests' \in Seq(Events)
         /\ telemetry' = IF kind = "finalize" THEN telemetry \cup {runner.trip} ELSE telemetry
         /\ telemetry' \subseteq Trips
<1>1. kind \in Phases
  BY DEF Phases
<1>2. requests \in Seq(Events) /\ telemetry \subseteq Trips
  BY DEF TripTypeOK
<1>3. Event(kind, runner.trip) \in Events
  BY EventParts
<1> QED BY <1>1, <1>2, <1>3, GotoMakes DEF Ask
(* What the client may do in a step.                                       *)
RunnerTo(phase) == runner'.phase = phase /\ runner'.reply = "none" /\ runner'.trip = runner.trip

RunnerAdvances ==
  /\ runner'.phase = "spawn" /\ runner'.reply = "none" /\ runner.trip.index # Attempts[runner.trip.run]
  /\ runner'.trip.run = runner.trip.run /\ runner'.trip.index = runner.trip.index + 1

Begins ==
  /\ runner.phase = "idle" /\ runner.trip.run < Len(Attempts)
  /\ runner'.phase = "neutralize" /\ runner'.reply = "none"
  /\ runner'.trip = [run |-> runner.trip.run + 1, index |-> 0]
  /\ UNCHANGED <<requests, telemetry, collected>>

Stays == UNCHANGED <<runner.phase, runner.reply, runner.trip, requests, telemetry, collected>>

Ends == /\ runner.phase \in {"neutralize", "spawn", "abort"} /\ RunnerTo("idle")
        /\ UNCHANGED <<requests, telemetry, collected>>

Advances == runner.phase = "neutralize" /\ RunnerAdvances /\ UNCHANGED <<requests, telemetry, collected>>

Collects == /\ runner.phase = "stop" /\ runner.reply = "ok" /\ collected' = collected \cup {runner.trip}
            /\ RunnerTo("idle") \/ RunnerAdvances
            /\ UNCHANGED <<requests, telemetry>>

GoesOn == /\ \/ runner.phase = "start" /\ runner.reply = "ok" /\ RunnerTo("flash")
             \/ runner.phase = "flash" /\ RunnerTo("record")
          /\ UNCHANGED <<requests, telemetry, collected>>

Asks(kind) ==
  /\ runner.phase \notin {"idle", "neutralize"} /\ RunnerTo(kind)
  /\ \/ kind = "start" /\ runner.phase = "spawn"
     \/ kind = "finalize" /\ runner.phase = "record"
     \/ kind = "stop" /\ runner.phase = "finalize" /\ runner.reply = "ok"
     \/ kind = "abort" /\ \/ runner.phase \in {"flash", "record"}
                          \/ runner.phase \in Awaiting \ {"abort"} /\ runner.reply # "ok"
  /\ requests' = Append(requests, Event(kind, runner.trip))
  /\ telemetry' = IF kind = "finalize" THEN telemetry \cup {runner.trip} ELSE telemetry
  /\ UNCHANGED collected

LEMMA ClientDoes ==
  ASSUME TripTypeOK, RunnerFits, Client
  PROVE  /\ runner' \in RunnerStates /\ requests' \in Seq(Events) /\ telemetry' \subseteq Trips
         /\ UNCHANGED <<recorderVars, serverVars, backendVars, restarts>>
         /\ Begins \/ Stays \/ Ends \/ Advances \/ Collects \/ GoesOn \/ \E kind \in Awaiting : Asks(kind)
<1>1. /\ UNCHANGED <<recorderVars, serverVars, backendVars, restarts>>
      /\ runner \in RunnerStates /\ requests \in Seq(Events) /\ telemetry \subseteq Trips
  BY DEF Client, TripTypeOK
<1>2. ASSUME UNCHANGED <<eventVars, collected>>
      PROVE  /\ requests' \in Seq(Events) /\ telemetry' \subseteq Trips
             /\ UNCHANGED <<requests, telemetry, collected>>
  BY <1>1, <1>2 DEF eventVars
<1>3. CASE RunBegin
  <2>1. /\ runner.phase = "idle" /\ runner.trip.run < Len(Attempts)
        /\ runner' = [phase |-> "neutralize", stopRequested |-> FALSE, reply |-> "none",
                      trip |-> [run |-> runner.trip.run + 1, index |-> 0]]
    BY <1>3 DEF RunBegin, AtRest
  <2>2. runner.trip.run + 1 \in 0..Len(Attempts)
    BY <1>1, <2>1, TripParts DEF RunnerStates
  <2>3. runner' \in RunnerStates
    BY <2>1, <2>2 DEF RunnerStates, Phases
  <2>4. runner'.phase = "neutralize" /\ runner'.reply = "none" /\ runner'.trip = [run |-> runner.trip.run + 1, index |-> 0]
    BY <2>1
  <2>5. UNCHANGED <<eventVars, collected>>
    BY <1>3 DEF RunBegin
  <2> QED BY <1>1, <1>2, <2>1, <2>3, <2>4, <2>5, Zenon DEF Begins
<1>4. CASE RequestStop
  <2>1. runner' = [runner EXCEPT !.stopRequested = TRUE]
    BY <1>4 DEF RequestStop
  <2>2. runner' \in RunnerStates /\ UNCHANGED <<runner.phase, runner.reply, runner.trip>>
    BY <1>1, <2>1 DEF RunnerStates
  <2> QED BY <1>1, <1>2, <1>4, <2>2 DEF RequestStop, Stays
<1>5. CASE Neutralized
  BY <1>1, <1>2, <1>5, EndRunMakes, NextAttemptMakes DEF Neutralized, Ends, Advances, RunnerTo, RunnerAdvances
<1>6. ASSUME NEW kind \in Awaiting, runner.phase \notin {"idle", "neutralize"}, Ask(kind)
      PROVE  /\ runner' \in RunnerStates /\ requests' \in Seq(Events) /\ telemetry' \subseteq Trips /\ RunnerTo(kind)
             /\ requests' = Append(requests, Event(kind, runner.trip))
             /\ telemetry' = IF kind = "finalize" THEN telemetry \cup {runner.trip} ELSE telemetry
  BY <1>6, AskMakes DEF RunnerFits, RunnerTo
<1>7. "start" \in Awaiting /\ "finalize" \in Awaiting /\ "stop" \in Awaiting /\ "abort" \in Awaiting
  BY DEF Awaiting
<1>8. CASE Spawned
  <2>1. CASE EndRun /\ UNCHANGED <<eventVars, collected>>
    BY <1>1, <1>2, <1>8, <2>1, EndRunMakes DEF Spawned, Ends, RunnerTo
  <2>2. CASE Ask("start")
    BY <1>1, <1>6, <1>7, <1>8, <2>2 DEF Spawned, Asks
  <2> QED BY <1>8, <2>1, <2>2 DEF Spawned
<1>9. CASE Started \/ Flashed
  <2>1. "flash" \in Phases /\ "record" \in Phases
    BY DEF Phases
  <2> QED BY <1>1, <1>2, <1>9, <2>1, GotoMakes DEF Started, Flashed, Acknowledged, GoesOn, RunnerTo
<1>10. CASE AttemptEnds
  BY <1>1, <1>6, <1>7, <1>10 DEF AttemptEnds, Asks
<1>11. CASE Finalized
  BY <1>1, <1>6, <1>7, <1>11 DEF Finalized, Acknowledged, Asks
<1>12. CASE Collected
  <2>1. runner.phase = "stop" /\ runner.reply = "ok" /\ collected' = collected \cup {runner.trip} /\ NextAttempt
        /\ UNCHANGED eventVars
    BY <1>12 DEF Collected, Acknowledged
  <2> QED BY <1>1, <2>1, EndRunMakes, NextAttemptMakes DEF Collects, RunnerTo, RunnerAdvances, eventVars
<1>13. CASE AttemptFails
  <2>1. runner.phase \notin {"idle", "neutralize"}
    BY <1>13 DEF AttemptFails, Awaiting
  <2> QED BY <1>1, <1>6, <1>7, <1>13, <2>1 DEF AttemptFails, Asks
<1>14. CASE Aborted
  BY <1>1, <1>2, <1>14, EndRunMakes DEF Aborted, Ends, RunnerTo
<1> QED BY <1>3, <1>4, <1>5, <1>8, <1>9, <1>10, <1>11, <1>12, <1>13, <1>14 DEF Client, RunnerGoesOn

(* An answer changes at most what the runner waits for.                    *)
Answered(kind, t) ==
  /\ UNCHANGED <<runner.phase, runner.trip>>
  /\ (runner.phase = kind /\ runner.trip = t) \/ UNCHANGED runner

LEMMA ReplyMakes ==
  ASSUME TripTypeOK, NEW kind, NEW t, NEW ok, Reply(kind, t, ok)
  PROVE  /\ runner' \in RunnerStates /\ Answered(kind, t)
         /\ runner.phase = kind /\ runner.trip = t => runner'.reply = IF ok THEN "ok" ELSE "error"
BY DEF TripTypeOK, RunnerStates, Reply, Answered

LEMMA ReceiveMakes ==
  ASSUME TripTypeOK, NEW e, Receive(e)
  PROVE  /\ requests # <<>> /\ requests[1] = e /\ e \in Events
         /\ requests' = Tail(requests) /\ requests' \in Seq(Events) /\ UNCHANGED telemetry
<1>1. requests \in Seq(Events)
  BY DEF TripTypeOK
<1> HIDE DEF Events
<1> QED BY <1>1, Popped DEF Receive

(* What the calls of the recorder's API do to it.                          *)
LEMMA FreeCaller ==
  ASSUME NEW slots, Free(slots) # {}
  PROVE  FirstFree(slots) \in slots /\ call[FirstFree(slots)] = "idle"
BY DEF Free, FirstFree

Starts(c, t) ==
  /\ Receive(Event("start", t))
  /\ call[c] = "idle" /\ call' = [call EXCEPT ![c] = "starting"]
  /\ serving' = [serving EXCEPT ![c] = Event("start", t)]
  /\ UNCHANGED <<sessionState, target, runner, cancelled, recorded, queued, overtaken>>

LEMMA StartArrivesDoes ==
  ASSUME NEW t \in Trips, StartArrives(t)
  PROVE  \E c \in Starters : Starts(c, t)
<1>1. FirstFree(Starters) \in Starters
  BY FreeCaller DEF StartArrives
<1> QED BY <1>1 DEF StartArrives, StartBegin, Begin, Serve, Starts

StartIsRefused(c) ==
  /\ Reply("start", serving[c].trip, FALSE)
  /\ UNCHANGED <<sessionState, recorded>>

Records(c, s) ==
  /\ active = 0 /\ active' = s /\ process[s] = "none"
  /\ process' = [process EXCEPT ![s] = "running"]
  /\ recorded' = [recorded EXCEPT ![s] = serving[c].trip]
  /\ Reply("start", serving[c].trip, TRUE)

LEMMA StartReturnsDoes ==
  ASSUME TripTypeOK, NEW c \in Starters, StartReturns(c)
  PROVE  /\ call[c] = "starting" /\ call' = [call EXCEPT ![c] = "idle"]
         /\ UNCHANGED <<eventVars, serving, cancelled, queued, overtaken, target>>
         /\ StartIsRefused(c) \/ \E s \in Captures : Records(c, s)
<1>1. result \in [Callers -> Results] /\ c \in Callers
  BY CaptureAssumption DEF TripTypeOK, RecorderTypeOK
<1>2. /\ Reply("start", serving[c].trip, result'[c] = "started")
      /\ recorded' = IF result'[c] = "started" THEN [recorded EXCEPT ![active'] = serving[c].trip] ELSE recorded
      /\ UNCHANGED <<eventVars, serving, cancelled, queued, overtaken>>
  BY DEF StartReturns
<1>3. CASE StartFails(c) \/ StartRefused(c)
  <2>1. /\ call[c] = "starting" /\ call' = [call EXCEPT ![c] = "idle"]
        /\ result'[c] # "started" /\ UNCHANGED <<sessionState, target>>
    BY <1>1, <1>3 DEF StartFails, StartRefused, Return
  <2>2. (result'[c] = "started") = FALSE
    BY <2>1
  <2> QED BY <1>2, <2>1, <2>2 DEF StartIsRefused
<1>4. CASE StartProcess(c)
  <2>1. PICK s \in Captures : Spawn(c, s)
    BY <1>4 DEF StartProcess
  <2>2. (result'[c] = "started") = TRUE
    BY <1>1, <2>1 DEF Spawn, Return
  <2> QED BY <1>2, <1>4, <2>1, <2>2 DEF StartProcess, Spawn, Return, Records
<1> QED BY <1>3, <1>4 DEF StartReturns

Stops(c, e) ==
  /\ Receive(e) /\ MayStop(e)
  /\ call[c] = "idle" /\ target' = [target EXCEPT ![c] = active]
  /\ call' = [call EXCEPT ![c] = IF active = 0 THEN "idle" ELSE "stopping"]
  /\ serving' = [serving EXCEPT ![c] = e]
  /\ overtaken' = IF e.kind = "stop" THEN overtaken ELSE overtaken \cup BeingStarted
  /\ active # 0 => UNCHANGED runner
  /\ UNCHANGED <<sessionState, cancelled, recorded, queued>>

LEMMA StopArrivesDoes ==
  ASSUME TripTypeOK, NEW e, StopArrives(e)
  PROVE  \E c \in Stoppers :
           Stops(c, e) /\ (active = 0 => Reply(e.kind, e.trip, e.kind = "abort"))
<1>1. FirstFree(Stoppers) \in Stoppers
  BY FreeCaller DEF StopArrives
<1> DEFINE c == FirstFree(Stoppers)
<1>2. /\ StopBegin(c) /\ Serve(c, e) /\ StopAnswered(c, e) /\ MayStop(e)
      /\ overtaken' = IF e.kind = "stop" THEN overtaken ELSE overtaken \cup BeingStarted
      /\ UNCHANGED <<cancelled, recorded>>
  BY DEF StopArrives
<1>3. c \in Callers /\ c \in Stoppers
  BY <1>1, CaptureAssumption
<1> HIDE DEF c
<1>4. /\ call \in [Callers -> {"idle", "starting", "stopping", "killing"}]
      /\ result \in [Callers -> Results]
  BY DEF TripTypeOK, RecorderTypeOK
<1>5. /\ call[c] = "idle" /\ target' = [target EXCEPT ![c] = active] /\ UNCHANGED sessionState
      /\ call' = [call EXCEPT ![c] = IF active = 0 THEN "idle" ELSE "stopping"]
  BY <1>2 DEF StopBegin, Begin, Return
<1>6. CASE active = 0
  <2>1. result'[c] = "notRunning" /\ call'[c] = "idle"
    BY <1>2, <1>3, <1>4, <1>6 DEF StopBegin, Return
  <2>2. Succeeded(c, e) = (e.kind = "abort") /\ Queued(c, e) = queued
    BY <2>1 DEF Succeeded, Queued
  <2> QED BY <1>2, <1>3, <1>5, <1>6, <2>1, <2>2 DEF Serve, StopAnswered, Stops
<1>7. CASE active # 0
  <2>1. call'[c] # "idle"
    BY <1>3, <1>4, <1>5, <1>7
  <2> QED BY <1>2, <1>3, <1>5, <1>7, <2>1 DEF Serve, StopAnswered, Stops
<1> QED BY <1>6, <1>7

Kills(c) ==
  /\ process[target[c]] # "none"
  /\ call' = [call EXCEPT ![c] = "killing"] /\ process' = [process EXCEPT ![target[c]] = "exited"]
  /\ UNCHANGED <<runner, queued, cancelled>>

Settles(c) ==
  /\ call' = [call EXCEPT ![c] = "idle"] /\ cancelled' = cancelled \ {c}
  /\ c \notin cancelled => process[target[c]] = "exited"
  /\ \/ /\ process[target[c]] = "exited" /\ recorded[target[c]] \in Trips
        /\ Reply(serving[c].kind, serving[c].trip, TRUE)
        /\ queued' = IF serving[c].kind = "abort" THEN queued ELSE queued \cup {recorded[target[c]]}
     \/ /\ Reply(serving[c].kind, serving[c].trip, FALSE)
        /\ UNCHANGED queued
  /\ UNCHANGED process

LEMMA StopGoesOnDoes ==
  ASSUME BaseInv, NEW c \in Stoppers, StopGoesOn(c)
  PROVE  /\ call[c] \in {"stopping", "killing"} /\ target[c] \in Captures
         /\ UNCHANGED <<active, target, eventVars, serving, recorded, overtaken>>
         /\ Kills(c) \/ Settles(c)
<1>1. c \in Callers /\ call \in [Callers -> {"idle", "starting", "stopping", "killing"}]
      /\ result \in [Callers -> Results] /\ recorded \in [Captures -> Trips \cup {NoTrip}]
  BY CaptureAssumption DEF BaseInv, TripTypeOK, RecorderTypeOK
<1>2. /\ StopDone(c) \/ StopTimer(c) \/ (c \in cancelled /\ StopCancelled(c))
      /\ StopAnswered(c, serving[c])
      /\ cancelled' = IF call'[c] = "idle" THEN cancelled \ {c} ELSE cancelled
      /\ UNCHANGED <<eventVars, serving, recorded, overtaken>>
  BY DEF StopGoesOn
<1>3. call[c] \in {"stopping", "killing"} /\ UNCHANGED <<active, target>>
  BY <1>2 DEF StopDone, StopTimer, StopKills, StopCannotKill, KillTimesOut, StopCancelled, sessionState
<1>4. target[c] \in Captures
  BY <1>1, <1>3 DEF BaseInv, RecorderInv, CallLife
<1>5. CASE StopDone(c)
  <2>1. call' = [call EXCEPT ![c] = "idle"] /\ call'[c] = "idle" /\ UNCHANGED process
        /\ result'[c] \in {"stopped", "failed"} /\ done[target[c]]
    BY <1>1, <1>5 DEF StopDone, Return
  <2>2. process[target[c]] = "exited"
    BY <1>4, <2>1 DEF BaseInv, RecorderInv, RecorderTypeOK, SessionLife
  <2>3. recorded[target[c]] \in Trips
    BY <1>1, <1>4, <2>2 DEF BaseInv, SessionsFit
  <2>4. /\ Reply(serving[c].kind, serving[c].trip, Succeeded(c, serving[c]))
        /\ queued' = Queued(c, serving[c])
        /\ cancelled' = cancelled \ {c}
    BY <1>2, <2>1 DEF StopAnswered
  <2>5. CASE result'[c] = "stopped"
    <3>1. Succeeded(c, serving[c]) = TRUE
      BY <2>5 DEF Succeeded
    <3>2. Reply(serving[c].kind, serving[c].trip, TRUE)
      BY <2>4, <3>1
    <3>3. queued' = IF serving[c].kind = "abort" THEN queued ELSE queued \cup {recorded[target[c]]}
      BY <1>2, <1>3, <2>4, <2>5 DEF Queued
    <3> QED BY <1>2, <1>3, <1>4, <2>1, <2>2, <2>3, <2>4, <3>2, <3>3 DEF Settles
  <2>6. CASE result'[c] = "failed"
    <3>1. Succeeded(c, serving[c]) = FALSE
      BY <2>6 DEF Succeeded
    <3>2. Reply(serving[c].kind, serving[c].trip, FALSE)
      BY <2>4, <3>1
    <3>3. UNCHANGED queued
      BY <2>4, <2>6 DEF Queued
    <3> QED BY <1>2, <1>3, <1>4, <2>1, <2>2, <2>4, <3>2, <3>3 DEF Settles
  <2> QED BY <2>1, <2>5, <2>6
<1>6. CASE StopCannotKill(c) \/ KillTimesOut(c) \/ (c \in cancelled /\ StopCancelled(c))
  <2>1. call' = [call EXCEPT ![c] = "idle"] /\ call'[c] = "idle" /\ UNCHANGED process /\ result'[c] = "failed"
    BY <1>1, <1>6 DEF StopCannotKill, KillTimesOut, StopCancelled, Return, sessionState
  <2>2. c \notin cancelled => process[target[c]] = "exited"
    BY <1>6 DEF StopCannotKill, KillTimesOut, BaseInv, CallsFit
  <2>3. /\ Reply(serving[c].kind, serving[c].trip, Succeeded(c, serving[c]))
        /\ queued' = Queued(c, serving[c])
        /\ cancelled' = cancelled \ {c}
    BY <1>2, <2>1 DEF StopAnswered
  <2>4. Succeeded(c, serving[c]) = FALSE
    BY <2>1 DEF Succeeded
  <2>5. Reply(serving[c].kind, serving[c].trip, FALSE)
    BY <2>3, <2>4
  <2>6. UNCHANGED queued
    BY <2>1, <2>3 DEF Queued
  <2> QED BY <1>2, <1>3, <1>4, <2>1, <2>2, <2>3, <2>5, <2>6 DEF Settles
<1>7. CASE StopKills(c)
  <2>1. /\ call' = [call EXCEPT ![c] = "killing"] /\ process' = [process EXCEPT ![target[c]] = "exited"]
        /\ call'[c] # "idle"
    BY <1>1, <1>7 DEF StopKills
  <2>2. process[target[c]] # "none"
    BY <1>4, <1>7 DEF StopKills, BaseInv, RecorderInv, SessionLife
  <2> QED BY <1>2, <1>3, <1>4, <2>1, <2>2 DEF StopAnswered, Kills
<1> QED BY <1>2, <1>5, <1>6, <1>7 DEF StopTimer

(* All that the calls of the API leave alone.                              *)
LEMMA CallsLeaveAlone ==
  ASSUME BaseInv, CaptureCalls
  PROVE  /\ UNCHANGED <<telemetry, serverVars, collected, restarts>>
         /\ runner' \in RunnerStates /\ \E kind, t : kind \in {"start", "stop", "abort", "register"} /\ Answered(kind, t)
         /\ \/ UNCHANGED requests
            \/ requests # <<>> /\ requests' = Tail(requests)
<1> USE DEF BaseInv
<1>1. UNCHANGED <<serverVars, collected, restarts>> /\ runner \in RunnerStates
  BY DEF CaptureCalls, TripTypeOK
<1>2. ASSUME UNCHANGED runner
      PROVE  runner' \in RunnerStates /\ Answered("start", NoTrip)
  BY <1>1, <1>2 DEF Answered
<1>3. ASSUME NEW t \in Trips, StartArrives(t) PROVE UNCHANGED <<telemetry, runner>> /\ requests # <<>> /\ requests' = Tail(requests)
  BY <1>3, StartArrivesDoes, ReceiveMakes DEF Starts
<1>4. ASSUME NEW c \in Starters, StartReturns(c)
      PROVE  UNCHANGED <<telemetry, requests>> /\ runner' \in RunnerStates /\ Answered("start", serving[c].trip)
  <2>1. UNCHANGED eventVars /\ \E ok : Reply("start", serving[c].trip, ok)
    BY <1>4, StartReturnsDoes DEF StartIsRefused, Records
  <2> QED BY <2>1, ReplyMakes DEF eventVars
<1>5. ASSUME requests # <<>>, StopArrives(Head(requests))
      PROVE  /\ UNCHANGED telemetry /\ requests' = Tail(requests) /\ runner' \in RunnerStates
             /\ \E kind, t : kind \in {"start", "stop", "abort", "register"} /\ Answered(kind, t)
  <2> DEFINE e == Head(requests)
  <2>1. PICK c \in Stoppers : Stops(c, e) /\ (active = 0 => Reply(e.kind, e.trip, e.kind = "abort"))
    BY <1>5, StopArrivesDoes
  <2>2. UNCHANGED telemetry /\ requests' = Tail(requests) /\ e.kind \in {"stop", "abort", "register"}
    BY <2>1, ReceiveMakes DEF Stops, MayStop
  <2>3. CASE active = 0
    BY <2>1, <2>2, <2>3, ReplyMakes
  <2>4. CASE active # 0
    BY <1>2, <2>1, <2>2, <2>4 DEF Stops
  <2> QED BY <2>3, <2>4
<1>6. ASSUME NEW c \in Stoppers, StopGoesOn(c)
      PROVE  /\ UNCHANGED <<telemetry, requests>> /\ runner' \in RunnerStates
             /\ \E kind, t : kind \in {"start", "stop", "abort", "register"} /\ Answered(kind, t)
  <2>1. call[c] # "idle" /\ UNCHANGED <<telemetry, requests>> /\ (Kills(c) \/ Settles(c))
    BY <1>6, StopGoesOnDoes DEF eventVars
  <2>2. serving[c].kind \in {"stop", "abort", "register"}
    BY <2>1 DEF CallsFit, Stopping
  <2>3. CASE Kills(c)
    BY <1>2, <2>1, <2>3 DEF Kills
  <2>4. CASE Settles(c)
    <3>1. \E ok : Reply(serving[c].kind, serving[c].trip, ok)
      BY <2>4 DEF Settles
    <3> QED BY <2>1, <2>2, <3>1, ReplyMakes
  <2> QED BY <2>1, <2>3, <2>4
<1> QED BY <1>1, <1>2, <1>3, <1>4, <1>5, <1>6 DEF CaptureCalls
-----------------------------------------------------------------------------
(* The recorder's part, the types and what the others rest on.             *)
LEMMA BaseInit == TripInit => BaseInv
<1> SUFFICES ASSUME TripInit PROVE BaseInv
  OBVIOUS
<1> USE TripParts, CaptureAssumption DEF TripInit
<1>1. RecorderInv /\ RecorderTypeOK
  BY RecorderInvInit DEF RecorderInv
<1>2. runner \in RunnerStates
  <2>1. runner = [phase |-> "idle", stopRequested |-> FALSE, reply |-> "none", trip |-> [run |-> 0, index |-> 0]]
    BY DEF AtRest, NoTrip
  <2> QED BY <2>1 DEF RunnerStates, Phases
<1>3. server \in Memories /\ written \in Files
  BY DEF NoMemory, Memories, Files
<1>4. serving \in [Callers -> Events] /\ requests \in Seq(Events) /\ recorded \in [Captures -> Trips \cup {NoTrip}]
  BY EventParts
<1>5. TripTypeOK
  BY <1>1, <1>2, <1>3, <1>4 DEF TripTypeOK
<1>6. RunnerFits
  BY DEF AtRest, RunnerFits
<1>7. \A c \in Callers : call[c] = "idle"
  BY DEF RecorderInit
<1>8. CallsFit
  BY <1>7 DEF CallsFit
<1>9. SessionsFit
  BY DEF SessionsFit, RecorderInit
<1> QED BY <1>1, <1>5, <1>6, <1>8, <1>9 DEF BaseInv

LEMMA RecorderKept == BaseInv /\ [TripNext]_tripVars => RecorderInv' /\ RecorderTypeOK'
BY RecorderStepKeepsInv, TripStepsAreRecorderSteps DEF BaseInv, RecorderInv

LEMMA ClientKeepsBase ==
  ASSUME BaseInv, Client
  PROVE  BaseInv'
<1>1. RecorderInv' /\ RecorderTypeOK'
  BY RecorderKept DEF TripNext
<1> USE DEF BaseInv
<1>2. /\ runner' \in RunnerStates /\ requests' \in Seq(Events) /\ telemetry' \subseteq Trips
      /\ UNCHANGED <<recorderVars, serverVars, backendVars, restarts>>
      /\ Begins \/ Stays \/ Ends \/ Advances \/ Collects \/ GoesOn \/ \E kind \in Awaiting : Asks(kind)
  BY ClientDoes
<1>3. collected' \subseteq Trips
  BY <1>2 DEF Begins, Stays, Ends, Advances, Collects, GoesOn, Asks, TripTypeOK, RunnerFits
<1>4. TripTypeOK'
  BY <1>1, <1>2, <1>3 DEF TripTypeOK, serverVars, backendVars
<1>5. RunnerFits'
  <2>1. CASE Begins
    BY <2>1, TripParts DEF Begins, RunnerFits, TripTypeOK, RunnerStates
  <2>2. CASE Stays \/ Ends \/ GoesOn \/ (Collects /\ RunnerTo("idle")) \/ \E kind \in Awaiting : Asks(kind)
    BY <2>2 DEF Stays, Ends, GoesOn, Collects, RunnerTo, Asks, RunnerFits, Awaiting
  <2>3. CASE Advances \/ (Collects /\ RunnerAdvances)
    <3>1. RunnerAdvances /\ runner.phase \in {"neutralize", "stop"}
      BY <2>3 DEF Advances, Collects
    <3> DEFINE t == runner.trip
               u == runner'.trip
    <3>2. t.run \in Runs /\ (t.index = 0 \/ t \in Trips)
      BY <3>1 DEF RunnerFits
    <3>3. Attempts[t.run] \in Nat \ {0} /\ t.index \in 0..Attempts[t.run]
      BY <3>2, TripParts
    <3>4. u.run = t.run /\ u.index = t.index + 1 /\ t.index # Attempts[t.run] /\ u = [run |-> u.run, index |-> u.index]
      BY <1>2, <3>1 DEF RunnerAdvances, RunnerStates
    <3> HIDE DEF t, u
    <3>5. u.index \in 1..Attempts[u.run]
      BY <3>3, <3>4
    <3>6. u \in Trips
      BY <3>2, <3>4, <3>5, TripParts
    <3> QED BY <3>1, <3>2, <3>4, <3>6 DEF RunnerAdvances, RunnerFits, t, u
  <2> QED BY <1>2, <2>1, <2>2, <2>3 DEF Collects
<1>6. CallsFit' /\ SessionsFit'
  BY <1>2 DEF CallsFit, SessionsFit, recorderVars, sessionState, callState, backendVars
<1> QED BY <1>1, <1>4, <1>5, <1>6

(* What the server's memory and files become.                              *)
LEMMA GatherMakes ==
  ASSUME server \in Memories, NEW t \in Trips, Gather(t)
  PROVE  /\ server' \in Memories
         /\ \/ UNCHANGED server
            \/ /\ t \notin server.finalized /\ MayGather(t)
               /\ server'.pending = server.pending \cup {t}
               /\ server'.active = [server.active EXCEPT ![t.run] = t.index]
               /\ server'.finalizing = server.finalizing /\ server'.finalized = server.finalized
<1>1. CASE t \in server.finalized \/ ~MayGather(t)
  BY <1>1 DEF Gather
<1>2. CASE ~(t \in server.finalized \/ ~MayGather(t))
  <2> DEFINE now == [server.active EXCEPT ![t.run] = t.index]
  <2>1. server.active \in [Runs -> Nat]
    BY DEF Memories
  <2>2. now \in [Runs -> Nat]
    BY <2>1, TripParts
  <2>3. server' = [server EXCEPT !.pending = server.pending \cup {t}, !.active = now]
    BY <1>2, <2>1 DEF Gather, Memories
  <2> HIDE DEF now
  <2>4. /\ server' \in Memories /\ server'.pending = server.pending \cup {t} /\ server'.active = now
        /\ server'.finalizing = server.finalizing /\ server'.finalized = server.finalized
    BY <2>2, <2>3 DEF Memories
  <2> QED BY <1>2, <2>4 DEF now
<1> QED BY <1>1, <1>2

LEMMA RememberMakes ==
  ASSUME server \in Memories, NEW t \in Trips, Remember(t)
  PROVE  /\ server' \in Memories
         /\ server'.pending = server.pending \ {t} /\ server'.active = [server.active EXCEPT ![t.run] = 0]
         /\ server'.finalizing = server.finalizing \ {t} /\ server'.finalized = server.finalized \cup {t}
<1> DEFINE now == [server.active EXCEPT ![t.run] = 0]
<1>1. server.active \in [Runs -> Nat]
  BY DEF Memories
<1>2. now \in [Runs -> Nat]
  BY <1>1
<1>3. server' = [server EXCEPT !.finalizing = server.finalizing \ {t}, !.pending = server.pending \ {t},
                               !.finalized = server.finalized \cup {t}, !.active = now]
  BY <1>1 DEF Remember, Memories
<1> HIDE DEF now
<1>4. /\ server' \in Memories /\ server'.pending = server.pending \ {t} /\ server'.active = now
      /\ server'.finalizing = server.finalizing \ {t} /\ server'.finalized = server.finalized \cup {t}
  BY <1>2, <1>3 DEF Memories
<1> QED BY <1>4 DEF now

LEMMA FilesMake ==
  ASSUME written \in Files, NEW t \in Trips
  PROVE  /\ WithMetadata(t) \in Files /\ WithRow(t) \in Files /\ WithManifest(t) \in Files
         /\ WithMetadata(t).rows = written.rows
         /\ WithRow(t).rows = Append(written.rows, t) /\ WithManifest(t).rows = Append(written.rows, t)
         /\ WithMetadata(t).manifest = written.manifest /\ WithRow(t).manifest = written.manifest
         /\ WithManifest(t).manifest = Append(written.manifest, t)
         /\ WithMetadata(t).metadata = written.metadata \cup {t}
         /\ WithRow(t).metadata = written.metadata \cup {t} /\ WithManifest(t).metadata = written.metadata \cup {t}
<1> DEFINE rows     == Append(written.rows, t)
           manifest == Append(written.manifest, t)
<1>1. rows \in Seq(Trips) /\ manifest \in Seq(Trips) /\ written.rows \in Seq(Trips) /\ written.manifest \in Seq(Trips)
  BY DEF Files
<1> DEFINE a == [written EXCEPT !.metadata = written.metadata \cup {t}]
           b == [a EXCEPT !.rows = rows]
           d == [b EXCEPT !.manifest = manifest]
<1>2. WithMetadata(t) = a
  BY DEF WithMetadata
<1> HIDE DEF rows, manifest
<1>3. /\ a \in Files /\ a.metadata = written.metadata \cup {t} /\ a.rows = written.rows
      /\ a.manifest = written.manifest
  BY DEF Files
<1> HIDE DEF a
<1>4. /\ b \in Files /\ b.metadata = a.metadata /\ b.rows = rows /\ b.manifest = a.manifest
  BY <1>1, <1>3 DEF Files
<1>5. WithRow(t) = b
  BY <1>2, <1>3 DEF WithRow, rows, Files
<1> HIDE DEF b
<1>6. /\ d \in Files /\ d.metadata = b.metadata /\ d.rows = b.rows /\ d.manifest = manifest
  BY <1>1, <1>4 DEF Files
<1>7. WithManifest(t) = d
  BY <1>3, <1>4, <1>5 DEF WithManifest, manifest, Files
<1> HIDE DEF d
<1> QED BY <1>2, <1>3, <1>4, <1>5, <1>6, <1>7 DEF rows, manifest

LEMMA ServerKeepsBase ==
  ASSUME BaseInv, Server
  PROVE  /\ BaseInv' /\ UNCHANGED <<runner.phase, runner.trip>>
<1>1. RecorderInv' /\ RecorderTypeOK'
  BY RecorderKept DEF TripNext
<1>2. PICK t \in Trips : \/ ChunkArrives(t) \/ FinalizeArrives(t)
                         \/ FlushTrip(t) \/ FinalizeGivesUp(t) \/ RefuseStop(t)
  BY DEF Server
<1>3. UNCHANGED <<recorderVars, collected, backendVars, restarts>> /\ TripTypeOK
  BY DEF Server, BaseInv
<1> DEFINE Keeps == /\ runner' \in RunnerStates /\ UNCHANGED <<runner.phase, runner.trip>>
                    /\ requests' \in Seq(Events) /\ telemetry' \subseteq Trips
                    /\ server' \in Memories /\ written' \in Files /\ faults' \in 0..MaxFaults
<1>4. runner \in RunnerStates /\ requests \in Seq(Events) /\ telemetry \subseteq Trips /\ server \in Memories
      /\ written \in Files /\ faults \in 0..MaxFaults
  BY <1>3 DEF TripTypeOK
<1>5. Fault => faults' \in 0..MaxFaults
  BY <1>4, CaptureAssumption DEF Fault
<1>6. t.run \in Runs /\ t.index \in Nat
  BY TripParts
<1>7. ASSUME NEW kind, NEW ok, Reply(kind, t, ok) PROVE runner' \in RunnerStates /\ UNCHANGED <<runner.phase, runner.trip>>
  BY <1>3, <1>7, ReplyMakes DEF Answered
<1>8. ASSUME NEW e, Receive(e) PROVE requests' \in Seq(Events) /\ UNCHANGED telemetry
  BY <1>3, <1>8, ReceiveMakes
<1>9. ASSUME ChunkArrives(t) PROVE Keeps
  <2>1. server' \in Memories
    BY <1>4, <1>9, GatherMakes DEF ChunkArrives
  <2> QED BY <1>4, <1>5, <1>9, <2>1 DEF ChunkArrives
<1>10. ASSUME FinalizeArrives(t) PROVE Keeps
  <2>1. server' \in Memories
    BY <1>4, <1>10 DEF FinalizeArrives, Memories
  <2> QED BY <1>4, <1>8, <1>10, <2>1 DEF FinalizeArrives
<1>11. ASSUME FlushTrip(t) PROVE Keeps
  <2> DEFINE forgotten == [server EXCEPT !.finalizing = server.finalizing \ {t}]
  <2>1. forgotten \in Memories
    BY <1>4 DEF Memories
  <2>2. /\ \E ok : Reply("finalize", t, ok)
        /\ server' = forgotten \/ Remember(t)
        /\ written' \in {written, WithMetadata(t), WithRow(t), WithManifest(t)}
        /\ Fault \/ UNCHANGED faults
        /\ UNCHANGED eventVars
    BY <1>11 DEF FlushTrip
  <2> HIDE DEF forgotten
  <2>3. server' \in Memories /\ written' \in Files
    BY <1>4, <2>1, <2>2, RememberMakes, FilesMake, ZenonT(40)
  <2> QED BY <1>4, <1>5, <1>7, <2>2, <2>3 DEF eventVars
<1>12. ASSUME FinalizeGivesUp(t) PROVE Keeps
  <2>1. server' \in Memories
    BY <1>4, <1>12 DEF FinalizeGivesUp, Memories
  <2> QED BY <1>4, <1>7, <1>12, <2>1 DEF FinalizeGivesUp, eventVars
<1>13. ASSUME RefuseStop(t) PROVE Keeps
  BY <1>4, <1>7, <1>8, <1>13 DEF RefuseStop
<1>14. Keeps
  BY <1>2, <1>9, <1>10, <1>11, <1>12, <1>13
<1>15. TripTypeOK'
  BY <1>1, <1>3, <1>14 DEF TripTypeOK, backendVars
<1>16. RunnerFits'
  BY <1>14 DEF RunnerFits, BaseInv
<1>17. CallsFit' /\ SessionsFit'
  BY <1>3 DEF BaseInv, CallsFit, SessionsFit, recorderVars, sessionState, callState, backendVars
<1> QED BY <1>1, <1>14, <1>15, <1>16, <1>17 DEF BaseInv

LEMMA CallsKeepBase ==
  ASSUME BaseInv, CaptureCalls
  PROVE  BaseInv'
<1>1. RecorderInv' /\ RecorderTypeOK'
  BY RecorderKept DEF TripNext
<1>2. /\ UNCHANGED <<telemetry, serverVars, collected, restarts>>
      /\ runner' \in RunnerStates /\ UNCHANGED <<runner.phase, runner.trip>>
      /\ UNCHANGED requests \/ (requests # <<>> /\ requests' = Tail(requests))
  BY CallsLeaveAlone DEF Answered
<1> USE DEF BaseInv
<1>3. requests \in Seq(Events) /\ TripTypeOK
  BY DEF TripTypeOK
<1>4. requests' \in Seq(Events)
  BY <1>2, <1>3, Popped
<1>5. Starters \subseteq Callers /\ Stoppers \subseteq Callers /\ Starters \cap Stoppers = {}
  BY CaptureAssumption
<1>6. BeingStarted \subseteq Trips
  BY DEF BeingStarted, CallsFit
<1> DEFINE Fits == /\ serving' \in [Callers -> Events] /\ cancelled' \subseteq Callers
                   /\ recorded' \in [Captures -> Trips \cup {NoTrip}]
                   /\ queued' \subseteq Trips /\ overtaken' \subseteq Trips
                   /\ CallsFit' /\ SessionsFit'
<1>7. /\ call \in [Callers -> {"idle", "starting", "stopping", "killing"}]
      /\ process \in [Captures -> {"none", "running", "exited"}]
      /\ target \in [Callers -> {0} \cup Captures]
      /\ serving \in [Callers -> Events] /\ cancelled \subseteq Callers
      /\ recorded \in [Captures -> Trips \cup {NoTrip}]
      /\ queued \subseteq Trips /\ overtaken \subseteq Trips
  BY DEF TripTypeOK, RecorderTypeOK
<1>8. ASSUME NEW t \in Trips, StartArrives(t) PROVE Fits
  <2>1. PICK c \in Starters : Starts(c, t)
    BY <1>8, StartArrivesDoes
  <2>2. Event("start", t) \in Events /\ Event("start", t).kind = "start" /\ Event("start", t).trip = t
    BY EventParts DEF Awaiting
  <2> QED BY <1>5, <1>7, <2>1, <2>2 DEF Starts, CallsFit, SessionsFit, sessionState
<1>9. ASSUME NEW c \in Starters, StartReturns(c) PROVE Fits
  <2>1. /\ call[c] = "starting" /\ call' = [call EXCEPT ![c] = "idle"]
        /\ UNCHANGED <<eventVars, serving, cancelled, queued, overtaken, target>>
        /\ StartIsRefused(c) \/ \E s \in Captures : Records(c, s)
    BY <1>3, <1>9, StartReturnsDoes
  <2>2. CASE StartIsRefused(c)
    BY <1>5, <1>7, <2>1, <2>2 DEF StartIsRefused, CallsFit, SessionsFit, sessionState
  <2>3. ASSUME NEW s \in Captures, Records(c, s) PROVE Fits
    <3>1. serving[c].trip \in Trips /\ serving[c].trip # NoTrip
      BY <2>1, TripParts DEF CallsFit
    <3>2. \A d \in Captures : process[d] = "exited" => process'[d] = "exited"
      BY <1>7, <2>3 DEF Records
    <3>3. \A d \in Stoppers : call[d] = "killing" => target[d] \in Captures
      BY <1>5 DEF RecorderInv, CallLife
    <3>4. CallsFit'
      BY <1>5, <1>7, <2>1, <3>2, <3>3 DEF CallsFit
    <3>5. SessionsFit'
      BY <1>7, <2>3, <3>1 DEF Records, SessionsFit
    <3> QED BY <1>7, <2>1, <2>3, <3>1, <3>4, <3>5 DEF Records
  <2> QED BY <2>1, <2>2, <2>3
<1>10. ASSUME requests # <<>>, StopArrives(Head(requests)) PROVE Fits
  <2> DEFINE e == Head(requests)
  <2>1. PICK c \in Stoppers : Stops(c, e)
    BY <1>3, <1>10, StopArrivesDoes
  <2>2. e \in Events /\ e.kind \in {"stop"} \cup Stopping
    BY <1>3, <2>1, ReceiveMakes DEF Stops, MayStop, Stopping
  <2> HIDE DEF e
  <2>3. CallsFit'
    BY <1>5, <1>7, <2>1, <2>2 DEF Stops, CallsFit, sessionState
  <2>4. SessionsFit'
    BY <2>1 DEF Stops, SessionsFit, sessionState
  <2> QED BY <1>5, <1>6, <1>7, <2>1, <2>2, <2>3, <2>4 DEF Stops
<1>11. ASSUME NEW c \in Stoppers, StopGoesOn(c) PROVE Fits
  <2>1. /\ call[c] \in {"stopping", "killing"} /\ target[c] \in Captures
        /\ UNCHANGED <<active, target, eventVars, serving, recorded, overtaken>>
        /\ Kills(c) \/ Settles(c)
    BY <1>11, StopGoesOnDoes
  <2>2. CASE Kills(c)
    <3>1. process[target[c]] # "none"
      BY <2>2 DEF Kills
    <3>2. \A d \in Captures : process[d] = "exited" => process'[d] = "exited"
      BY <1>7, <2>2 DEF Kills
    <3>3. \A d \in Stoppers : call[d] = "killing" => target[d] \in Captures
      BY <1>5 DEF RecorderInv, CallLife
    <3>4. CallsFit'
      BY <1>5, <1>7, <2>1, <2>2, <3>2, <3>3 DEF Kills, CallsFit
    <3>5. SessionsFit'
      BY <1>7, <2>1, <2>2, <3>1 DEF Kills, SessionsFit
    <3> QED BY <1>7, <2>1, <2>2, <3>4, <3>5 DEF Kills
  <2>3. CASE Settles(c)
    BY <1>5, <1>7, <2>1, <2>3, ZenonT(40) DEF Settles, CallsFit, SessionsFit
  <2> QED BY <2>1, <2>2, <2>3
<1>12. Fits
  BY <1>8, <1>9, <1>10, <1>11 DEF CaptureCalls
<1>13. TripTypeOK'
  BY <1>1, <1>2, <1>3, <1>4, <1>12 DEF TripTypeOK, serverVars
<1>14. RunnerFits'
  BY <1>2 DEF RunnerFits
<1> QED BY <1>1, <1>12, <1>13, <1>14

LEMMA RestKeepsBase ==
  ASSUME BaseInv, Process \/ ClientRestarts \/ ResourceRestarts \/ UNCHANGED tripVars
  PROVE  BaseInv'
<1>1. RecorderInv' /\ RecorderTypeOK'
  BY RecorderKept DEF TripNext
<1> USE DEF BaseInv
<1>2. TripTypeOK /\ runner \in RunnerStates /\ requests \in Seq(Events) /\ restarts \in 0..MaxRestarts
      /\ process \in [Captures -> {"none", "running", "exited"}]
      /\ waiter \in [Captures -> {"off", "wait", "reaped", "cleared", "end"}]
  BY DEF TripTypeOK, RecorderTypeOK
<1>3. CASE Process
  <2>1. PICK s \in Captures : ProcessExits(s) \/ Waiter(s)
    BY <1>3 DEF Process
  <2>2. UNCHANGED callState /\ \A d \in Captures :
          process'[d] = process[d] \/ (process[d] = "running" /\ process'[d] = "exited")
    BY <1>2, <2>1 DEF ProcessExits, Waiter, Reap, Clear, Deliver
  <2>3. UNCHANGED <<clientVars, eventVars, serverVars, backendVars, restarts>>
    BY <1>3 DEF Process
  <2>4. \A d \in Stoppers : call[d] = "killing" => target[d] \in Captures
    BY CaptureAssumption DEF RecorderInv, CallLife
  <2>5. CallsFit' /\ SessionsFit' /\ RunnerFits'
    BY <2>2, <2>3, <2>4 DEF CallsFit, SessionsFit, RunnerFits, callState, backendVars, clientVars
  <2>6. TripTypeOK'
    BY <1>1, <2>3 DEF TripTypeOK, clientVars, eventVars, serverVars, backendVars
  <2> QED BY <1>1, <2>5, <2>6
<1>4. CASE ClientRestarts \/ ResourceRestarts
  <2>1. /\ runner' = AtRest(runner.trip) /\ restarts' \in 0..MaxRestarts
        /\ UNCHANGED <<recorderVars, collected, written, faults, serving, recorded, queued, overtaken>>
    BY <1>2, <1>4, CaptureAssumption DEF ClientRestarts, ResourceRestarts, Restart
  <2>2. runner' \in RunnerStates /\ runner'.phase = "idle"
    BY <1>2, <2>1 DEF AtRest, RunnerStates, Phases
  <2>3. Event("register", NoTrip) \in Events
    BY EventParts
  <2>4. requests' \in Seq(Events) /\ telemetry' \subseteq Trips
    <3> DEFINE e == Event("register", NoTrip)
    <3>1. requests' = Append(requests, e) \/ requests' = <<e>>
      BY <1>4 DEF ClientRestarts, ResourceRestarts
    <3>2. telemetry' \subseteq telemetry
      BY <1>4 DEF ClientRestarts, ResourceRestarts
    <3> HIDE DEF e, Events
    <3>3. e \in Events
      BY <2>3 DEF e
    <3>4. <<e>> \in Seq(Events) /\ Append(requests, e) \in Seq(Events)
      BY <1>2, <3>3, Appended
    <3>5. telemetry \subseteq Trips
      BY <1>2 DEF TripTypeOK
    <3> QED BY <3>1, <3>2, <3>4, <3>5
  <2>5. NoMemory \in Memories
    BY DEF NoMemory, Memories
  <2>6. server' \in Memories /\ cancelled' \subseteq Callers /\ cancelled' \subseteq {c \in Stoppers : call[c] # "idle"}
    BY <1>2, <1>4, <2>5, CaptureAssumption DEF TripTypeOK, ClientRestarts, ResourceRestarts, CallsFit
  <2>7. TripTypeOK'
    BY <1>1, <2>1, <2>2, <2>4, <2>6 DEF TripTypeOK
  <2>8. RunnerFits'
    BY <2>2 DEF RunnerFits
  <2>9. CallsFit' /\ SessionsFit'
    BY <2>1, <2>6 DEF CallsFit, SessionsFit, recorderVars, sessionState, callState
  <2> QED BY <1>1, <2>7, <2>8, <2>9
<1>5. CASE UNCHANGED tripVars
  <2>1. UNCHANGED <<recorderVars, clientVars, eventVars, serverVars, backendVars, restarts>>
    BY <1>5 DEF tripVars
  <2>2. TripTypeOK'
    BY <1>1, <2>1 DEF TripTypeOK, clientVars, eventVars, serverVars, backendVars
  <2>3. CallsFit' /\ SessionsFit' /\ RunnerFits'
    BY <2>1 DEF CallsFit, SessionsFit, RunnerFits, recorderVars, sessionState, callState, backendVars, clientVars
  <2> QED BY <1>1, <2>2, <2>3
<1> QED BY <1>3, <1>4, <1>5

LEMMA BaseKept == BaseInv /\ [TripNext]_tripVars => BaseInv'
BY ClientKeepsBase, ServerKeepsBase, CallsKeepBase, RestKeepsBase DEF TripNext

(* Whatever is in flight at the client, the server and the recorder has    *)
(* its type, for any number of runs, attempts, requests and restarts.      *)
THEOREM CaptureTypes == TripSpec => []TripTypeOK
<1>1. BaseInv => TripTypeOK
  BY DEF BaseInv
<1> QED BY <1>1, BaseInit, BaseKept, PTL DEF TripSpec
-----------------------------------------------------------------------------
(* What the runner has passed it does not come to again.                   *)
RunnerRests == UNCHANGED runner.trip /\ runner'.phase \in {runner.phase, "idle"}

LEMMA OthersLetRest ==
  ASSUME BaseInv, [TripNext]_tripVars, ~Client
  PROVE  RunnerRests
<1>1. CASE Server
  BY <1>1, ServerKeepsBase DEF RunnerRests
<1>2. CASE CaptureCalls
  BY <1>2, CallsLeaveAlone DEF Answered, RunnerRests
<1>3. CASE Process \/ UNCHANGED tripVars
  BY <1>3 DEF Process, tripVars, clientVars, RunnerRests
<1>4. CASE ClientRestarts \/ ResourceRestarts
  BY <1>4 DEF ClientRestarts, ResourceRestarts, Restart, AtRest, RunnerRests
<1> QED BY <1>1, <1>2, <1>3, <1>4 DEF TripNext

LEMMA PassedStays ==
  ASSUME BaseInv, [TripNext]_tripVars, NEW t \in Trips,
         NEW phases \in {BeforeStart, BeforeFinalize, BeforeStop}, Passed(t, phases)
  PROVE  Passed(t, phases)'
<1>1. t.run \in Nat /\ t.index \in Nat
  BY TripParts
<1>2. runner \in RunnerStates /\ TripTypeOK /\ RunnerFits /\ BaseInv'
  BY BaseKept DEF BaseInv, TripTypeOK
<1>3. runner.trip.run \in Nat /\ runner.trip.index \in Nat
  BY <1>2, TripParts DEF RunnerStates
<1>4. ASSUME UNCHANGED runner.trip, runner'.phase \in phases => runner.phase \in phases
      PROVE  Passed(t, phases)'
  BY <1>4 DEF Passed
<1>5. CASE RunnerRests
  BY <1>4, <1>5 DEF RunnerRests, BeforeStart, BeforeFinalize, BeforeStop
<1>6. CASE Client
  <2>1. Begins \/ Stays \/ Ends \/ Advances \/ Collects \/ GoesOn \/ \E kind \in Awaiting : Asks(kind)
    BY <1>2, <1>6, ClientDoes
  <2>2. CASE Begins
    <3>1. runner'.trip.run = runner.trip.run + 1
      BY <2>2 DEF Begins
    <3>2. t.run <= runner.trip.run
      BY <1>1, <1>3 DEF Passed
    <3>3. t.run < runner'.trip.run
      BY <1>1, <1>3, <3>1, <3>2
    <3> QED BY <3>3 DEF Passed
  <2>3. CASE RunnerAdvances
    <3> DEFINE at   == runner.trip
               next == runner'.trip
    <3>1. next.run = at.run /\ next.index = at.index + 1
      BY <2>3 DEF RunnerAdvances
    <3>2. t.run < at.run \/ (t.run = at.run /\ t.index <= at.index)
      BY <1>1, <1>3 DEF Passed
    <3>3. at.run \in Nat /\ at.index \in Nat
      BY <1>3
    <3> HIDE DEF at, next
    <3>4. t.run < next.run \/ (t.run = next.run /\ t.index < next.index)
      BY <1>1, <3>1, <3>2, <3>3
    <3> QED BY <3>4 DEF Passed, next
  <2>4. CASE Stays \/ Ends \/ GoesOn \/ (Collects /\ RunnerTo("idle")) \/ \E kind \in Awaiting : Asks(kind)
    BY <1>4, <2>4 DEF Stays, Ends, GoesOn, Collects, RunnerTo, Asks, BeforeStart, BeforeFinalize, BeforeStop
  <2> QED BY <2>1, <2>2, <2>3, <2>4 DEF Advances, Collects
<1> QED BY <1>5, <1>6, OthersLetRest

-----------------------------------------------------------------------------
(* The barrier: one trip of a run at a time.                               *)
LEMMA BarrierInit == TripInit => BarrierInv
<1> SUFFICES ASSUME TripInit PROVE BarrierInv
  OBVIOUS
<1>1. server.pending = {} /\ telemetry = {} /\ (\A r \in Runs : server.active[r] = 0) /\ DOMAIN written.manifest = {}
  BY DEF TripInit, NoMemory
<1> QED BY <1>1 DEF BarrierInv, PendingIsActive, OpenFits, OpenTrips, ManifestFits

ServerWrites(t) ==
  /\ t \in server.finalizing /\ t \in server.pending
  /\ written' = WithManifest(t) /\ Remember(t) /\ Reply("finalize", t, TRUE)
  /\ UNCHANGED <<requests, telemetry>>

ServerGathers(t) ==
  /\ t \in telemetry /\ telemetry' = telemetry \ {t}
  /\ Gather(t) \/ UNCHANGED server
  /\ UNCHANGED <<runner, requests, written>>

ServerFails(t) ==
  /\ t \in server.finalizing /\ server'.finalizing = server.finalizing \ {t}
  /\ UNCHANGED <<server.pending, server.active, server.finalized, requests, telemetry>>
  /\ written' \in {written, WithMetadata(t), WithRow(t)}
  /\ Reply("finalize", t, FALSE)

ServerReceives(t) ==
  /\ UNCHANGED <<server.pending, server.active, server.finalized, written>>
  /\ \/ /\ Receive(Event("finalize", t)) /\ server'.finalizing = server.finalizing \cup {t} /\ UNCHANGED runner
     \/ /\ Receive(Event("stop", t)) /\ Reply("stop", t, FALSE) /\ UNCHANGED server

LEMMA ServerDoes ==
  ASSUME BaseInv, Server
  PROVE  /\ UNCHANGED <<recorderVars, collected, backendVars, restarts>>
         /\ \E t \in Trips : ServerWrites(t) \/ ServerGathers(t) \/ ServerFails(t) \/ ServerReceives(t)
<1>1. PICK t \in Trips : \/ ChunkArrives(t) \/ FinalizeArrives(t)
                         \/ FlushTrip(t) \/ FinalizeGivesUp(t) \/ RefuseStop(t)
  BY DEF Server
<1>2. server \in Memories
  BY DEF BaseInv, TripTypeOK
<1>3. ChunkArrives(t) => ServerGathers(t)
  BY DEF ChunkArrives, ServerGathers
<1>4. FinalizeArrives(t) \/ RefuseStop(t) => ServerReceives(t)
  BY <1>2 DEF FinalizeArrives, RefuseStop, ServerReceives, Memories
<1>5. FinalizeGivesUp(t) => ServerFails(t)
  BY <1>2 DEF FinalizeGivesUp, ServerFails, Memories, eventVars
<1>6. FlushTrip(t) => ServerWrites(t) \/ ServerFails(t)
  BY <1>2 DEF FlushTrip, ServerWrites, ServerFails, Memories, eventVars
<1> QED BY <1>1, <1>3, <1>4, <1>5, <1>6 DEF Server

LEMMA PendingKept ==
  ASSUME BaseInv, BarrierInv, [TripNext]_tripVars
  PROVE  PendingIsActive'
<1>1. PendingIsActive /\ server \in Memories
  BY DEF BaseInv, TripTypeOK, BarrierInv
<1>2. ASSUME UNCHANGED <<server.pending, server.active, server.finalized>>
      PROVE  PendingIsActive'
  BY <1>1, <1>2 DEF PendingIsActive
<1>3. CASE Server
  <2>1. PICK t \in Trips : ServerWrites(t) \/ ServerGathers(t) \/ ServerFails(t) \/ ServerReceives(t)
    BY <1>3, ServerDoes
  <2>2. t.run \in Runs /\ t.index \in Nat \ {0} /\ t = [run |-> t.run, index |-> t.index]
    BY TripParts
  <2>3. CASE ServerWrites(t)
    <3>1. /\ server'.pending = server.pending \ {t} /\ server'.active = [server.active EXCEPT ![t.run] = 0]
          /\ server'.finalized = server.finalized \cup {t} /\ t \in server.pending
      BY <1>1, <2>3, RememberMakes DEF ServerWrites
    <3>2. server.pending \subseteq Trips /\ server.active \in [Runs -> Nat]
      BY <1>1 DEF Memories
    <3>3. ASSUME NEW s \in server.pending, s # t
          PROVE  s.run # t.run /\ s.run \in Runs
      BY <1>1, <2>2, <3>1, <3>2, <3>3, TripParts DEF PendingIsActive
    <3>4. ASSUME NEW s \in server'.pending
          PROVE  s \notin server'.finalized /\ server'.active[s.run] = s.index
      BY <1>1, <3>1, <3>2, <3>3, <3>4 DEF PendingIsActive
    <3>5. ASSUME NEW r \in Runs, server'.active[r] # 0
          PROVE  [run |-> r, index |-> server'.active[r]] \in server'.pending
      BY <1>1, <2>2, <3>1, <3>2, <3>5 DEF PendingIsActive
    <3> QED BY <3>4, <3>5 DEF PendingIsActive
  <2>4. CASE ServerGathers(t) /\ Gather(t) /\ server' # server
    <3>1. /\ t \notin server.finalized /\ MayGather(t)
          /\ server'.pending = server.pending \cup {t}
          /\ server'.active = [server.active EXCEPT ![t.run] = t.index]
          /\ server'.finalized = server.finalized
      BY <1>1, <2>4, GatherMakes
    <3>2. server.pending \subseteq Trips /\ server.active \in [Runs -> Nat]
      BY <1>1 DEF Memories
    <3>3. ASSUME NEW s \in server'.pending
          PROVE  s \notin server'.finalized /\ server'.active[s.run] = s.index
      <4>1. CASE s = t
        BY <2>2, <3>1, <3>2, <4>1
      <4>2. CASE s \in server.pending
        <5>1. s \notin server.finalized /\ server.active[s.run] = s.index /\ s.index # 0 /\ s.run \in Runs
          BY <1>1, <3>2, <4>2, TripParts DEF PendingIsActive
        <5> QED BY <3>1, <3>2, <5>1 DEF MayGather
      <4> QED BY <3>1, <3>3, <4>1, <4>2
    <3>4. ASSUME NEW r \in Runs, server'.active[r] # 0
          PROVE  [run |-> r, index |-> server'.active[r]] \in server'.pending
      BY <1>1, <2>2, <3>1, <3>2, <3>4 DEF PendingIsActive
    <3> QED BY <3>3, <3>4 DEF PendingIsActive
  <2> QED BY <1>2, <2>1, <2>3, <2>4 DEF ServerGathers, ServerFails, ServerReceives
<1>4. CASE ResourceRestarts
  BY <1>4 DEF ResourceRestarts, NoMemory, PendingIsActive
<1>5. CASE Client \/ CaptureCalls \/ Process \/ ClientRestarts \/ UNCHANGED tripVars
  BY <1>2, <1>5 DEF Client, CaptureCalls, Process, ClientRestarts, serverVars, tripVars
<1> QED BY <1>3, <1>4, <1>5 DEF TripNext

(* Nothing new is open, and what was open stays the last of its run.       *)
LEMMA OpenShrinks ==
  ASSUME BaseInv, BarrierInv, [TripNext]_tripVars, OpenTrips' \subseteq OpenTrips,
         UNCHANGED runner.trip,
         \A t \in OpenTrips' : t = runner.trip =>
           runner'.phase \in {"finalize", "abort", "idle"} /\ (runner'.phase = "finalize" => runner'.reply # "ok")
  PROVE  /\ OpenFits'
         /\ UNCHANGED written.manifest => ManifestFits'
<1>1. OpenFits'
  BY DEF BarrierInv, OpenFits
<1>2. ASSUME UNCHANGED written.manifest
      PROVE  ManifestFits'
  <2>1. ManifestFits /\ \A i \in DOMAIN written.manifest : written.manifest[i] \in Trips
    BY DEF BarrierInv, BaseInv, TripTypeOK, Files
  <2>2. \A i \in DOMAIN written.manifest : FinalizeAsked(written.manifest[i])'
    <3>1. ASSUME NEW t \in Trips, FinalizeAsked(t) PROVE FinalizeAsked(t)'
      BY <3>1, PassedStays DEF FinalizeAsked
    <3>2. ASSUME NEW i \in DOMAIN written.manifest PROVE FinalizeAsked(written.manifest[i])'
      <4>1. FinalizeAsked(written.manifest[i]) /\ written.manifest[i] \in Trips
        BY <2>1, <3>2 DEF ManifestFits
      <4>2. PICK t \in Trips : t = written.manifest[i]
        BY <4>1
      <4>3. FinalizeAsked(t)'
        BY <3>1, <4>1, <4>2
      <4> QED BY <1>2, <4>2, <4>3
    <3> QED BY <3>2
  <2> QED BY <1>2, <2>1, <2>2 DEF ManifestFits
<1> QED BY <1>1, <1>2

LEMMA ClientKeepsBarrier ==
  ASSUME BaseInv, BarrierInv, Client
  PROVE  OpenFits' /\ ManifestFits'
<1>1. [TripNext]_tripVars /\ TripTypeOK /\ RunnerFits /\ OpenFits /\ ManifestFits
  BY DEF TripNext, BaseInv, BarrierInv
<1>2. /\ UNCHANGED serverVars
      /\ Begins \/ Stays \/ Ends \/ Advances \/ Collects \/ GoesOn \/ \E kind \in Awaiting : Asks(kind)
  BY <1>1, ClientDoes
<1>3. UNCHANGED <<server, written>>
  BY <1>2 DEF serverVars
<1>4. runner.trip.run \in Nat /\ runner.trip.index \in Nat /\ OpenTrips \subseteq Trips
      /\ \A i \in DOMAIN written.manifest : written.manifest[i] \in Trips
  BY TripParts DEF BaseInv, TripTypeOK, RunnerStates, Memories, Files, OpenTrips
<1>5. ASSUME NEW t \in Trips, FinalizeAsked(t) PROVE FinalizeAsked(t)'
  BY <1>1, <1>5, PassedStays DEF FinalizeAsked
<1>6. \A i \in DOMAIN written.manifest : FinalizeAsked(written.manifest[i])'
  <2>1. ASSUME NEW i \in DOMAIN written.manifest PROVE FinalizeAsked(written.manifest[i])'
    <3>1. FinalizeAsked(written.manifest[i]) /\ written.manifest[i] \in Trips
      BY <1>1, <1>4, <2>1 DEF ManifestFits
    <3>2. PICK t \in Trips : t = written.manifest[i]
      BY <3>1
    <3> QED BY <1>3, <1>5, <3>1, <3>2
  <2> QED BY <2>1
<1>7. CASE Begins
  <2>1. OpenTrips' = OpenTrips
    BY <1>3, <1>7 DEF Begins, OpenTrips
  <2>2. ManifestFits'
    BY <1>1, <1>3, <1>6, <2>1 DEF ManifestFits
  <2>3. runner'.trip.run = runner.trip.run + 1
    BY <1>7 DEF Begins
  <2>4. \A t \in OpenTrips : t.run < runner'.trip.run
    <3>1. ASSUME NEW t \in OpenTrips PROVE t.run < runner'.trip.run
      <4>1. t.run \in Nat /\ t.run <= runner.trip.run
        BY <1>1, <1>4, TripParts DEF OpenFits
      <4> QED BY <1>4, <2>3, <4>1
    <3> QED BY <3>1
  <2> QED BY <1>1, <2>1, <2>2, <2>4 DEF OpenFits
<1>8. CASE Stays \/ Ends \/ GoesOn \/ (Collects /\ RunnerTo("idle")) \/ \E kind \in Awaiting \ {"finalize"} : Asks(kind)
  <2>1. OpenTrips' = OpenTrips /\ UNCHANGED runner.trip
    BY <1>3, <1>8 DEF Stays, Ends, GoesOn, Collects, Asks, RunnerTo, OpenTrips
  <2>2. ASSUME NEW t \in OpenTrips, t = runner.trip
        PROVE  runner'.phase \in {"finalize", "abort", "idle"} /\ (runner'.phase = "finalize" => runner'.reply # "ok")
    <3>1. ~(t.run < runner.trip.run)
      BY <1>4, <2>2
    <3>2. runner.phase \in {"finalize", "abort", "idle"} /\ (runner.phase = "finalize" => runner.reply # "ok")
      BY <1>1, <2>2, <3>1 DEF OpenFits
    <3> QED BY <1>8, <3>2 DEF Stays, Ends, GoesOn, Collects, Asks, RunnerTo, Awaiting
  <2> QED BY <1>1, <1>3, <2>1, <2>2, OpenShrinks
<1>9. CASE RunnerAdvances /\ runner.phase \in {"neutralize", "stop"} /\ UNCHANGED <<requests, telemetry>>
  <2>1. OpenTrips' = OpenTrips
    BY <1>3, <1>9 DEF OpenTrips
  <2>2. ManifestFits'
    BY <1>1, <1>3, <1>6, <2>1 DEF ManifestFits
  <2>3. \A t \in OpenTrips : t.run < runner.trip.run
    BY <1>1, <1>9 DEF OpenFits
  <2> QED BY <1>1, <1>9, <2>1, <2>2, <2>3 DEF OpenFits, RunnerAdvances
<1>10. CASE Asks("finalize")
  <2> DEFINE at == runner.trip
  <2>1. /\ OpenTrips' \subseteq OpenTrips \cup {at} /\ runner.phase = "record"
        /\ runner'.trip = at /\ runner'.phase = "finalize" /\ runner'.reply = "none"
    BY <1>3, <1>10 DEF Asks, RunnerTo, OpenTrips
  <2>2. \A t \in OpenTrips : t.run < at.run
    BY <1>1, <2>1 DEF OpenFits
  <2>3. \A t \in OpenTrips : t.run # at.run
    BY <1>4, <2>2, TripParts
  <2>4. OpenFits'
    BY <1>1, <2>1, <2>2, <2>3 DEF OpenFits
  <2>5. \A i \in DOMAIN written.manifest : written.manifest[i].run = at.run => written.manifest[i].index < at.index
    <3>1. ASSUME NEW i \in DOMAIN written.manifest, written.manifest[i].run = at.run PROVE written.manifest[i].index < at.index
      <4>1. Passed(written.manifest[i], BeforeFinalize)
        BY <1>1 DEF ManifestFits, FinalizeAsked
      <4> QED BY <1>4, <2>1, <3>1, <4>1 DEF Passed, BeforeFinalize
    <3> QED BY <3>1
  <2>6. ManifestFits'
    BY <1>1, <1>3, <1>6, <2>1, <2>5 DEF ManifestFits
  <2> QED BY <2>4, <2>6
<1> QED BY <1>2, <1>7, <1>8, <1>9, <1>10 DEF Advances, Collects

LEMMA ServerKeepsBarrier ==
  ASSUME BaseInv, BarrierInv, Server
  PROVE  OpenFits' /\ ManifestFits'
<1>1. [TripNext]_tripVars /\ TripTypeOK /\ OpenFits /\ ManifestFits /\ PendingIsActive
  BY DEF TripNext, BaseInv, BarrierInv
<1>2. server \in Memories /\ written \in Files /\ UNCHANGED <<runner.phase, runner.trip>>
  BY <1>1, ServerKeepsBase DEF TripTypeOK
<1>3. PICK t \in Trips : ServerWrites(t) \/ ServerGathers(t) \/ ServerFails(t) \/ ServerReceives(t)
  BY ServerDoes
<1>4. runner.trip.run \in Nat /\ runner.trip.index \in Nat /\ OpenTrips \subseteq Trips
  BY TripParts DEF BaseInv, TripTypeOK, RunnerStates, Memories, OpenTrips
<1>5. ASSUME NEW s \in OpenTrips, s = runner.trip
      PROVE  runner.phase \in {"finalize", "abort", "idle"} /\ (runner.phase = "finalize" => runner.reply # "ok")
  BY <1>1, <1>4, <1>5 DEF OpenFits
<1>6. CASE ServerWrites(t)
  <2>1. /\ server'.pending = server.pending \ {t} /\ server'.finalized = server.finalized \cup {t}
        /\ t \in server.pending /\ UNCHANGED telemetry
    BY <1>2, <1>6, RememberMakes DEF ServerWrites
  <2>2. OpenTrips' = OpenTrips \ {t} /\ t \in OpenTrips
    BY <1>1, <2>1 DEF OpenTrips, PendingIsActive
  <2>3. Answered("finalize", t)
    BY <1>1, <1>6, ReplyMakes DEF ServerWrites
  <2>4. ASSUME NEW s \in OpenTrips', s = runner.trip
        PROVE  runner'.phase \in {"finalize", "abort", "idle"} /\ (runner'.phase = "finalize" => runner'.reply # "ok")
    BY <1>2, <1>5, <2>2, <2>3, <2>4 DEF Answered
  <2>5. OpenFits'
    BY <1>1, <1>2, <2>2, <2>4, OpenShrinks
  <2> DEFINE file == written.manifest
             next == Append(file, t)
  <2>6. written'.manifest = next /\ file \in Seq(Trips)
    BY <1>2, <1>6, FilesMake DEF ServerWrites, Files
  <2>7. /\ Len(file) \in Nat /\ DOMAIN file = 1..Len(file) /\ DOMAIN next = 1..Len(file) + 1
        /\ next[Len(file) + 1] = t /\ \A i \in 1..Len(file) : next[i] = file[i] /\ file[i] \in Trips
    BY <2>6, Appended
  <2>8. ManifestFits <=> \A i \in DOMAIN file :
             /\ FinalizeAsked(file[i])
             /\ \A u \in OpenTrips : file[i].run = u.run => file[i].index < u.index
             /\ \A j \in DOMAIN file : i < j /\ file[i].run = file[j].run => file[i].index < file[j].index
    BY DEF ManifestFits
  <2> HIDE DEF next, file
  <2>9. Passed(t, BeforeFinalize)
    BY <1>1, <1>4, <2>2, <1>5 DEF OpenFits, Passed, BeforeFinalize, BeforeStart
  <2>10. \A i \in DOMAIN next : Passed(next[i], BeforeFinalize)
    BY <1>1, <2>7, <2>8, <2>9 DEF FinalizeAsked
  <2>11. ASSUME NEW i \in DOMAIN next
         PROVE  /\ \A u \in OpenTrips' : next[i].run = u.run => next[i].index < u.index
                /\ \A j \in DOMAIN next : i < j /\ next[i].run = next[j].run => next[i].index < next[j].index
    <3>1. ASSUME NEW u \in OpenTrips', next[i].run = u.run PROVE next[i].index < u.index
      BY <1>1, <2>2, <2>7, <2>8, <3>1 DEF OpenFits
    <3>2. ASSUME NEW j \in DOMAIN next, i < j, next[i].run = next[j].run PROVE next[i].index < next[j].index
      <4>1. i \in 1..Len(file)
        BY <2>7, <3>2
      <4>2. CASE j = Len(file) + 1
        BY <1>1, <2>2, <2>7, <2>8, <3>2, <4>1, <4>2
      <4>3. CASE j \in 1..Len(file)
        BY <1>1, <2>7, <2>8, <3>2, <4>1, <4>3
      <4> QED BY <2>7, <3>2, <4>2, <4>3
    <3> QED BY <3>1, <3>2
  <2>12. ManifestFits'
    BY <1>2, <2>6, <2>10, <2>11 DEF ManifestFits, FinalizeAsked, Passed
  <2> QED BY <2>5, <2>12
<1>7. CASE ServerGathers(t) \/ ServerFails(t) \/ ServerReceives(t)
  <2>1. OpenTrips' \subseteq OpenTrips
    BY <1>2, <1>7, GatherMakes DEF ServerGathers, ServerFails, ServerReceives, Receive, OpenTrips
  <2>2. UNCHANGED written.manifest
    BY <1>2, <1>7, FilesMake DEF ServerGathers, ServerFails, ServerReceives
  <2>3. runner'.reply = runner.reply \/ runner.phase = "stop" \/ runner'.reply = "error"
    BY <1>1, <1>7, ReplyMakes DEF ServerGathers, ServerFails, ServerReceives, Answered
  <2> QED BY <1>1, <1>2, <1>5, <2>1, <2>2, <2>3, OpenShrinks
<1> QED BY <1>3, <1>6, <1>7

LEMMA BarrierKept ==
  ASSUME BaseInv, BarrierInv, [TripNext]_tripVars
  PROVE  BarrierInv'
<1>1. PendingIsActive'
  BY PendingKept
<1>2. CASE Client
  BY <1>1, <1>2, ClientKeepsBarrier DEF BarrierInv
<1>3. CASE Server
  BY <1>1, <1>3, ServerKeepsBarrier DEF BarrierInv
<1>4. CASE ~Client /\ ~Server
  <2>1. /\ UNCHANGED runner.trip
        /\ runner'.phase \in {"finalize"} => UNCHANGED <<runner.phase, runner.reply>>
        /\ runner'.phase = runner.phase \/ runner'.phase = "idle"
    <3>1. CASE CaptureCalls
      BY <3>1, CallsLeaveAlone DEF Answered
    <3>2. CASE Process \/ UNCHANGED tripVars
      BY <3>2 DEF Process, tripVars, clientVars
    <3>3. CASE ClientRestarts \/ ResourceRestarts
      BY <3>3 DEF ClientRestarts, ResourceRestarts, Restart, AtRest
    <3> QED BY <1>4, <3>1, <3>2, <3>3 DEF TripNext
  <2>2. OpenTrips' \subseteq OpenTrips /\ UNCHANGED written
    <3>1. CASE CaptureCalls
      BY <3>1, CallsLeaveAlone DEF serverVars, OpenTrips
    <3>2. CASE Process \/ UNCHANGED tripVars
      BY <3>2 DEF Process, tripVars, eventVars, serverVars, OpenTrips
    <3>3. CASE ClientRestarts \/ ResourceRestarts
      BY <3>3 DEF ClientRestarts, ResourceRestarts, Restart, NoMemory, OpenTrips
    <3> QED BY <1>4, <3>1, <3>2, <3>3 DEF TripNext
  <2>3. ASSUME NEW t \in OpenTrips', t = runner.trip
        PROVE  runner'.phase \in {"finalize", "abort", "idle"} /\ (runner'.phase = "finalize" => runner'.reply # "ok")
    <3>1. runner.trip.run \in Nat
      BY DEF BaseInv, TripTypeOK, RunnerStates
    <3>2. runner.phase \in {"finalize", "abort", "idle"} /\ (runner.phase = "finalize" => runner.reply # "ok")
      BY <2>2, <2>3, <3>1 DEF BarrierInv, OpenFits
    <3> QED BY <2>1, <3>2
  <2> QED BY <1>1, <2>1, <2>2, <2>3, OpenShrinks DEF BarrierInv
<1> QED BY <1>2, <1>3, <1>4

(* No telemetry finds an earlier trip of its run still active, and the     *)
(* manifest has each run's attempts in order, however requests are delayed,*)
(* given up or lost in a restart.                                          *)
THEOREM BarrierIsHeld == TripSpec => []BarrierHolds
<1>1. BaseInv /\ BarrierInv => BarrierHolds
  <2> SUFFICES ASSUME BaseInv, BarrierInv PROVE BarrierHolds
    OBVIOUS
  <2>1. ASSUME NEW t \in telemetry \ server.finalized
        PROVE  MayGather(t)
    <3>1. t \in OpenTrips /\ t \in Trips
      BY <2>1 DEF OpenTrips, BaseInv, TripTypeOK
    <3>2. CASE server.active[t.run] # 0
      <4> DEFINE s == [run |-> t.run, index |-> server.active[t.run]]
      <4>1. s \in server.pending /\ s \notin server.finalized
        BY <3>1, <3>2, TripParts DEF BarrierInv, PendingIsActive
      <4>2. s = t
        BY <3>1, <4>1 DEF OpenTrips, BarrierInv, OpenFits
      <4> QED BY <4>2 DEF MayGather
    <3> QED BY <3>2 DEF MayGather
  <2> QED BY <2>1 DEF BarrierHolds, BarrierInv, ManifestFits
<1>2. BaseInv /\ BarrierInv /\ [TripNext]_tripVars => (BaseInv /\ BarrierInv)'
  BY BaseKept, BarrierKept
<1> QED BY <1>1, <1>2, BaseInit, BarrierInit, PTL DEF TripSpec
-----------------------------------------------------------------------------
(* What is written once.                                                   *)
LEMMA CountAppended ==
  ASSUME NEW file \in Seq(Trips), NEW t \in Trips, NEW s
  PROVE  /\ Count(s, file) \in Nat
         /\ Count(s, Append(file, t)) = IF s = t THEN Count(s, file) + 1 ELSE Count(s, file)
<1> DEFINE here == {i \in DOMAIN file : file[i] = s}
           next == {i \in DOMAIN Append(file, t) : Append(file, t)[i] = s}
<1>1. /\ Len(file) \in Nat /\ DOMAIN file = 1..Len(file) /\ DOMAIN Append(file, t) = 1..Len(file) + 1
      /\ Append(file, t)[Len(file) + 1] = t /\ \A i \in 1..Len(file) : Append(file, t)[i] = file[i]
  BY Appended
<1>2. Count(s, file) = Cardinality(here) /\ Count(s, Append(file, t)) = Cardinality(next)
  BY DEF Count
<1>3. IsFiniteSet(here) /\ Cardinality(here) \in Nat
  <2>1. IsFiniteSet(1..Len(file))
    BY <1>1, FS_Interval
  <2>2. here \in SUBSET (1..Len(file))
    BY <1>1
  <2> QED BY <2>1, <2>2, FS_Subset, FS_CardinalityType
<1>4. CASE s = t
  <2>1. next = here \cup {Len(file) + 1} /\ Len(file) + 1 \notin here
    BY <1>1, <1>4
  <2> HIDE DEF here, next
  <2>2. Cardinality(next) = Cardinality(here) + 1
    BY <1>3, <2>1, FS_AddElement
  <2> QED BY <1>2, <1>3, <1>4, <2>2
<1>5. CASE s # t
  <2>1. next = here
    BY <1>1, <1>5
  <2> QED BY <1>2, <1>3, <1>5, <2>1
<1> QED BY <1>4, <1>5

LEMMA CountEmpty == \A t : Count(t, <<>>) = 0
<1>1. \A t : {i \in DOMAIN <<>> : <<>>[i] = t} = {}
  OBVIOUS
<1> QED BY <1>1, FS_EmptySet DEF Count

(* The requests that are left when the first one was taken.                *)
LEMMA RequestsFollow ==
  ASSUME TripTypeOK, requests # <<>>, requests' = Tail(requests)
  PROVE  /\ 1 \in DOMAIN requests
         /\ \A i \in DOMAIN requests' : i \in Nat \ {0} /\ i + 1 \in DOMAIN requests /\ requests'[i] = requests[i + 1]
         /\ \A i \in DOMAIN requests : i = 1 \/ (i - 1 \in DOMAIN requests' /\ requests'[i - 1] = requests[i])
<1>1. requests \in Seq(Events)
  BY DEF TripTypeOK
<1>2. /\ Len(requests) \in Nat \ {0} /\ DOMAIN requests = 1..Len(requests) /\ DOMAIN requests' = 1..Len(requests) - 1
      /\ \A i \in 1..Len(requests) - 1 : requests'[i] = requests[i + 1]
  BY <1>1, Popped
<1> QED BY <1>2

(* The requests when one came.                                             *)
LEMMA RequestsGrow ==
  ASSUME TripTypeOK, NEW e \in Events, requests' = Append(requests, e)
  PROVE  /\ \A i \in DOMAIN requests' : (i \in DOMAIN requests /\ requests'[i] = requests[i])
                                      \/ (i = Len(requests) + 1 /\ requests'[i] = e)
         /\ \A i \in DOMAIN requests : i \in Nat /\ i < Len(requests) + 1 /\ i \in DOMAIN requests' /\ requests'[i] = requests[i]
         /\ Len(requests) + 1 \in DOMAIN requests' /\ requests'[Len(requests) + 1] = e
<1>1. requests \in Seq(Events)
  BY DEF TripTypeOK
<1>2. /\ Len(requests) \in Nat /\ DOMAIN requests = 1..Len(requests) /\ DOMAIN requests' = 1..Len(requests) + 1
      /\ requests'[Len(requests) + 1] = e /\ \A i \in 1..Len(requests) : requests'[i] = requests[i]
  BY <1>1, Appended
<1> QED BY <1>2

LEMMA WritingInit == TripInit => WritingInv
<1> SUFFICES ASSUME TripInit PROVE WritingInv
  OBVIOUS
<1>1. /\ server.finalizing = {} /\ server.finalized = {} /\ collected = {} /\ DOMAIN requests = {}
      /\ runner.phase = "idle" /\ written.rows = <<>> /\ written.manifest = <<>>
  BY DEF TripInit, NoMemory, AtRest
<1> QED BY <1>1, CountEmpty DEF WritingInv, FinalizeFits, WrittenFits, Unwritten

(* What was asked stays asked, and is written only by its own finalize.    *)
LEMMA AskedStays ==
  ASSUME BaseInv, [TripNext]_tripVars
  PROVE  \A t \in Trips : FinalizeAsked(t) => FinalizeAsked(t)'
<1>1. ASSUME NEW t \in Trips, FinalizeAsked(t) PROVE FinalizeAsked(t)'
  BY <1>1, PassedStays DEF FinalizeAsked
<1> QED BY <1>1

LEMMA FinalizeFollows ==
  ASSUME BaseInv, WritingInv, [TripNext]_tripVars,
         UNCHANGED requests \/ (requests # <<>> /\ requests' = Tail(requests)),
         \A i \in DOMAIN requests' : \A t \in Trips :
           requests'[i] = Event("finalize", t) => t \notin server'.finalizing /\ Unwritten(t)',
         \A t \in server'.finalizing : t \in Trips /\ FinalizeAsked(t) /\ Unwritten(t)',
         \A t \in Trips : FinalizeAsked(t) \/ Unwritten(t)'
  PROVE  FinalizeFits'
<1>1. TripTypeOK /\ FinalizeFits /\ TripTypeOK'
  BY BaseKept DEF BaseInv, WritingInv
<1>2. \A t \in Trips : FinalizeAsked(t) => FinalizeAsked(t)'
  BY AskedStays
<1>3. requests' \in Seq(Events) /\ requests \in Seq(Events)
  BY <1>1 DEF TripTypeOK
<1>4. ASSUME NEW i \in DOMAIN requests', NEW t, requests'[i].kind = "finalize", t = requests'[i].trip
      PROVE  /\ t \in Trips /\ FinalizeAsked(t)' /\ t \notin server'.finalizing /\ Unwritten(t)'
             /\ \A j \in DOMAIN requests' : requests'[j] = requests'[i] => i = j
  <2>1. requests'[i] \in Events
    BY <1>3
  <2>2. requests'[i] = Event("finalize", t) /\ t \in Trips
    BY <1>4, <2>1, EventParts
  <2>3. CASE UNCHANGED requests
    BY <1>1, <1>2, <1>4, <2>2, <2>3 DEF FinalizeFits
  <2>4. CASE requests # <<>> /\ requests' = Tail(requests)
    <3>1. /\ \A j \in DOMAIN requests' : j \in Nat \ {0} /\ j + 1 \in DOMAIN requests /\ requests'[j] = requests[j + 1]
      BY <1>1, <2>4, RequestsFollow
    <3>2. i + 1 \in DOMAIN requests /\ requests[i + 1].kind = "finalize" /\ requests[i + 1].trip = t
      BY <1>4, <3>1
    <3>3. FinalizeAsked(t) /\ \A j \in DOMAIN requests : requests[j] = requests[i + 1] => i + 1 = j
      BY <1>1, <3>2 DEF FinalizeFits
    <3> QED BY <1>2, <2>2, <3>1, <3>3
  <2> QED BY <2>3, <2>4
<1>5. \A t \in Trips : ~FinalizeAsked(t)' => Unwritten(t)'
  BY <1>2
<1> QED BY <1>2, <1>4, <1>5 DEF FinalizeFits

LEMMA ClientKeepsWriting ==
  ASSUME BaseInv, WritingInv, Client
  PROVE  WritingInv'
<1>1. [TripNext]_tripVars /\ TripTypeOK /\ RunnerFits /\ FinalizeFits /\ WrittenFits /\ TripTypeOK'
  BY BaseKept DEF TripNext, BaseInv, WritingInv
<1>2. /\ UNCHANGED serverVars
      /\ Begins \/ Stays \/ Ends \/ Advances \/ Collects \/ GoesOn \/ \E kind \in Awaiting : Asks(kind)
  BY <1>1, ClientDoes
<1>3. UNCHANGED <<server, written>>
  BY <1>2 DEF serverVars
<1>4. \A t : (Unwritten(t)' <=> Unwritten(t)) /\ (WrittenOnce(t)' <=> WrittenOnce(t))
  BY <1>3 DEF Unwritten, WrittenOnce
<1>5. \A t \in Trips : FinalizeAsked(t) => FinalizeAsked(t)'
  BY <1>1, AskedStays DEF BaseInv
<1>6. WrittenFits'
  <2>1. collected' = collected \/ (runner.phase = "stop" /\ collected' = collected \cup {runner.trip})
    BY <1>2 DEF Begins, Stays, Ends, Advances, Collects, GoesOn, Asks
  <2>2. \A t \in server.finalized \cup collected' : WrittenOnce(t)
    BY <1>1, <2>1 DEF WrittenFits
  <2>3. runner'.phase = "stop" \/ (runner'.phase = "finalize" /\ runner'.reply = "ok") =>
          runner'.trip \in server.finalized
    BY <1>1, <1>2 DEF WrittenFits, Begins, Stays, Ends, Advances, Collects, GoesOn, Asks, RunnerTo, RunnerAdvances, Awaiting
  <2> QED BY <1>3, <1>4, <2>2, <2>3 DEF WrittenFits
<1>7. server.finalizing \subseteq Trips
  BY <1>1 DEF TripTypeOK, Memories
<1>8. CASE UNCHANGED requests
  <2>1. ASSUME NEW i \in DOMAIN requests, NEW t, requests[i].kind = "finalize", t = requests[i].trip
        PROVE  /\ t \in Trips /\ FinalizeAsked(t)' /\ t \notin server.finalizing /\ Unwritten(t)
               /\ \A j \in DOMAIN requests : requests[j] = requests[i] => i = j
    BY <1>1, <1>5, <2>1 DEF FinalizeFits
  <2>2. FinalizeFits'
    BY <1>1, <1>3, <1>4, <1>5, <1>7, <1>8, <2>1 DEF FinalizeFits
  <2> QED BY <1>6, <2>2 DEF WritingInv
<1>9. ASSUME NEW kind \in Awaiting, Asks(kind)
      PROVE  FinalizeFits'
  <2> DEFINE at == runner.trip
             e  == Event(kind, at)
             n  == Len(requests) + 1
  <2>1. /\ at \in Trips /\ e \in Events /\ e.kind = kind /\ e.trip = at /\ requests' = Append(requests, e)
        /\ kind = "finalize" => runner.phase = "record" /\ runner'.phase = "finalize" /\ runner'.trip = at
    BY <1>1, <1>9, EventParts DEF Asks, RunnerFits, RunnerTo
  <2>2. runner.trip.run \in Nat /\ runner.trip.index \in Nat
    BY <2>1, TripParts
  <2>3. kind = "finalize" => ~FinalizeAsked(at) /\ FinalizeAsked(at)'
    BY <2>1, <2>2 DEF FinalizeAsked, Passed, BeforeFinalize, BeforeStart
  <2> HIDE DEF e
  <2>4. /\ \A i \in DOMAIN requests' : (i \in DOMAIN requests /\ requests'[i] = requests[i])
                                      \/ (i = n /\ requests'[i] = e)
        /\ \A i \in DOMAIN requests : i \in Nat /\ i < n /\ i \in DOMAIN requests' /\ requests'[i] = requests[i]
        /\ n \in DOMAIN requests' /\ requests'[n] = e
    BY <1>1, <2>1, RequestsGrow
  <2> HIDE DEF n, at
  <2>5. kind = "finalize" =>
          /\ at \notin server.finalizing /\ Unwritten(at)
          /\ \A i \in DOMAIN requests : requests[i] # e
    BY <1>1, <2>1, <2>3 DEF FinalizeFits
  <2>6. ASSUME NEW i \in DOMAIN requests', NEW t, requests'[i].kind = "finalize", t = requests'[i].trip
        PROVE  /\ t \in Trips /\ FinalizeAsked(t)' /\ t \notin server.finalizing /\ Unwritten(t)
               /\ \A j \in DOMAIN requests' : requests'[j] = requests'[i] => i = j
    <3>1. CASE i \in DOMAIN requests /\ requests'[i] = requests[i]
      <4>1. /\ t \in Trips /\ FinalizeAsked(t) /\ t \notin server.finalizing /\ Unwritten(t)
            /\ \A j \in DOMAIN requests : requests[j] = requests[i] => i = j
        BY <1>1, <2>6, <3>1 DEF FinalizeFits
      <4>2. requests[i] # e
        BY <2>1, <2>5, <2>6, <3>1
      <4> QED BY <1>5, <2>4, <3>1, <4>1, <4>2
    <3>2. CASE i = n /\ requests'[i] = e
      <4>1. kind = "finalize" /\ t = at
        BY <2>1, <2>6, <3>2
      <4> QED BY <2>1, <2>3, <2>4, <2>5, <3>2, <4>1 DEF at
    <3> QED BY <2>4, <3>1, <3>2
  <2>7. \A t \in server.finalizing : FinalizeAsked(t)' /\ Unwritten(t)
    BY <1>1, <1>5, <1>7 DEF FinalizeFits
  <2>8. \A t \in Trips : ~FinalizeAsked(t)' => Unwritten(t)
    BY <1>1, <1>5 DEF FinalizeFits
  <2> QED BY <1>3, <1>4, <2>6, <2>7, <2>8 DEF FinalizeFits
<1> QED BY <1>2, <1>6, <1>8, <1>9 DEF WritingInv, Begins, Stays, Ends, Advances, Collects, GoesOn

LEMMA WrittenStays ==
  ASSUME UNCHANGED <<written, server.finalized, collected>>, WrittenFits,
         UNCHANGED runner.trip,
         runner'.phase = "stop" => runner.phase = "stop",
         runner'.phase = "finalize" /\ runner'.reply = "ok" => runner.phase = "finalize" /\ runner.reply = "ok"
  PROVE  WrittenFits'
BY DEF WrittenFits, WrittenOnce

LEMMA ServerKeepsWriting ==
  ASSUME BaseInv, WritingInv, Server
  PROVE  WritingInv'
<1>1. [TripNext]_tripVars /\ TripTypeOK /\ FinalizeFits /\ WrittenFits /\ TripTypeOK'
  BY BaseKept DEF TripNext, BaseInv, WritingInv
<1>2. /\ server \in Memories /\ written \in Files /\ UNCHANGED <<runner.phase, runner.trip>>
      /\ requests \in Seq(Events) /\ server.finalizing \subseteq Trips
  BY <1>1, ServerKeepsBase DEF TripTypeOK, Memories
<1>3. PICK t \in Trips : ServerWrites(t) \/ ServerGathers(t) \/ ServerFails(t) \/ ServerReceives(t)
  BY ServerDoes
<1>4. UNCHANGED collected
  BY ServerDoes
<1>5. ASSUME NEW i \in DOMAIN requests, NEW s \in Trips, requests[i] = Event("finalize", s)
      PROVE  s \notin server.finalizing /\ Unwritten(s) /\ \A j \in DOMAIN requests : requests[j] = requests[i] => i = j
  <2>1. requests[i].kind = "finalize" /\ requests[i].trip = s
    BY <1>5, EventParts
  <2> QED BY <1>1, <2>1 DEF FinalizeFits
<1>6. \A s \in server.finalizing : s \in Trips /\ FinalizeAsked(s) /\ Unwritten(s)
  BY <1>1, <1>2 DEF FinalizeFits
<1>7. \A s \in Trips : FinalizeAsked(s) \/ Unwritten(s)
  BY <1>1 DEF FinalizeFits
<1>8. written.rows \in Seq(Trips) /\ written.manifest \in Seq(Trips)
  BY <1>2 DEF Files
<1>9. ASSUME NEW ok, Reply("finalize", t, ok)
      PROVE  Answered("finalize", t) /\ (runner.phase = "finalize" /\ runner.trip = t => runner'.reply = IF ok THEN "ok" ELSE "error")
  BY <1>1, <1>9, ReplyMakes
<1>10. CASE ServerWrites(t)
  <2>1. /\ server'.finalizing = server.finalizing \ {t} /\ server'.finalized = server.finalized \cup {t}
        /\ t \in server.finalizing /\ UNCHANGED requests
    BY <1>2, <1>10, RememberMakes DEF ServerWrites
  <2>2. /\ written'.rows = Append(written.rows, t) /\ written'.manifest = Append(written.manifest, t)
        /\ written'.metadata = written.metadata \cup {t}
    BY <1>2, <1>10, FilesMake DEF ServerWrites
  <2>3. Unwritten(t)
    BY <1>6, <2>1
  <2>4. \A s : s # t => (Unwritten(s)' <=> Unwritten(s)) /\ (WrittenOnce(s) => WrittenOnce(s)')
    BY <1>8, <2>2, CountAppended DEF Unwritten, WrittenOnce
  <2>5. WrittenOnce(t)'
    BY <1>8, <2>2, <2>3, CountAppended DEF Unwritten, WrittenOnce
  <2>6. FinalizeFits'
    BY <1>1, <1>5, <1>6, <1>7, <2>1, <2>4, FinalizeFollows
  <2>7. Answered("finalize", t)
    BY <1>9, <1>10 DEF ServerWrites
  <2>8. \A s \in server'.finalized \cup collected' : WrittenOnce(s)'
    BY <1>1, <1>4, <2>1, <2>4, <2>5 DEF WrittenFits
  <2>9. runner'.phase = "stop" \/ (runner'.phase = "finalize" /\ runner'.reply = "ok") =>
          runner'.trip \in server'.finalized
    BY <1>1, <1>2, <2>1, <2>7 DEF WrittenFits, Answered
  <2>10. WrittenFits'
    BY <2>8, <2>9 DEF WrittenFits
  <2> QED BY <2>6, <2>10 DEF WritingInv
<1>11. CASE ServerFails(t)
  <2>1. /\ server'.finalizing = server.finalizing \ {t} /\ UNCHANGED <<server.finalized, requests>>
        /\ t \in server.finalizing /\ Answered("finalize", t)
        /\ runner.phase = "finalize" /\ runner.trip = t => runner'.reply = "error"
    BY <1>9, <1>11 DEF ServerFails
  <2>2. /\ written'.rows = written.rows \/ written'.rows = Append(written.rows, t)
        /\ written'.manifest = written.manifest
        /\ written.metadata \subseteq written'.metadata
    BY <1>2, <1>11, FilesMake DEF ServerFails
  <2>3. Unwritten(t)
    BY <1>6, <2>1
  <2>4. \A s : s # t => (Unwritten(s)' <=> Unwritten(s)) /\ (WrittenOnce(s) => WrittenOnce(s)')
    <3>1. ASSUME NEW s, s # t
          PROVE  Count(s, written'.rows) = Count(s, written.rows) /\ Count(s, written'.manifest) = Count(s, written.manifest)
      <4>1. Count(s, Append(written.rows, t)) = Count(s, written.rows)
        BY <1>8, <3>1, CountAppended
      <4> QED BY <2>2, <4>1
    <3> QED BY <2>2, <3>1 DEF Unwritten, WrittenOnce
  <2>5. t \notin server.finalized \cup collected
    BY <1>1, <2>3 DEF WrittenFits, Unwritten, WrittenOnce
  <2>6. FinalizeFits'
    BY <1>1, <1>5, <1>6, <1>7, <2>1, <2>4, FinalizeFollows
  <2>7. \A s \in server'.finalized \cup collected' : WrittenOnce(s)'
    BY <1>1, <1>4, <2>1, <2>4, <2>5 DEF WrittenFits
  <2>8. runner'.phase = "stop" \/ (runner'.phase = "finalize" /\ runner'.reply = "ok") =>
          runner'.trip \in server'.finalized
    BY <1>1, <1>2, <2>1 DEF WrittenFits, Answered
  <2>9. WrittenFits'
    BY <2>7, <2>8 DEF WrittenFits
  <2> QED BY <2>6, <2>9 DEF WritingInv
<1>12. CASE ServerGathers(t) \/ ServerReceives(t)
  <2>1. UNCHANGED <<written, server.finalized>>
    BY <1>2, <1>12, GatherMakes DEF ServerGathers, ServerReceives
  <2>2. \A s : Unwritten(s)' <=> Unwritten(s)
    BY <2>1 DEF Unwritten
  <2>3. runner'.reply = runner.reply \/ runner.phase = "stop"
    BY <1>1, <1>12, ReplyMakes DEF ServerGathers, ServerReceives, Answered
  <2>4. WrittenFits'
    BY <1>1, <1>2, <1>4, <2>1, <2>3, WrittenStays
  <2>5. CASE UNCHANGED <<requests, server.finalizing>>
    BY <1>1, <1>5, <1>6, <1>7, <2>2, <2>4, <2>5, FinalizeFollows DEF WritingInv
  <2>6. CASE Receive(Event("stop", t)) /\ UNCHANGED server
    <3>1. requests # <<>> /\ requests' = Tail(requests)
      BY <1>1, <2>6, ReceiveMakes
    <3>2. \A i \in DOMAIN requests' : i + 1 \in DOMAIN requests /\ requests'[i] = requests[i + 1]
      BY <1>1, <3>1, RequestsFollow
    <3> QED BY <1>1, <1>5, <1>6, <1>7, <2>2, <2>4, <2>6, <3>1, <3>2, FinalizeFollows DEF WritingInv
  <2>7. CASE Receive(Event("finalize", t)) /\ server'.finalizing = server.finalizing \cup {t}
    <3>1. requests # <<>> /\ requests' = Tail(requests) /\ requests[1] = Event("finalize", t)
      BY <1>1, <2>7, ReceiveMakes
    <3>2. 1 \in DOMAIN requests /\ \A i \in DOMAIN requests' : i \in Nat \ {0} /\ i + 1 \in DOMAIN requests /\ requests'[i] = requests[i + 1]
      BY <1>1, <3>1, RequestsFollow
    <3>3. Unwritten(t) /\ \A j \in DOMAIN requests : requests[j] = Event("finalize", t) => j = 1
      BY <1>5, <3>1, <3>2
    <3>4. FinalizeAsked(t)
      <4>1. requests[1].kind = "finalize" /\ requests[1].trip = t
        BY <3>1, EventParts
      <4> QED BY <1>1, <3>2, <4>1 DEF FinalizeFits
    <3>5. \A i \in DOMAIN requests' : requests'[i] # Event("finalize", t)
      BY <3>2, <3>3
    <3> QED BY <1>1, <1>5, <1>6, <1>7, <2>2, <2>4, <2>7, <3>1, <3>2, <3>3, <3>4, <3>5, FinalizeFollows DEF WritingInv
  <2> QED BY <1>2, <1>12, <2>5, <2>6, <2>7, GatherMakes DEF ServerGathers, ServerReceives
<1> QED BY <1>3, <1>10, <1>11, <1>12

LEMMA OthersKeepWriting ==
  ASSUME BaseInv, WritingInv, [TripNext]_tripVars, ~Client, ~Server
  PROVE  WritingInv'
<1>1. TripTypeOK /\ FinalizeFits /\ WrittenFits
  BY DEF BaseInv, WritingInv
<1>2. UNCHANGED <<written, collected>>
  BY CallsLeaveAlone DEF TripNext, Process, ClientRestarts, ResourceRestarts, Restart, tripVars, clientVars, serverVars
<1>3. \A t : Unwritten(t)' <=> Unwritten(t)
  BY <1>2 DEF Unwritten
<1>4. \A t \in Trips : FinalizeAsked(t) => FinalizeAsked(t)'
  BY AskedStays
<1>5. server.finalizing \subseteq Trips /\ requests \in Seq(Events)
  BY <1>1 DEF TripTypeOK, Memories
<1>6. CASE CaptureCalls \/ Process \/ UNCHANGED tripVars
  <2>1. /\ UNCHANGED server
        /\ UNCHANGED requests \/ (requests # <<>> /\ requests' = Tail(requests))
        /\ UNCHANGED <<runner.phase, runner.trip>>
        /\ runner.phase = "finalize" => UNCHANGED runner
    BY <1>6, CallsLeaveAlone DEF Answered, serverVars, Process, tripVars, clientVars, eventVars
  <2>2. WrittenFits'
    BY <1>1, <1>2, <2>1, WrittenStays
  <2>3. ASSUME NEW i \in DOMAIN requests', NEW t \in Trips, requests'[i] = Event("finalize", t)
        PROVE  t \notin server.finalizing /\ Unwritten(t)
    <3>1. \E j \in DOMAIN requests : requests[j] = Event("finalize", t)
      BY <1>1, <2>1, <2>3, RequestsFollow
    <3>2. Event("finalize", t).kind = "finalize" /\ Event("finalize", t).trip = t
      BY EventParts
    <3> QED BY <1>1, <3>1, <3>2 DEF FinalizeFits
  <2>4. FinalizeFits'
    BY <1>1, <1>3, <1>5, <2>1, <2>3, FinalizeFollows DEF FinalizeFits
  <2> QED BY <2>2, <2>4 DEF WritingInv
<1>7. CASE ClientRestarts \/ ResourceRestarts
  <2>1. /\ runner'.phase = "idle" /\ server'.finalizing \subseteq server.finalizing
        /\ server'.finalized \subseteq server.finalized
    BY <1>7 DEF ClientRestarts, ResourceRestarts, Restart, AtRest, NoMemory
  <2>2. WrittenFits'
    BY <1>1, <1>2, <2>1 DEF WrittenFits, WrittenOnce
  <2> DEFINE e == Event("register", NoTrip)
  <2>3. e \in Events /\ e.kind = "register"
    BY EventParts
  <2>4. (requests' = Append(requests, e) /\ UNCHANGED server) \/ requests' = <<e>>
    BY <1>7 DEF ClientRestarts, ResourceRestarts
  <2> HIDE DEF e
  <2>5. ASSUME NEW i \in DOMAIN requests', requests'[i].kind = "finalize"
        PROVE  /\ UNCHANGED server /\ i \in DOMAIN requests /\ requests'[i] = requests[i]
               /\ \A j \in DOMAIN requests' : requests'[j] = requests'[i] => j \in DOMAIN requests /\ requests'[j] = requests[j]
    <3>1. CASE requests' = <<e>>
      BY <2>3, <2>5, <3>1
    <3>2. CASE requests' = Append(requests, e)
      <4>1. \A j \in DOMAIN requests' : (j \in DOMAIN requests /\ requests'[j] = requests[j]) \/ requests'[j] = e
        BY <1>1, <2>3, <3>2, RequestsGrow
      <4>2. CASE UNCHANGED server
        BY <2>3, <2>5, <4>1, <4>2
      <4> QED BY <2>4, <3>1, <4>2
    <3> QED BY <2>4, <3>1, <3>2
  <2>6. ASSUME NEW i \in DOMAIN requests', NEW t, requests'[i].kind = "finalize", t = requests'[i].trip
        PROVE  /\ t \in Trips /\ FinalizeAsked(t)' /\ t \notin server'.finalizing /\ Unwritten(t)
               /\ \A j \in DOMAIN requests' : requests'[j] = requests'[i] => i = j
    BY <1>1, <1>4, <2>1, <2>5, <2>6 DEF FinalizeFits
  <2>7. FinalizeFits'
    BY <1>1, <1>3, <1>4, <1>5, <2>1, <2>6 DEF FinalizeFits
  <2> QED BY <2>2, <2>7 DEF WritingInv
<1> QED BY <1>6, <1>7 DEF TripNext

LEMMA WritingKept == BaseInv /\ WritingInv /\ [TripNext]_tripVars => WritingInv'
BY ClientKeepsWriting, ServerKeepsWriting, OthersKeepWriting
-----------------------------------------------------------------------------
(* What becomes of requests, calls and sessions in a step.                 *)
StartReturned(c) ==
  /\ call[c] = "starting" /\ call' = [call EXCEPT ![c] = "idle"]
  /\ UNCHANGED <<requests, telemetry, serving, cancelled, queued, overtaken, target>>
  /\ StartIsRefused(c) \/ \E s \in Captures : Records(c, s)

StopArrived(c) ==
  /\ requests # <<>> /\ Stops(c, requests[1])
  /\ active = 0 => Reply(requests[1].kind, requests[1].trip, requests[1].kind = "abort")

StopContinues(c) ==
  /\ call[c] \in {"stopping", "killing"} /\ target[c] \in Captures
  /\ UNCHANGED <<active, target, requests, telemetry, serving, recorded, overtaken>>
  /\ Kills(c) \/ Settles(c)

LEMMA CallsDo ==
  ASSUME BaseInv, CaptureCalls
  PROVE  \/ \E c \in Starters : (\E t \in Trips : Starts(c, t)) \/ StartReturned(c)
         \/ \E c \in Stoppers : StopArrived(c) \/ StopContinues(c)
<1>1. TripTypeOK /\ requests \in Seq(Events)
  BY DEF BaseInv, TripTypeOK
<1>2. ASSUME NEW t \in Trips, StartArrives(t) PROVE \E c \in Starters : Starts(c, t)
  BY <1>2, StartArrivesDoes
<1>3. ASSUME NEW c \in Starters, StartReturns(c) PROVE StartReturned(c)
  BY <1>1, <1>3, StartReturnsDoes DEF StartReturned, eventVars
<1>4. ASSUME requests # <<>>, StopArrives(Head(requests)) PROVE \E c \in Stoppers : StopArrived(c)
  <2>1. Head(requests) = requests[1]
    BY <1>1, <1>4, Popped
  <2> QED BY <1>1, <1>4, <2>1, StopArrivesDoes DEF StopArrived
<1>5. ASSUME NEW c \in Stoppers, StopGoesOn(c) PROVE StopContinues(c)
  BY <1>5, StopGoesOnDoes DEF StopContinues, eventVars
<1> QED BY <1>2, <1>3, <1>4, <1>5 DEF CaptureCalls

(* d requests were taken from the first ones.                              *)
Taken(d) ==
  /\ Len(requests') = Len(requests) - d /\ Len(requests) \in Nat
  /\ DOMAIN requests' = 1..Len(requests') /\ DOMAIN requests = 1..Len(requests)
  /\ \A i \in DOMAIN requests' : i + d \in DOMAIN requests /\ requests'[i] = requests[i + d]
  /\ \A i \in DOMAIN requests : i > d => i - d \in DOMAIN requests' /\ requests'[i - d] = requests[i]

LEMMA NoneTaken ==
  ASSUME TripTypeOK, UNCHANGED requests
  PROVE  Taken(0)
<1>1. requests \in Seq(Events)
  BY DEF TripTypeOK
<1>2. Len(requests) \in Nat /\ DOMAIN requests = 1..Len(requests)
  BY <1>1, LenProperties
<1> QED BY <1>2 DEF Taken

LEMMA OneTaken ==
  ASSUME TripTypeOK, requests # <<>>, requests' = Tail(requests)
  PROVE  Taken(1) /\ 1 \in DOMAIN requests
<1>1. requests \in Seq(Events)
  BY DEF TripTypeOK
<1>2. /\ Len(requests) \in Nat \ {0} /\ DOMAIN requests = 1..Len(requests) /\ DOMAIN requests' = 1..Len(requests) - 1
      /\ Len(requests') = Len(requests) - 1
      /\ \A i \in 1..Len(requests) - 1 : requests'[i] = requests[i + 1]
  BY <1>1, Popped
<1> QED BY <1>2 DEF Taken

(* Sessions end and recordings stay what they are, in every step.          *)
LEMMA SessionsStay ==
  ASSUME BaseInv, [TripNext]_tripVars
  PROVE  /\ overtaken \subseteq overtaken' /\ queued \subseteq queued'
         /\ \A s \in Captures : /\ recorded[s] # NoTrip => recorded'[s] = recorded[s]
                                /\ process[s] = "exited" => process'[s] = "exited"
         /\ \A t \in Trips : RecordedWhole(t) => RecordedWhole(t)'
<1> DEFINE Stay == /\ overtaken \subseteq overtaken' /\ queued \subseteq queued'
                   /\ \A s \in Captures : /\ recorded[s] # NoTrip => recorded'[s] = recorded[s]
                                          /\ process[s] = "exited" => process'[s] = "exited"
<1>1. /\ process \in [Captures -> {"none", "running", "exited"}] /\ recorded \in [Captures -> Trips \cup {NoTrip}]
      /\ overtaken \subseteq Trips /\ SessionsFit
  BY DEF BaseInv, TripTypeOK, RecorderTypeOK
<1>2. ASSUME UNCHANGED <<overtaken, queued, recorded, process>> PROVE Stay
  BY <1>2
<1>3. ASSUME Client \/ Server \/ ClientRestarts \/ ResourceRestarts \/ UNCHANGED tripVars PROVE Stay
  BY <1>2, <1>3 DEF Client, Server, ClientRestarts, ResourceRestarts, Restart, tripVars, recorderVars, sessionState, backendVars
<1>4. ASSUME CaptureCalls PROVE Stay
  <2>1. ASSUME NEW c \in Starters, NEW t \in Trips, Starts(c, t) PROVE Stay
    BY <1>2, <2>1 DEF Starts, sessionState
  <2>2. ASSUME NEW c \in Starters, StartReturned(c) PROVE Stay
    <3>1. UNCHANGED <<overtaken, queued>> /\ (StartIsRefused(c) \/ \E s \in Captures : Records(c, s))
      BY <2>2 DEF StartReturned
    <3>2. CASE StartIsRefused(c)
      BY <1>2, <3>1, <3>2 DEF StartIsRefused, sessionState
    <3>3. ASSUME NEW s \in Captures, Records(c, s) PROVE Stay
      BY <1>1, <3>1, <3>3 DEF Records, SessionsFit
    <3> QED BY <3>1, <3>2, <3>3
  <2>3. ASSUME NEW c \in Stoppers, StopArrived(c) PROVE Stay
    BY <2>3 DEF StopArrived, Stops, sessionState
  <2>4. ASSUME NEW c \in Stoppers, StopContinues(c) PROVE Stay
    BY <1>1, <2>4 DEF StopContinues, Kills, Settles
  <2> QED BY <1>4, <2>1, <2>2, <2>3, <2>4, CallsDo
<1>5. ASSUME Process PROVE Stay
  <2>1. PICK s \in Captures : ProcessExits(s) \/ Waiter(s)
    BY <1>5 DEF Process
  <2>2. UNCHANGED <<overtaken, queued, recorded>>
    BY <1>5 DEF Process, backendVars
  <2> QED BY <1>1, <2>1, <2>2 DEF ProcessExits, Waiter, Reap, Clear, Deliver
<1>6. Stay
  BY <1>3, <1>4, <1>5 DEF TripNext
<1>7. ASSUME NEW t \in Trips, RecordedWhole(t) PROVE RecordedWhole(t)'
  <2>1. PICK s \in Captures : recorded[s] = t /\ process[s] = "exited"
    BY <1>7 DEF RecordedWhole, RecordingsOf
  <2>2. recorded'[s] = t /\ process'[s] = "exited"
    BY <1>6, <2>1, TripParts
  <2>3. Strays # {} => Strays' # {}
    BY <1>1, <1>6, TripParts DEF Strays
  <2> QED BY <1>6, <1>7, <2>2, <2>3 DEF RecordedWhole, RecordingsOf
<1> QED BY <1>6, <1>7
-----------------------------------------------------------------------------
(* Each part of RecordingInv, in the steps that are not the runner's.      *)
LEMMA RecordingInit == TripInit => RecordingInv
<1> SUFFICES ASSUME TripInit PROVE RecordingInv
  OBVIOUS
<1>1. /\ DOMAIN requests = {} /\ collected = {} /\ runner.phase = "idle"
      /\ \A c \in Starters \cup Stoppers : call[c] = "idle"
      /\ \A s \in Captures : recorded[s] = NoTrip /\ process[s] = "none"
  BY CaptureAssumption DEF TripInit, RecorderInit, AtRest
<1>2. BeingStarted = {}
  BY <1>1 DEF BeingStarted
<1> QED BY <1>1, <1>2 DEF RecordingInv, StartFits, StartsAreFollowed, RunningIsAttended, StartIsLast,
              RecordingFits, RecordingGoesOn, StopsAreAsked, StopFits

RunnerStands == UNCHANGED <<runner.phase, runner.trip>>

StartersRest == \A c \in Starters : call'[c] = call[c] /\ serving'[c] = serving[c]

LEMMA StartersLeave ==
  ASSUME StartersRest
  PROVE  BeingStarted' = BeingStarted
BY DEF StartersRest, BeingStarted

LEMMA StartAskedStays ==
  ASSUME BaseInv, [TripNext]_tripVars
  PROVE  \A t \in Trips : StartAsked(t) => StartAsked(t)'
<1>1. ASSUME NEW t \in Trips, StartAsked(t) PROVE StartAsked(t)'
  BY <1>1, PassedStays DEF StartAsked
<1> QED BY <1>1

(* No start is taken, made or answered.                                    *)
LEMMA StartFitsKept ==
  ASSUME BaseInv, StartFits, [TripNext]_tripVars, StartersRest, UNCHANGED recorded, NEW d \in Nat,
         \A i \in DOMAIN requests' : requests'[i].kind = "start" =>
           i \in Nat /\ i + d \in DOMAIN requests /\ requests'[i] = requests[i + d]
  PROVE  StartFits'
<1>1. \A t \in Trips : StartAsked(t) => StartAsked(t)'
  BY StartAskedStays
<1>2. BeingStarted' = BeingStarted /\ \A t : RecordingsOf(t)' = RecordingsOf(t)
  BY StartersLeave DEF RecordingsOf
<1>3. recorded \in [Captures -> Trips \cup {NoTrip}] /\ CallsFit
  BY DEF BaseInv, TripTypeOK
<1>4. ASSUME NEW i \in DOMAIN requests', NEW t, requests'[i].kind = "start", t = requests'[i].trip
      PROVE  /\ t \in Trips /\ StartAsked(t)' /\ t \notin BeingStarted' /\ RecordingsOf(t)' = {}
             /\ \A j \in DOMAIN requests' : requests'[j] = requests'[i] => i = j
  <2>1. i \in Nat /\ i + d \in DOMAIN requests /\ requests'[i] = requests[i + d]
    BY <1>4
  <2>2. /\ t \in Trips /\ StartAsked(t) /\ t \notin BeingStarted /\ RecordingsOf(t) = {}
        /\ \A j \in DOMAIN requests : requests[j] = requests[i + d] => i + d = j
    BY <1>4, <2>1 DEF StartFits
  <2>3. ASSUME NEW j \in DOMAIN requests', requests'[j] = requests'[i] PROVE i = j
    <3>1. j \in Nat /\ j + d \in DOMAIN requests /\ requests'[j] = requests[j + d]
      BY <1>4, <2>3
    <3>2. i + d = j + d
      BY <2>1, <2>2, <2>3, <3>1
    <3> QED BY <2>1, <3>1, <3>2
  <2> QED BY <1>1, <1>2, <2>2, <2>3
<1>5. ASSUME NEW c \in Starters, NEW t, call'[c] = "starting", t = serving'[c].trip
      PROVE  /\ t \in Trips /\ StartAsked(t)' /\ RecordingsOf(t)' = {}
             /\ \A e \in Starters : call'[e] = "starting" /\ serving'[e].trip = t => c = e
  <2>1. call[c] = "starting" /\ serving[c].trip = t
    BY <1>5 DEF StartersRest
  <2> QED BY <1>1, <1>2, <2>1 DEF StartFits, StartersRest
<1>6. ASSUME NEW s \in Captures, recorded[s] # NoTrip
      PROVE  \A t : t = recorded[s] => StartAsked(t)' /\ \A e \in Captures : recorded[e] = t => s = e
  BY <1>1, <1>3, <1>6 DEF StartFits
<1> QED BY <1>4, <1>5, <1>6, ZenonT(40) DEF StartFits

(* A start stays followed by what stops it.                                *)
LEMMA FollowedKept ==
  ASSUME StartsAreFollowed, NEW d \in {0, 1}, Taken(d), RunnerStands, overtaken \subseteq overtaken',
         \A t \in BeingStarted' : t \in BeingStarted \/ (d = 1 /\ requests[1].kind = "start" /\ requests[1].trip = t),
         d = 1 /\ requests[1].kind \in Stopping => BeingStarted \subseteq overtaken'
  PROVE  StartsAreFollowed'
<1>1. \A t : AwaitsStart(t) => AwaitsStart(t)'
  BY DEF AwaitsStart, RunnerStands
<1>2. /\ Len(requests) \in Nat /\ Len(requests') = Len(requests) - d
      /\ DOMAIN requests' = 1..Len(requests') /\ DOMAIN requests = 1..Len(requests)
      /\ \A i \in DOMAIN requests' : i + d \in DOMAIN requests /\ requests'[i] = requests[i + d]
      /\ \A i \in DOMAIN requests : i > d => i - d \in DOMAIN requests' /\ requests'[i - d] = requests[i]
  BY DEF Taken
<1>3. ASSUME NEW i \in DOMAIN requests', NEW t, requests'[i].kind = "start", t = requests'[i].trip, ~AwaitsStart(t)'
      PROVE  \E k \in DOMAIN requests' : i < k /\ requests'[k].kind \in Stopping
  <2>1. i + d \in DOMAIN requests /\ requests'[i] = requests[i + d] /\ i \in Nat \ {0}
    BY <1>2
  <2>2. ~AwaitsStart(t)
    BY <1>1, <1>3
  <2>3. PICK k \in DOMAIN requests : i + d < k /\ requests[k].kind \in Stopping
    BY <1>3, <2>1, <2>2 DEF StartsAreFollowed
  <2>4. k > d /\ i < k - d
    BY <1>2, <2>1, <2>3
  <2>5. k - d \in DOMAIN requests' /\ requests'[k - d] = requests[k]
    BY <1>2, <2>3, <2>4
  <2> QED BY <2>3, <2>4, <2>5
<1>4. ASSUME NEW t \in BeingStarted', ~AwaitsStart(t)', t \notin overtaken'
      PROVE  \E k \in DOMAIN requests' : requests'[k].kind \in Stopping
  <2>1. ~AwaitsStart(t) /\ t \notin overtaken
    BY <1>1, <1>4
  <2>2. PICK k \in DOMAIN requests : requests[k].kind \in Stopping /\ k > d
    <3>1. CASE d = 1 /\ requests[1].kind = "start" /\ requests[1].trip = t
      <4>1. CASE 1 \in DOMAIN requests
        BY <2>1, <3>1, <4>1 DEF StartsAreFollowed
      <4>2. CASE 1 \notin DOMAIN requests
        BY <1>2, <3>1, <4>2
      <4> QED BY <4>1, <4>2
    <3>2. CASE t \in BeingStarted
      <4>1. PICK k \in DOMAIN requests : requests[k].kind \in Stopping
        BY <2>1, <3>2 DEF StartsAreFollowed
      <4>2. k > d
        BY <1>2, <1>4, <3>2, <4>1
      <4> QED BY <4>1, <4>2
    <3> QED BY <1>4, <3>1, <3>2
  <2>3. k - d \in DOMAIN requests' /\ requests'[k - d] = requests[k]
    BY <1>2, <2>2
  <2> QED BY <2>2, <2>3
<1>5. \A i \in DOMAIN requests' : \A t : requests'[i].kind = "start" /\ t = requests'[i].trip =>
        AwaitsStart(t)' \/ \E k \in DOMAIN requests' : i < k /\ requests'[k].kind \in Stopping
  BY <1>3
<1> QED BY <1>4, <1>5 DEF StartsAreFollowed, AwaitsStart

(* What runs is still attended, and what begins is followed.               *)
LEMMA AttendedKept ==
  ASSUME RunningIsAttended, StartsAreFollowed, NEW d \in {0, 1}, Taken(d), RunnerStands, overtaken \subseteq overtaken',
         \A s \in Captures : process'[s] = "running" =>
           (process[s] = "running" /\ recorded'[s] = recorded[s]) \/ recorded'[s] \in BeingStarted,
         d = 1 /\ requests[1].kind \in Stopping => \A s \in Captures : process'[s] = "running" =>
           \E c \in Stoppers \ cancelled' : call'[c] # "idle" /\ target'[c] = s,
         \A c \in Stoppers \ cancelled : call[c] # "idle" /\ process'[target[c]] = "running" =>
           c \notin cancelled' /\ call'[c] # "idle" /\ target'[c] = target[c]
  PROVE  RunningIsAttended'
<1>1. /\ \A i \in DOMAIN requests : i > d => i - d \in DOMAIN requests' /\ requests'[i - d] = requests[i]
      /\ Len(requests) \in Nat /\ DOMAIN requests = 1..Len(requests)
  BY DEF Taken
<1>2. ASSUME NEW s \in Captures, process'[s] = "running", NEW k \in DOMAIN requests, requests[k].kind \in Stopping
      PROVE  \/ \E i \in DOMAIN requests' : requests'[i].kind \in Stopping
             \/ \E c \in Stoppers \ cancelled' : call'[c] # "idle" /\ target'[c] = s
  <2>1. CASE k > d
    BY <1>1, <1>2, <2>1
  <2>2. CASE k <= d
    <3>1. d = 1 /\ k = 1
      BY <1>1, <2>2
    <3> QED BY <1>2, <3>1
  <2> QED BY <1>1, <2>1, <2>2
<1>3. ASSUME NEW s \in Captures, process'[s] = "running"
      PROVE  \/ recorded'[s] \in overtaken'
             \/ runner'.trip = recorded'[s] /\ runner'.phase \in {"start", "flash", "record", "finalize", "stop"}
             \/ \E i \in DOMAIN requests' : requests'[i].kind \in Stopping
             \/ \E c \in Stoppers \ cancelled' : call'[c] # "idle" /\ target'[c] = s
  <2>1. CASE recorded'[s] \in BeingStarted
    BY <1>2, <1>3, <2>1 DEF StartsAreFollowed, AwaitsStart, RunnerStands
  <2>2. CASE process[s] = "running" /\ recorded'[s] = recorded[s]
    BY <1>2, <1>3, <2>2 DEF RunningIsAttended, RunnerStands
  <2> QED BY <1>3, <2>1, <2>2
<1> QED BY <1>3 DEF RunningIsAttended

LEMMA LastKept ==
  ASSUME StartIsLast, NEW d \in {0, 1}, Taken(d), RunnerStands
  PROVE  StartIsLast' /\ (NothingElseAsked => NothingElseAsked')
<1>1. /\ Len(requests) \in Nat /\ Len(requests') = Len(requests) - d
      /\ DOMAIN requests' = 1..Len(requests') /\ DOMAIN requests = 1..Len(requests)
      /\ \A i \in DOMAIN requests' : i + d \in DOMAIN requests /\ requests'[i] = requests[i + d]
      /\ \A i \in DOMAIN requests : i > d => i - d \in DOMAIN requests' /\ requests'[i - d] = requests[i]
  BY DEF Taken
<1>2. NothingElseAsked => NothingElseAsked'
  BY <1>1 DEF NothingElseAsked
<1>3. CASE DOMAIN requests' = {}
  BY <1>2, <1>3 DEF StartIsLast, NothingElseAsked
<1>4. CASE DOMAIN requests' # {}
  <2>1. Len(requests) \in DOMAIN requests /\ Len(requests) > d /\ Len(requests') = Len(requests) - d
    BY <1>1, <1>4
  <2>2. requests'[Len(requests')] = requests[Len(requests)]
    BY <1>1, <2>1
  <2>3. requests' # <<>>
    BY <1>4
  <2> QED BY <1>2, <2>2, <2>3 DEF StartIsLast, RunnerStands
<1> QED BY <1>2, <1>3, <1>4

(* The runner's recording goes on; what else is recorded was overtaken.    *)
LEMMA FitsKept ==
  ASSUME BaseInv, RecordingFits, StartIsLast, NEW d \in {0, 1}, Taken(d), RunnerStands,
         RecordingGoesOn' => RecordingGoesOn, overtaken \subseteq overtaken',
         \A t \in BeingStarted' : t \in BeingStarted \/ (d = 1 /\ 1 \in DOMAIN requests /\ requests[1].kind = "start"),
         \A s \in Captures : recorded[s] # NoTrip => recorded'[s] = recorded[s],
         active' = 0 \/ active' = active \/ recorded'[active'] \in BeingStarted
  PROVE  RecordingFits'
<1> SUFFICES ASSUME RecordingGoesOn'
             PROVE  /\ RecordingsOf(runner.trip)' # {} /\ NothingElseAsked'
                    /\ BeingStarted' \subseteq overtaken'
                    /\ active' = 0 \/ recorded'[active'] \in overtaken' \cup {runner.trip}
  BY DEF RecordingFits, RunnerStands, RecordingsOf
<1>1. RecordingsOf(runner.trip) # {} /\ NothingElseAsked /\ BeingStarted \subseteq overtaken
      /\ (active = 0 \/ recorded[active] \in overtaken \cup {runner.trip})
  BY DEF RecordingFits
<1>2. runner.trip \in Trips /\ runner.trip # NoTrip /\ UNCHANGED runner.trip /\ active \in {0} \cup Captures
      /\ overtaken \subseteq Trips
  <2>1. runner.phase \notin {"idle", "neutralize"}
    BY DEF RecordingGoesOn
  <2> QED BY <2>1, TripParts DEF BaseInv, RunnerFits, RunnerStands, TripTypeOK, RecorderTypeOK
<1>3. NothingElseAsked'
  BY <1>1, LastKept
<1>4. BeingStarted' \subseteq overtaken'
  BY <1>1 DEF NothingElseAsked
<1>5. RecordingsOf(runner.trip)' # {}
  BY <1>1, <1>2 DEF RecordingsOf
<1>6. active' = 0 \/ recorded'[active'] \in overtaken' \cup {runner.trip}
  <2>1. CASE active' = active /\ active # 0
    <3>1. recorded[active] # NoTrip
      BY <1>1, <1>2, <2>1, TripParts
    <3> QED BY <1>1, <1>2, <2>1, <3>1
  <2> QED BY <1>1, <2>1
<1> QED BY <1>3, <1>4, <1>5, <1>6

LEMMA StopAskedStays ==
  ASSUME BaseInv, [TripNext]_tripVars
  PROVE  \A t \in Trips : StopAsked(t) => StopAsked(t)'
<1>1. ASSUME NEW t \in Trips, StopAsked(t) PROVE StopAsked(t)'
  BY <1>1, PassedStays DEF StopAsked
<1> QED BY <1>1

LEMMA AskedKept ==
  ASSUME BaseInv, StopsAreAsked, [TripNext]_tripVars,
         \A i \in DOMAIN requests' : \A t \in Trips : requests'[i] = Event("stop", t) =>
           StopAsked(t)' \/ \E j \in DOMAIN requests : requests[j] = Event("stop", t),
         \A c \in Stoppers : call'[c] # "idle" =>
           (call[c] # "idle" /\ serving'[c] = serving[c]) \/ \E j \in DOMAIN requests : serving'[c] = requests[j]
  PROVE  StopsAreAsked'
<1>1. \A t \in Trips : StopAsked(t) => StopAsked(t)'
  BY StopAskedStays
<1>2. /\ requests' \in Seq(Events) /\ serving' \in [Callers -> Events]
      /\ \A i \in DOMAIN requests' : requests'[i] \in Events
      /\ \A c \in Stoppers : serving'[c] \in Events
  BY BaseKept, CaptureAssumption DEF BaseInv, TripTypeOK
<1>3. ASSUME NEW j \in DOMAIN requests, NEW t \in Trips, requests[j] = Event("stop", t) PROVE StopAsked(t)'
  <2>1. requests[j].kind = "stop" /\ requests[j].trip = t
    BY <1>3, EventParts
  <2> QED BY <1>1, <2>1 DEF StopsAreAsked
<1>4. ASSUME NEW i \in DOMAIN requests', NEW t, requests'[i].kind = "stop", t = requests'[i].trip PROVE StopAsked(t)'
  <2>1. t \in Trips /\ requests'[i] = Event("stop", t)
    BY <1>2, <1>4, EventParts
  <2> QED BY <1>3, <2>1
<1>5. ASSUME NEW c \in Stoppers, NEW t, call'[c] # "idle", serving'[c].kind = "stop", t = serving'[c].trip PROVE StopAsked(t)'
  <2>1. t \in Trips /\ serving'[c] = Event("stop", t)
    BY <1>2, <1>5, EventParts
  <2>2. CASE call[c] # "idle" /\ serving'[c] = serving[c]
    BY <1>1, <1>5, <2>1, <2>2 DEF StopsAreAsked
  <2>3. CASE \E j \in DOMAIN requests : serving'[c] = requests[j]
    BY <1>3, <2>1, <2>3
  <2> QED BY <1>5, <2>2, <2>3
<1> QED BY <1>4, <1>5 DEF StopsAreAsked, StopAsked, Passed

(* What a stop of the runner's trip has found it does not lose.            *)
StopFinds(c) ==
  /\ recorded[target[c]] \in overtaken \cup {runner.trip}
  /\ \A s \in RecordingsOf(runner.trip) : s = target[c] \/ process[s] # "running"

LEMMA StopFitsKept ==
  ASSUME BaseInv, StopFits, [TripNext]_tripVars, RunnerStands, UNCHANGED collected,
         \A s \in Captures : recorded'[s] # recorded[s] => recorded'[s] # runner.trip,
         \A s \in Captures : process'[s] = "running" => process[s] = "running" \/ recorded'[s] # runner.trip,
         runner.phase = "stop" => \A c \in Stoppers :
           call'[c] # "idle" /\ serving'[c] = Event("stop", runner.trip) =>
             StopFinds(c)' \/ (call[c] # "idle" /\ serving'[c] = serving[c] /\ target'[c] = target[c]),
         runner.phase = "stop" /\ runner'.reply = "ok" => runner.reply = "ok" \/ RecordedWhole(runner.trip)'
  PROVE  StopFits'
<1>1. /\ overtaken \subseteq overtaken'
      /\ \A s \in Captures : recorded[s] # NoTrip => recorded'[s] = recorded[s]
      /\ \A t \in Trips : RecordedWhole(t) => RecordedWhole(t)'
  BY SessionsStay
<1>2. UNCHANGED <<runner.phase, runner.trip>>
  BY DEF RunnerStands
<1>3. runner.phase = "stop" => runner.trip \in Trips
  BY DEF BaseInv, RunnerFits
<1>4. overtaken \subseteq Trips /\ collected \subseteq Trips /\ CallsFit /\ CallLife
  BY DEF BaseInv, TripTypeOK, RecorderInv
<1>5. runner.phase = "stop" => \A s \in RecordingsOf(runner.trip)' : s \in RecordingsOf(runner.trip) /\ s \in Captures
  BY <1>2 DEF RecordingsOf
<1>6. ASSUME NEW c \in Stoppers, runner.phase = "stop", call'[c] # "idle", serving'[c] = Event("stop", runner.trip)
      PROVE  StopFinds(c)'
  <2>1. CASE call[c] # "idle" /\ serving'[c] = serving[c] /\ target'[c] = target[c]
    <3>1. recorded[target[c]] \in overtaken \cup {runner.trip}
      BY <1>6, <2>1 DEF StopFits
    <3>2. \A s \in RecordingsOf(runner.trip) : s = target[c] \/ process[s] # "running"
      BY <1>6, <2>1 DEF StopFits
    <3>3. target[c] \in Captures
      BY <1>4, <2>1, CaptureAssumption DEF CallsFit, CallLife
    <3>4. recorded[target[c]] # NoTrip
      BY <1>3, <1>4, <1>6, <3>1, TripParts
    <3>5. recorded'[target'[c]] \in overtaken' \cup {runner'.trip}
      BY <1>1, <1>2, <2>1, <3>1, <3>3, <3>4
    <3>6. \A s \in RecordingsOf(runner.trip)' : s = target'[c] \/ process'[s] # "running"
      BY <1>2, <1>5, <1>6, <2>1, <3>2 DEF RecordingsOf
    <3> QED BY <3>5, <3>6 DEF StopFinds
  <2> QED BY <1>6, <2>1
<1>7. runner.phase = "stop" /\ runner'.reply = "ok" => RecordedWhole(runner.trip)'
  <2>1. ASSUME runner.phase = "stop", runner'.reply = "ok", RecordedWhole(runner.trip)
        PROVE  RecordedWhole(runner.trip)'
    <3>1. PICK t \in Trips : t = runner.trip
      BY <1>3, <2>1
    <3>2. RecordedWhole(t)'
      BY <1>1, <2>1, <3>1
    <3> QED BY <1>2, <3>1, <3>2
  <2> QED BY <2>1 DEF StopFits
<1>8. \A t \in collected' : RecordedWhole(t)'
  BY <1>1, <1>4 DEF StopFits
<1> QED BY <1>2, <1>6, <1>7, <1>8 DEF StopFits, StopFinds

(* Neither a start nor what stops is taken, and no session begins.         *)
LEMMA QuietKeeps ==
  ASSUME BaseInv, RecordingInv, [TripNext]_tripVars, NEW d \in {0, 1}, Taken(d), RunnerStands,
         d = 1 => 1 \in DOMAIN requests /\ requests[1].kind \notin Stopping \cup {"start"},
         UNCHANGED <<call, target, serving, cancelled, recorded, overtaken, collected>>,
         active' \in {0, active}, \A s \in Captures : process'[s] = "running" => process[s] = "running",
         RecordingGoesOn' => RecordingGoesOn,
         runner.phase = "stop" /\ runner'.reply = "ok" => runner.reply = "ok"
  PROVE  RecordingInv'
<1> USE DEF RecordingInv
<1>1. /\ DOMAIN requests' = 1..Len(requests') /\ Len(requests') \in Int
      /\ \A i \in DOMAIN requests' : i + d \in DOMAIN requests /\ requests'[i] = requests[i + d]
  BY DEF Taken
<1>2. StartersRest /\ BeingStarted' = BeingStarted
  BY StartersLeave DEF StartersRest
<1>3. StartFits'
  BY <1>1, <1>2, StartFitsKept, SMTT(30)
<1>4. StartsAreFollowed'
  BY <1>2, FollowedKept
<1>5. RunningIsAttended'
  BY AttendedKept
<1>6. StartIsLast'
  BY LastKept
<1>7. RecordingFits'
  BY <1>2, FitsKept
<1>8. StopsAreAsked'
  BY <1>1, AskedKept
<1>9. StopFits'
  BY StopFitsKept
<1> QED BY <1>3, <1>4, <1>5, <1>6, <1>7, <1>8, <1>9

LEMMA ServerKeepsRecording ==
  ASSUME BaseInv, RecordingInv, Server
  PROVE  RecordingInv'
<1>1. [TripNext]_tripVars /\ TripTypeOK
  BY DEF TripNext, BaseInv
<1>2. RunnerStands
  BY ServerKeepsBase DEF RunnerStands
<1>3. UNCHANGED <<call, target, serving, cancelled, recorded, overtaken, collected, active, process>>
  BY ServerDoes DEF recorderVars, sessionState, callState, backendVars
<1>4. PICK t \in Trips : ServerWrites(t) \/ ServerGathers(t) \/ ServerFails(t) \/ ServerReceives(t)
  BY ServerDoes
<1>5. \/ UNCHANGED runner
      \/ \E ok : Reply("finalize", t, ok)
      \/ Reply("stop", t, FALSE)
  BY <1>4 DEF ServerWrites, ServerGathers, ServerFails, ServerReceives
<1>6. runner'.reply = runner.reply \/ runner.phase = "finalize" \/ (runner.phase = "stop" /\ runner'.reply = "error")
  BY <1>1, <1>5, ReplyMakes DEF Answered
<1>7. RecordingGoesOn' => RecordingGoesOn
  BY <1>2, <1>6 DEF RecordingGoesOn, RunnerStands
<1>8. CASE UNCHANGED requests
  BY <1>1, <1>2, <1>3, <1>6, <1>7, <1>8, NoneTaken, QuietKeeps
<1>9. CASE Receive(Event("finalize", t)) \/ Receive(Event("stop", t))
  <2>1. requests # <<>> /\ requests' = Tail(requests) /\ requests[1] \in {Event("finalize", t), Event("stop", t)}
    BY <1>1, <1>9, ReceiveMakes
  <2>2. requests[1].kind \notin Stopping \cup {"start"}
    BY <2>1, EventParts DEF Stopping
  <2> QED BY <1>1, <1>2, <1>3, <1>6, <1>7, <2>1, <2>2, OneTaken, QuietKeeps
<1> QED BY <1>4, <1>8, <1>9 DEF ServerWrites, ServerGathers, ServerFails, ServerReceives

LEMMA ProcessKeepsRecording ==
  ASSUME BaseInv, RecordingInv, Process \/ UNCHANGED tripVars
  PROVE  RecordingInv'
<1>1. [TripNext]_tripVars /\ TripTypeOK
  BY DEF TripNext, BaseInv
<1>2. UNCHANGED <<runner, requests, call, target, serving, cancelled, recorded, overtaken, collected>>
  BY DEF Process, ProcessExits, Waiter, Reap, Clear, Deliver, clientVars, eventVars, backendVars, callState, recorderVars, tripVars
<1>3. process \in [Captures -> {"none", "running", "exited"}]
  BY <1>1 DEF TripTypeOK, RecorderTypeOK
<1>4. active' \in {0, active} /\ \A s \in Captures : process'[s] = "running" => process[s] = "running"
  BY <1>3 DEF Process, ProcessExits, Waiter, Reap, Clear, Deliver, sessionState, recorderVars, tripVars
<1>5. RunnerStands /\ (RecordingGoesOn' => RecordingGoesOn) /\ (runner'.reply = "ok" => runner.reply = "ok")
  BY <1>2 DEF RunnerStands, RecordingGoesOn
<1>6. Taken(0)
  BY <1>1, <1>2, NoneTaken
<1> QED BY <1>1, <1>2, <1>4, <1>5, <1>6, QuietKeeps

(* A start is taken.                                                       *)
LEMMA StartsKeep ==
  ASSUME BaseInv, RecordingInv, CaptureCalls, NEW c \in Starters, NEW t \in Trips, Starts(c, t)
  PROVE  RecordingInv'
<1> USE DEF RecordingInv
<1>1. [TripNext]_tripVars /\ TripTypeOK /\ c \notin Stoppers
  BY CaptureAssumption DEF TripNext, BaseInv
<1> DEFINE e == Event("start", t)
<1>2. /\ call[c] = "idle" /\ call' = [call EXCEPT ![c] = "starting"]
      /\ serving' = [serving EXCEPT ![c] = e]
      /\ UNCHANGED <<active, process, target, runner, cancelled, recorded, queued, overtaken>>
  BY DEF Starts, sessionState
<1>3. requests # <<>> /\ requests' = Tail(requests) /\ requests[1] = e
  BY <1>1, ReceiveMakes DEF Starts
<1>4. e.kind = "start" /\ e.trip = t
  BY EventParts
<1>5. Taken(1) /\ 1 \in DOMAIN requests /\ RunnerStands
  BY <1>1, <1>2, <1>3, OneTaken DEF RunnerStands
<1>6. /\ call \in [Callers -> {"idle", "starting", "stopping", "killing"}] /\ serving \in [Callers -> Events]
      /\ Starters \subseteq Callers /\ Stoppers \subseteq Callers /\ Starters \cap Stoppers = {}
  BY <1>1, CaptureAssumption DEF TripTypeOK, RecorderTypeOK
<1> HIDE DEF e
<1>7. /\ \A b \in Starters : b # c => call'[b] = call[b] /\ serving'[b] = serving[b]
      /\ call'[c] = "starting" /\ serving'[c].trip = t
      /\ \A b \in Stoppers : call'[b] = call[b] /\ serving'[b] = serving[b]
  BY <1>2, <1>4, <1>6
<1>8. BeingStarted' = BeingStarted \cup {t}
  BY <1>2, <1>7 DEF BeingStarted
<1>9. /\ StartAsked(t) /\ t \notin BeingStarted /\ RecordingsOf(t) = {}
      /\ \A j \in DOMAIN requests : requests[j] = e => j = 1
  BY <1>3, <1>4, <1>5 DEF StartFits
<1>10. \A i \in DOMAIN requests' : i \in Nat \ {0} /\ i + 1 \in DOMAIN requests /\ requests'[i] = requests[i + 1]
  BY <1>5 DEF Taken
<1>11. \A u \in Trips : StartAsked(u) => StartAsked(u)'
  BY <1>1, StartAskedStays
<1>12. \A u : RecordingsOf(u)' = RecordingsOf(u)
  BY <1>2 DEF RecordingsOf
<1>13. StartFits'
  <2>1. ASSUME NEW i \in DOMAIN requests', NEW u, requests'[i].kind = "start", u = requests'[i].trip
        PROVE  /\ u \in Trips /\ StartAsked(u)' /\ u \notin BeingStarted' /\ RecordingsOf(u)' = {}
               /\ \A j \in DOMAIN requests' : requests'[j] = requests'[i] => i = j
    <3>1. i + 1 \in DOMAIN requests /\ requests'[i] = requests[i + 1] /\ i \in Nat \ {0}
      BY <1>10
    <3>2. /\ u \in Trips /\ StartAsked(u) /\ u \notin BeingStarted /\ RecordingsOf(u) = {}
          /\ \A j \in DOMAIN requests : requests[j] = requests[i + 1] => i + 1 = j
      BY <2>1, <3>1 DEF StartFits
    <3>3. u # t
      <4>1. requests[i + 1] \in Events
        BY <1>1, <3>1 DEF TripTypeOK
      <4>2. requests[i + 1] = Event("start", u)
        BY <2>1, <3>1, <4>1, EventParts
      <4> QED BY <1>9, <3>1, <4>2 DEF e
    <3>4. \A j \in DOMAIN requests' : requests'[j] = requests'[i] => i = j
      <4>1. ASSUME NEW j \in DOMAIN requests', requests'[j] = requests'[i] PROVE i = j
        <5>1. j \in Nat /\ j + 1 \in DOMAIN requests /\ requests'[j] = requests[j + 1]
          BY <1>10
        <5>2. i + 1 = j + 1
          BY <3>1, <3>2, <4>1, <5>1
        <5> QED BY <3>1, <5>1, <5>2
      <4> QED BY <4>1
    <3> QED BY <1>8, <1>11, <1>12, <3>2, <3>3, <3>4
  <2>2. ASSUME NEW b \in Starters, NEW u, call'[b] = "starting", u = serving'[b].trip
        PROVE  /\ u \in Trips /\ StartAsked(u)' /\ RecordingsOf(u)' = {}
               /\ \A a \in Starters : call'[a] = "starting" /\ serving'[a].trip = u => b = a
    <3>1. \A a \in Starters : a # c /\ call'[a] = "starting" => serving'[a].trip # t
      BY <1>7, <1>9 DEF BeingStarted
    <3>2. CASE b = c
      BY <1>7, <1>9, <1>11, <1>12, <2>2, <3>1, <3>2
    <3>3. CASE b # c
      <4>1. call[b] = "starting" /\ u = serving[b].trip /\ u # t
        BY <1>7, <2>2, <3>1, <3>3
      <4>2. /\ u \in Trips /\ StartAsked(u) /\ RecordingsOf(u) = {}
            /\ \A a \in Starters : call[a] = "starting" /\ serving[a].trip = u => b = a
        BY <4>1 DEF StartFits
      <4> QED BY <1>7, <1>11, <1>12, <4>1, <4>2
    <3> QED BY <3>2, <3>3
  <2>3. ASSUME NEW s \in Captures, NEW u, u = recorded'[s], u # NoTrip
        PROVE  StartAsked(u)' /\ \A a \in Captures : recorded'[a] = u => s = a
    BY <1>1, <1>2, <1>11, <2>3 DEF StartFits, TripTypeOK
  <2> QED BY <2>1, <2>2, <2>3 DEF StartFits
<1>14. StartsAreFollowed'
  BY <1>2, <1>3, <1>4, <1>5, <1>8, FollowedKept DEF Stopping
<1>15. RunningIsAttended'
  BY <1>2, <1>3, <1>4, <1>5, <1>7, AttendedKept DEF Stopping
<1>16. StartIsLast'
  BY <1>5, LastKept
<1>17. RecordingFits'
  <2>1. RecordingGoesOn' => RecordingGoesOn
    BY <1>2 DEF RecordingGoesOn
  <2> QED BY <1>2, <1>3, <1>4, <1>5, <1>8, <2>1, FitsKept
<1>18. StopsAreAsked'
  BY <1>1, <1>7, <1>10, AskedKept
<1>19. StopFits'
  <2>1. UNCHANGED collected
    BY DEF CaptureCalls
  <2> QED BY <1>1, <1>2, <1>5, <1>7, <2>1, StopFitsKept
<1> QED BY <1>13, <1>14, <1>15, <1>16, <1>17, <1>18, <1>19

(* A start returns.                                                        *)
LEMMA StartLeaves ==
  ASSUME TripTypeOK, StartFits, NEW c \in Starters, StartReturned(c)
  PROVE  /\ serving[c].trip \in BeingStarted /\ BeingStarted' = BeingStarted \ {serving[c].trip}
         /\ call'[c] = "idle" /\ \A b \in Callers : b # c => call'[b] = call[b]
         /\ \A b \in Stoppers : b # c
<1>1. call \in [Callers -> {"idle", "starting", "stopping", "killing"}] /\ Starters \subseteq Callers
      /\ \A b \in Stoppers : b # c
  BY CaptureAssumption DEF TripTypeOK, RecorderTypeOK
<1>2. call[c] = "starting" /\ call' = [call EXCEPT ![c] = "idle"] /\ UNCHANGED serving
  BY DEF StartReturned
<1>3. \A b \in Starters : call[b] = "starting" /\ serving[b].trip = serving[c].trip => c = b
  BY <1>2 DEF StartFits
<1> QED BY <1>1, <1>2, <1>3 DEF BeingStarted

LEMMA RefusedKeeps ==
  ASSUME BaseInv, RecordingInv, CaptureCalls, NEW c \in Starters, StartReturned(c), StartIsRefused(c)
  PROVE  RecordingInv'
<1> USE DEF RecordingInv
<1>1. [TripNext]_tripVars /\ TripTypeOK /\ UNCHANGED collected
  BY DEF TripNext, BaseInv, CaptureCalls
<1>2. UNCHANGED <<requests, serving, cancelled, overtaken, target, active, process, recorded>>
  BY DEF StartReturned, StartIsRefused, sessionState
<1>3. /\ RunnerStands
      /\ runner.phase = "stop" => UNCHANGED runner
      /\ runner'.reply = "ok" => runner.reply = "ok"
  <2>1. Reply("start", serving[c].trip, FALSE)
    BY DEF StartIsRefused
  <2>2. /\ Answered("start", serving[c].trip)
        /\ runner.phase = "start" /\ runner.trip = serving[c].trip => runner'.reply = "error"
    BY <1>1, <2>1, ReplyMakes
  <2> QED BY <2>2 DEF Answered, RunnerStands
<1>4. RecordingGoesOn' => RecordingGoesOn
  BY <1>3 DEF RecordingGoesOn, RunnerStands
<1>5. Taken(0)
  BY <1>1, <1>2, NoneTaken
<1>6. /\ BeingStarted' = BeingStarted \ {serving[c].trip} /\ Stoppers \subseteq Callers
      /\ call'[c] = "idle" /\ \A b \in Callers : b # c => call'[b] = call[b]
      /\ \A b \in Stoppers : b # c
  BY <1>1, StartLeaves, CaptureAssumption
<1>7. \A b \in Starters : b \in Callers /\ (call'[b] = "starting" => call[b] = "starting")
  BY <1>6, CaptureAssumption
<1>8. \A u \in Trips : StartAsked(u) => StartAsked(u)'
  BY <1>1, StartAskedStays
<1>9. \A u : RecordingsOf(u)' = RecordingsOf(u)
  BY <1>2 DEF RecordingsOf
<1>10. StartFits'
  <2>1. ASSUME NEW i \in DOMAIN requests, NEW u, requests[i].kind = "start", u = requests[i].trip
        PROVE  /\ u \in Trips /\ StartAsked(u)' /\ u \notin BeingStarted' /\ RecordingsOf(u)' = {}
               /\ \A j \in DOMAIN requests : requests[j] = requests[i] => i = j
    BY <1>6, <1>8, <1>9, <2>1 DEF StartFits
  <2>2. ASSUME NEW b \in Starters, NEW u, call'[b] = "starting", u = serving[b].trip
        PROVE  /\ u \in Trips /\ StartAsked(u)' /\ RecordingsOf(u)' = {}
               /\ \A a \in Starters : call'[a] = "starting" /\ serving[a].trip = u => b = a
    BY <1>7, <1>8, <1>9, <2>2 DEF StartFits
  <2>3. ASSUME NEW s \in Captures, NEW u, u = recorded[s], u # NoTrip
        PROVE  StartAsked(u)' /\ \A a \in Captures : recorded[a] = u => s = a
    BY <1>1, <1>8, <2>3 DEF StartFits, TripTypeOK
  <2> QED BY <1>2, <2>1, <2>2, <2>3 DEF StartFits
<1>11. StartsAreFollowed'
  BY <1>2, <1>3, <1>5, <1>6, FollowedKept
<1>12. RunningIsAttended'
  BY <1>2, <1>3, <1>5, <1>6, AttendedKept
<1>13. StartIsLast'
  BY <1>3, <1>5, LastKept
<1>14. RecordingFits'
  BY <1>2, <1>3, <1>4, <1>5, <1>6, FitsKept
<1>15. StopsAreAsked'
  BY <1>1, <1>2, <1>6, AskedKept
<1>16. StopFits'
  BY <1>1, <1>2, <1>3, <1>6, StopFitsKept
<1> QED BY <1>10, <1>11, <1>12, <1>13, <1>14, <1>15, <1>16

LEMMA RecordsKeep ==
  ASSUME BaseInv, RecordingInv, CaptureCalls, NEW c \in Starters, StartReturned(c), NEW s \in Captures, Records(c, s)
  PROVE  RecordingInv'
<1> USE DEF RecordingInv
<1> DEFINE t == serving[c].trip
<1>1. [TripNext]_tripVars /\ TripTypeOK /\ UNCHANGED collected
  BY DEF TripNext, BaseInv, CaptureCalls
<1>2. UNCHANGED <<requests, serving, cancelled, overtaken, target>>
  BY DEF StartReturned
<1>3. /\ active = 0 /\ active' = s /\ process[s] = "none"
      /\ process' = [process EXCEPT ![s] = "running"] /\ recorded' = [recorded EXCEPT ![s] = t]
      /\ Reply("start", t, TRUE)
  BY DEF Records
<1>4. /\ t \in BeingStarted /\ BeingStarted' = BeingStarted \ {t}
      /\ call'[c] = "idle" /\ \A b \in Callers : b # c => call'[b] = call[b]
      /\ \A b \in Stoppers : b # c
  BY <1>1, StartLeaves
<1>5. /\ RunnerStands
      /\ (runner.phase = "start" /\ runner.trip = t) \/ UNCHANGED runner
  BY <1>1, <1>3, ReplyMakes DEF Answered, RunnerStands
<1>6. /\ process \in [Captures -> {"none", "running", "exited"}] /\ recorded \in [Captures -> Trips \cup {NoTrip}]
      /\ overtaken \subseteq Trips /\ Starters \subseteq Callers /\ Stoppers \subseteq Callers
  BY <1>1, CaptureAssumption DEF TripTypeOK, RecorderTypeOK
<1>7. call[c] = "starting"
  BY DEF StartReturned
<1>8. t \in Trips /\ t # NoTrip /\ StartAsked(t) /\ RecordingsOf(t) = {}
  BY <1>7, TripParts DEF StartFits
<1>9. recorded[s] = NoTrip
  BY <1>3 DEF BaseInv, SessionsFit
<1>10. Taken(0)
  BY <1>1, <1>2, NoneTaken
<1> HIDE DEF t
<1>11. /\ recorded'[s] = t /\ \A a \in Captures : a # s => recorded'[a] = recorded[a]
       /\ process'[s] = "running" /\ \A a \in Captures : a # s => process'[a] = process[a]
  BY <1>3, <1>6
<1>12. \A u : u # t /\ u # NoTrip => RecordingsOf(u)' = RecordingsOf(u)
  BY <1>9, <1>11 DEF RecordingsOf
<1>13. \A u \in Trips : StartAsked(u) => StartAsked(u)'
  BY <1>1, StartAskedStays
<1>14. StartFits'
  <2>1. ASSUME NEW i \in DOMAIN requests, NEW u, requests[i].kind = "start", u = requests[i].trip
        PROVE  /\ u \in Trips /\ StartAsked(u)' /\ u \notin BeingStarted' /\ RecordingsOf(u)' = {}
               /\ \A j \in DOMAIN requests : requests[j] = requests[i] => i = j
    <3>1. /\ u \in Trips /\ StartAsked(u) /\ u \notin BeingStarted /\ RecordingsOf(u) = {}
          /\ \A j \in DOMAIN requests : requests[j] = requests[i] => i = j
      BY <2>1 DEF StartFits
    <3> QED BY <1>4, <1>12, <1>13, <3>1, TripParts
  <2>2. ASSUME NEW b \in Starters, NEW u, call'[b] = "starting", u = serving[b].trip
        PROVE  /\ u \in Trips /\ StartAsked(u)' /\ RecordingsOf(u)' = {}
               /\ \A a \in Starters : call'[a] = "starting" /\ serving[a].trip = u => b = a
    <3>1. call[b] = "starting" /\ b # c /\ \A a \in Starters : call'[a] = "starting" => call[a] = "starting"
      BY <1>4, <1>6, <2>2
    <3>2. u \in Trips /\ StartAsked(u) /\ RecordingsOf(u) = {}
          /\ \A a \in Starters : call[a] = "starting" /\ serving[a].trip = u => b = a
      BY <2>2, <3>1 DEF StartFits
    <3>3. u # t
      BY <1>7, <3>1, <3>2 DEF t
    <3> QED BY <1>12, <1>13, <3>1, <3>2, <3>3, TripParts
  <2>3. ASSUME NEW b \in Captures, NEW u, u = recorded'[b], u # NoTrip
        PROVE  StartAsked(u)' /\ \A a \in Captures : recorded'[a] = u => b = a
    <3>1. \A a \in Captures : recorded[a] # t
      BY <1>8 DEF RecordingsOf
    <3>2. CASE b = s
      BY <1>8, <1>11, <1>13, <2>3, <3>1, <3>2
    <3>3. CASE b # s
      <4>1. u = recorded[b] /\ u # t /\ u \in Trips
        BY <1>6, <1>11, <2>3, <3>1, <3>3
      <4>2. StartAsked(u) /\ \A a \in Captures : recorded[a] = u => b = a
        BY <2>3, <4>1 DEF StartFits
      <4> QED BY <1>11, <1>13, <4>1, <4>2
    <3> QED BY <3>2, <3>3
  <2> QED BY <1>2, <2>1, <2>2, <2>3, ZenonT(40) DEF StartFits
<1>15. StartsAreFollowed'
  BY <1>2, <1>4, <1>5, <1>10, FollowedKept
<1>16. RunningIsAttended'
  <2>1. \A b \in Stoppers \ cancelled : call[b] # "idle" /\ process'[target[b]] = "running" =>
          b \notin cancelled' /\ call'[b] # "idle" /\ target'[b] = target[b]
    BY <1>2, <1>4, <1>6
  <2>2. \A a \in Captures : process'[a] = "running" =>
          (process[a] = "running" /\ recorded'[a] = recorded[a]) \/ recorded'[a] \in BeingStarted
    BY <1>4, <1>11
  <2> QED BY <1>2, <1>5, <1>10, <2>1, <2>2, AttendedKept
<1>17. StartIsLast'
  BY <1>5, <1>10, LastKept
<1>18. RecordingFits'
  <2>1. CASE RecordingGoesOn' => RecordingGoesOn
    <3>1. \A a \in Captures : recorded[a] # NoTrip => recorded'[a] = recorded[a]
      BY <1>9, <1>11
    <3> QED BY <1>2, <1>3, <1>4, <1>5, <1>10, <1>11, <2>1, <3>1, FitsKept
  <2>2. CASE RecordingGoesOn' /\ ~RecordingGoesOn
    <3>1. runner.phase = "start" /\ runner.trip = t
      BY <1>5, <2>2 DEF RecordingGoesOn, RunnerStands
    <3>2. NothingElseAsked
      <4>1. CASE requests # <<>> /\ requests[Len(requests)] = Event("start", runner.trip)
        <5>1. Len(requests) \in DOMAIN requests
          <6>1. requests \in Seq(Events)
            BY <1>1 DEF TripTypeOK
          <6> QED BY <4>1, <6>1, Popped
        <5>2. requests[Len(requests)].kind = "start" /\ requests[Len(requests)].trip = t
          BY <3>1, <4>1, EventParts
        <5> QED BY <1>4, <5>1, <5>2 DEF StartFits
      <4> QED BY <3>1, <4>1 DEF StartIsLast
    <3>3. BeingStarted' \subseteq overtaken'
      BY <1>2, <1>4, <3>1, <3>2 DEF StartsAreFollowed, AwaitsStart, NothingElseAsked
    <3>4. s \in {a \in Captures : recorded'[a] = t}
      BY <1>11
    <3> QED BY <1>2, <1>3, <1>5, <1>11, <3>1, <3>2, <3>3, <3>4 DEF RecordingFits, RunnerStands, NothingElseAsked, RecordingsOf
  <2> QED BY <2>1, <2>2
<1>19. StopsAreAsked'
  BY <1>1, <1>2, <1>4, <1>6, AskedKept
<1>20. StopFits'
  <2>1. runner.phase = "stop" => t # runner.trip
    BY <1>8 DEF RecordingFits, RecordingGoesOn
  <2>2. CASE runner.phase = "stop"
    BY <1>1, <1>2, <1>4, <1>5, <1>6, <1>11, <2>1, <2>2, StopFitsKept
  <2>3. CASE runner.phase # "stop"
    <3>1. \A u \in collected : RecordedWhole(u)'
      <4>1. \A u \in Trips : RecordedWhole(u) => RecordedWhole(u)'
        BY <1>1, SessionsStay
      <4> QED BY <1>1, <4>1 DEF StopFits, TripTypeOK
    <3> QED BY <1>1, <1>5, <2>3, <3>1 DEF StopFits, RunnerStands
  <2> QED BY <2>2, <2>3
<1> QED BY <1>14, <1>15, <1>16, <1>17, <1>18, <1>19, <1>20

(* A stop is taken: what runs is what it finds.                            *)
LEMMA ArrivedKeeps ==
  ASSUME BaseInv, RecordingInv, CaptureCalls, NEW c \in Stoppers, StopArrived(c)
  PROVE  RecordingInv'
<1> USE DEF RecordingInv
<1> DEFINE e == requests[1]
<1>1. [TripNext]_tripVars /\ TripTypeOK /\ UNCHANGED collected /\ CallsFit
  BY DEF TripNext, BaseInv, CaptureCalls
<1>2. /\ Receive(e) /\ MayStop(e) /\ requests # <<>>
      /\ call[c] = "idle" /\ target' = [target EXCEPT ![c] = active]
      /\ call' = [call EXCEPT ![c] = IF active = 0 THEN "idle" ELSE "stopping"]
      /\ serving' = [serving EXCEPT ![c] = e]
      /\ overtaken' = IF e.kind = "stop" THEN overtaken ELSE overtaken \cup BeingStarted
      /\ active # 0 => UNCHANGED runner
      /\ active = 0 => Reply(e.kind, e.trip, e.kind = "abort")
      /\ UNCHANGED <<active, process, cancelled, recorded>>
  BY DEF StopArrived, Stops, sessionState
<1>3. requests' = Tail(requests) /\ e \in Events /\ e.kind \in {"stop", "abort", "register"}
  BY <1>1, <1>2, ReceiveMakes DEF MayStop
<1>4. Taken(1) /\ 1 \in DOMAIN requests
  BY <1>1, <1>2, <1>3, OneTaken
<1> HIDE DEF e
<1>5. /\ call \in [Callers -> {"idle", "starting", "stopping", "killing"}] /\ serving \in [Callers -> Events]
      /\ target \in [Callers -> {0} \cup Captures] /\ active \in {0} \cup Captures
      /\ Starters \subseteq Callers /\ Stoppers \subseteq Callers /\ c \notin Starters
  BY <1>1, CaptureAssumption DEF TripTypeOK, RecorderTypeOK
<1>6. /\ \A b \in Callers : b # c => call'[b] = call[b] /\ serving'[b] = serving[b] /\ target'[b] = target[b]
      /\ call'[c] = IF active = 0 THEN "idle" ELSE "stopping"
      /\ serving'[c] = e /\ target'[c] = active
  BY <1>2, <1>5
<1>7. /\ RunnerStands
      /\ runner.phase \notin {"stop", "abort", "register"} => UNCHANGED runner
      /\ runner.phase = "stop" /\ runner'.reply = "ok" => runner.reply = "ok"
  <2>1. CASE active # 0
    BY <1>2, <2>1 DEF RunnerStands
  <2>2. CASE active = 0
    <3>1. /\ Answered(e.kind, e.trip)
          /\ runner.phase = e.kind /\ runner.trip = e.trip => runner'.reply = IF e.kind = "abort" THEN "ok" ELSE "error"
      BY <1>1, <1>2, <2>2, ReplyMakes
    <3> QED BY <1>3, <3>1 DEF Answered, RunnerStands
  <2> QED BY <2>1, <2>2
<1>8. RecordingGoesOn' => RecordingGoesOn
  BY <1>7 DEF RecordingGoesOn, RunnerStands
<1>9. StartersRest /\ BeingStarted' = BeingStarted
  BY <1>5, <1>6, StartersLeave DEF StartersRest
<1>10. \A s \in Captures : process[s] = "running" => active = s /\ s # 0
  BY RecorderAssumption DEF BaseInv, RecorderInv, SessionLife, Captures
<1>11. /\ DOMAIN requests' = 1..Len(requests') /\ Len(requests') \in Int
       /\ \A i \in DOMAIN requests' : i + 1 \in DOMAIN requests /\ requests'[i] = requests[i + 1]
  BY <1>4 DEF Taken
<1>12. overtaken \subseteq overtaken' /\ (e.kind \in Stopping => BeingStarted \subseteq overtaken')
  BY <1>2, <1>3 DEF Stopping
<1>13. StartFits'
  BY <1>1, <1>2, <1>9, <1>11, StartFitsKept
<1>14. StartsAreFollowed'
  BY <1>4, <1>7, <1>9, <1>12, FollowedKept DEF e
<1>15. RunningIsAttended'
  <2>1. \A s \in Captures : process'[s] = "running" =>
          \E b \in Stoppers \ cancelled' : call'[b] # "idle" /\ target'[b] = s
    <3>1. c \notin cancelled
      BY <1>1, <1>2 DEF CallsFit
    <3>2. ASSUME NEW s \in Captures, process'[s] = "running" PROVE call'[c] # "idle" /\ target'[c] = s
      BY <1>2, <1>6, <1>10, <3>2
    <3> QED BY <1>2, <3>1, <3>2
  <2>2. \A b \in Stoppers \ cancelled : call[b] # "idle" /\ process'[target[b]] = "running" =>
          b \notin cancelled' /\ call'[b] # "idle" /\ target'[b] = target[b]
    BY <1>2, <1>5, <1>6
  <2> QED BY <1>2, <1>4, <1>7, <1>12, <2>1, <2>2, AttendedKept
<1>16. StartIsLast'
  BY <1>4, <1>7, LastKept
<1>17. RecordingFits'
  BY <1>2, <1>4, <1>7, <1>8, <1>9, <1>12, FitsKept
<1>18. StopsAreAsked'
  BY <1>1, <1>4, <1>5, <1>6, <1>11, AskedKept DEF e
<1>19. StopFits'
  <2>1. ASSUME runner.phase = "stop", NEW b \in Stoppers, call'[b] # "idle", serving'[b] = Event("stop", runner.trip)
        PROVE  StopFinds(b)' \/ (call[b] # "idle" /\ serving'[b] = serving[b] /\ target'[b] = target[b])
    <3>1. CASE b = c
      <4>1. active # 0 /\ target'[b] = active
        BY <1>6, <2>1, <3>1
      <4>2. recorded[active] \in overtaken \cup {runner.trip}
        BY <2>1, <4>1 DEF RecordingFits, RecordingGoesOn
      <4> QED BY <1>2, <1>7, <1>10, <1>12, <4>1, <4>2 DEF StopFinds, RunnerStands, RecordingsOf
    <3>2. CASE b # c
      BY <1>5, <1>6, <2>1, <3>2
    <3> QED BY <3>1, <3>2
  <2> QED BY <1>1, <1>2, <1>7, <2>1, StopFitsKept
<1> QED BY <1>13, <1>14, <1>15, <1>16, <1>17, <1>18, <1>19

(* A stop goes on, or returns: then what it was for is over.               *)
LEMMA ContinuesKeep ==
  ASSUME BaseInv, RecordingInv, CaptureCalls, NEW c \in Stoppers, StopContinues(c)
  PROVE  RecordingInv'
<1> USE DEF RecordingInv
<1>1. [TripNext]_tripVars /\ TripTypeOK /\ UNCHANGED collected /\ CallsFit /\ SessionsFit
  BY DEF TripNext, BaseInv, CaptureCalls
<1>2. /\ call[c] \in {"stopping", "killing"} /\ target[c] \in Captures
      /\ UNCHANGED <<active, target, requests, serving, recorded, overtaken>>
      /\ Kills(c) \/ Settles(c)
  BY DEF StopContinues
<1>3. Taken(0)
  BY <1>1, <1>2, NoneTaken
<1>4. /\ call \in [Callers -> {"idle", "starting", "stopping", "killing"}] /\ serving \in [Callers -> Events]
      /\ process \in [Captures -> {"none", "running", "exited"}]
      /\ Starters \subseteq Callers /\ Stoppers \subseteq Callers /\ c \notin Starters
  BY <1>1, CaptureAssumption DEF TripTypeOK, RecorderTypeOK
<1>5. /\ \A b \in Callers : b # c => call'[b] = call[b]
      /\ \A s \in Captures : process'[s] = "running" => process[s] = "running"
      /\ \A b \in Stoppers \ cancelled : call[b] # "idle" /\ process'[target[b]] = "running" =>
           b \notin cancelled' /\ call'[b] # "idle" /\ target'[b] = target[b]
  <2>1. CASE Kills(c)
    BY <1>2, <1>4, <2>1 DEF Kills
  <2>2. CASE Settles(c)
    BY <1>2, <1>4, <2>2 DEF Settles
  <2> QED BY <1>2, <2>1, <2>2
<1>6. serving[c].kind \in {"stop", "abort", "register"} /\ serving[c] \in Events
  BY <1>1, <1>2, <1>4 DEF CallsFit, Stopping
<1>7. UNCHANGED runner \/ (Settles(c) /\ Answered(serving[c].kind, serving[c].trip))
  <2>1. CASE Kills(c)
    BY <2>1 DEF Kills
  <2>2. CASE Settles(c)
    <3>1. \E ok : Reply(serving[c].kind, serving[c].trip, ok)
      BY <2>2 DEF Settles
    <3> QED BY <1>1, <2>2, <3>1, ReplyMakes
  <2> QED BY <1>2, <2>1, <2>2
<1>8. RunnerStands /\ (RecordingGoesOn' => RecordingGoesOn)
  BY <1>6, <1>7 DEF Answered, RunnerStands, RecordingGoesOn
<1>9. StartersRest /\ BeingStarted' = BeingStarted
  BY <1>2, <1>4, <1>5, StartersLeave DEF StartersRest
<1>10. \A i \in DOMAIN requests' : i \in Nat /\ i + 0 \in DOMAIN requests /\ requests'[i] = requests[i + 0]
  <2>1. /\ DOMAIN requests' = 1..Len(requests') /\ Len(requests') \in Int
        /\ \A i \in DOMAIN requests' : i + 0 \in DOMAIN requests /\ requests'[i] = requests[i + 0]
    BY <1>3 DEF Taken
  <2> QED BY <2>1
<1>11. StartFits'
  BY <1>1, <1>2, <1>9, <1>10, StartFitsKept
<1>12. StartsAreFollowed'
  BY <1>2, <1>3, <1>8, <1>9, FollowedKept
<1>13. RunningIsAttended'
  BY <1>2, <1>3, <1>5, <1>8, AttendedKept
<1>14. StartIsLast'
  BY <1>3, <1>8, LastKept
<1>15. RecordingFits'
  BY <1>2, <1>3, <1>8, <1>9, FitsKept
<1>16. StopsAreAsked'
  BY <1>1, <1>2, <1>4, <1>5, AskedKept
<1>17. StopFits'
  <2>1. ASSUME runner.phase = "stop", runner'.reply = "ok", runner.reply # "ok"
        PROVE  RecordedWhole(runner.trip)'
    <3>1. Settles(c) /\ runner.phase = serving[c].kind /\ runner.trip = serving[c].trip
      BY <1>7, <2>1 DEF Answered
    <3>2. serving[c] = Event("stop", runner.trip)
      BY <1>6, <2>1, <3>1, EventParts
    <3>3. ~Reply(serving[c].kind, serving[c].trip, FALSE)
      BY <1>1, <2>1, <3>1, ReplyMakes
    <3>4. /\ process[target[c]] = "exited" /\ recorded[target[c]] \in Trips
          /\ queued' = queued \cup {recorded[target[c]]} /\ UNCHANGED process
      BY <2>1, <3>1, <3>3 DEF Settles
    <3>5. /\ recorded[target[c]] \in overtaken \cup {runner.trip}
          /\ \A s \in RecordingsOf(runner.trip) : s = target[c] \/ process[s] # "running"
      BY <1>2, <2>1, <3>2 DEF StopFits
    <3>6. RecordingsOf(runner.trip) # {} /\ runner.trip \in Trips
      BY <1>1, <2>1 DEF RecordingFits, RecordingGoesOn, BaseInv, RunnerFits
    <3>7. PICK s \in Captures : recorded[s] = runner.trip
      BY <3>6 DEF RecordingsOf
    <3>8. process[s] = "exited"
      BY <1>1, <1>4, <3>4, <3>5, <3>6, <3>7, TripParts DEF SessionsFit, RecordingsOf
    <3>9. runner.trip \in queued' \/ Strays # {}
      BY <1>2, <3>4, <3>5 DEF Strays
    <3> QED BY <1>2, <1>8, <3>4, <3>7, <3>8, <3>9 DEF RecordedWhole, RecordingsOf, Strays, RunnerStands
  <2>2. \A b \in Stoppers : call'[b] # "idle" => call[b] # "idle" /\ serving'[b] = serving[b] /\ target'[b] = target[b]
    BY <1>2, <1>4, <1>5
  <2> QED BY <1>1, <1>2, <1>5, <1>8, <2>1, <2>2, StopFitsKept
<1> QED BY <1>11, <1>12, <1>13, <1>14, <1>15, <1>16, <1>17

LEMMA CallsKeepRecording ==
  ASSUME BaseInv, RecordingInv, CaptureCalls
  PROVE  RecordingInv'
<1>1. ASSUME NEW c \in Starters, StartReturned(c) PROVE RecordingInv'
  BY <1>1, RefusedKeeps, RecordsKeep DEF StartReturned
<1> QED BY <1>1, CallsDo, StartsKeep, ArrivedKeeps, ContinuesKeep
-----------------------------------------------------------------------------
(* Restarts: whatever records or is to record is followed by the register  *)
(* of the new client.                                                      *)
LEMMA RestartsKeepRecording ==
  ASSUME BaseInv, RecordingInv, ClientRestarts \/ ResourceRestarts
  PROVE  RecordingInv'
<1> USE DEF RecordingInv
<1> DEFINE e == Event("register", NoTrip)
<1>1. [TripNext]_tripVars /\ TripTypeOK
  BY DEF TripNext, BaseInv
<1>2. /\ runner'.phase = "idle" /\ (requests' = Append(requests, e) \/ requests' = <<e>>)
      /\ UNCHANGED <<active, process, call, target, serving, recorded, queued, overtaken, collected>>
  BY DEF ClientRestarts, ResourceRestarts, Restart, AtRest, recorderVars, sessionState, callState
<1>3. e \in Events /\ e.kind = "register"
  BY EventParts
<1> HIDE DEF e
<1>4. \E n \in DOMAIN requests' :
        /\ requests'[n] = e
        /\ \A i \in DOMAIN requests' : i = n \/ (i \in Nat /\ i < n /\ i \in DOMAIN requests /\ requests'[i] = requests[i])
  <2>1. CASE requests' = Append(requests, e)
    BY <1>1, <1>3, <2>1, RequestsGrow
  <2>2. CASE requests' = <<e>>
    <3>1. DOMAIN requests' = {1} /\ requests'[1] = e
      BY <2>2
    <3> QED BY <3>1
  <2> QED BY <1>2, <2>1, <2>2
<1>5. PICK n \in DOMAIN requests' :
        /\ requests'[n] = e
        /\ \A i \in DOMAIN requests' : i = n \/ (i \in Nat /\ i < n /\ i \in DOMAIN requests /\ requests'[i] = requests[i])
  BY <1>4
<1>6. requests'[n].kind \in Stopping /\ requests'[n].kind # "start" /\ \A t : e # Event("stop", t)
  BY <1>3, <1>5, EventParts DEF Stopping
<1>7. StartersRest /\ BeingStarted' = BeingStarted
  BY <1>2, StartersLeave DEF StartersRest
<1>8. StartFits'
  <2>1. \A i \in DOMAIN requests' : requests'[i].kind = "start" =>
          i \in Nat /\ i + 0 \in DOMAIN requests /\ requests'[i] = requests[i + 0]
    BY <1>5, <1>6
  <2> QED BY <1>1, <1>2, <1>7, <2>1, StartFitsKept
<1>9. StartsAreFollowed' /\ RunningIsAttended'
  BY <1>5, <1>6 DEF StartsAreFollowed, RunningIsAttended
<1>10. StartIsLast' /\ RecordingFits'
  BY <1>2 DEF StartIsLast, RecordingFits, RecordingGoesOn
<1>11. StopsAreAsked'
  <2>1. \A i \in DOMAIN requests' : \A t \in Trips : requests'[i] = Event("stop", t) =>
          \E j \in DOMAIN requests : requests[j] = Event("stop", t)
    BY <1>5, <1>6
  <2> QED BY <1>1, <1>2, <2>1, AskedKept
<1>12. StopFits'
  <2>1. \A t \in collected : t \in Trips /\ RecordedWhole(t)
    BY <1>1 DEF StopFits, TripTypeOK
  <2>2. \A t \in collected : RecordedWhole(t)'
    BY <1>1, <2>1, SessionsStay
  <2> QED BY <1>2, <2>2 DEF StopFits
<1> QED BY <1>8, <1>9, <1>10, <1>11, <1>12

-----------------------------------------------------------------------------
(* The runner's steps leave calls and sessions alone, and ask last.        *)
LEMMA ClientLeaves ==
  ASSUME BaseInv, Client
  PROVE  /\ UNCHANGED <<active, process, call, target, serving, cancelled, recorded, queued, overtaken>>
         /\ StartersRest /\ BeingStarted' = BeingStarted
         /\ \A i \in DOMAIN requests : i \in Nat /\ i \in DOMAIN requests' /\ requests'[i] = requests[i]
         /\ \A i \in DOMAIN requests' : \/ i \in DOMAIN requests /\ requests'[i] = requests[i]
                                        \/ \E kind \in Awaiting : Asks(kind) /\ requests'[i] = Event(kind, runner.trip)
<1>1. /\ UNCHANGED <<recorderVars, backendVars>> /\ TripTypeOK /\ RunnerFits
      /\ UNCHANGED requests \/ \E kind \in Awaiting : Asks(kind)
  BY ClientDoes DEF BaseInv, Begins, Stays, Ends, Advances, Collects, GoesOn
<1>2. UNCHANGED <<active, process, call, target, serving, cancelled, recorded, queued, overtaken>>
  BY <1>1 DEF recorderVars, sessionState, callState, backendVars
<1>3. StartersRest /\ BeingStarted' = BeingStarted
  BY <1>2, StartersLeave DEF StartersRest
<1>4. \A i \in DOMAIN requests : i \in Nat
  BY <1>1, Appended DEF TripTypeOK
<1>5. ASSUME NEW kind \in Awaiting, Asks(kind)
      PROVE  /\ \A i \in DOMAIN requests : i \in DOMAIN requests' /\ requests'[i] = requests[i]
             /\ \A i \in DOMAIN requests' : \/ i \in DOMAIN requests /\ requests'[i] = requests[i]
                                            \/ requests'[i] = Event(kind, runner.trip)
  <2>1. Event(kind, runner.trip) \in Events /\ requests' = Append(requests, Event(kind, runner.trip))
    BY <1>1, <1>5, EventParts DEF Asks, RunnerFits
  <2> QED BY <1>1, <2>1, RequestsGrow
<1> QED BY <1>1, <1>2, <1>3, <1>4, <1>5

(* A start is asked for a trip that was never asked to start.              *)
LEMMA ClientFitsStarts ==
  ASSUME BaseInv, RecordingInv, Client
  PROVE  StartFits'
<1>1. [TripNext]_tripVars /\ TripTypeOK /\ RunnerFits /\ StartFits
  BY DEF TripNext, BaseInv, RecordingInv
<1>2. /\ UNCHANGED <<call, serving, recorded>> /\ StartersRest /\ BeingStarted' = BeingStarted
      /\ \A i \in DOMAIN requests : i \in Nat /\ i \in DOMAIN requests' /\ requests'[i] = requests[i]
      /\ \A i \in DOMAIN requests' : \/ i \in DOMAIN requests /\ requests'[i] = requests[i]
                                     \/ \E kind \in Awaiting : Asks(kind) /\ requests'[i] = Event(kind, runner.trip)
  BY ClientLeaves
<1>3. CASE Asks("start")
  <2> DEFINE at == runner.trip
             e  == Event("start", at)
             n  == Len(requests) + 1
  <2>1. /\ at \in Trips /\ e \in Events /\ e.kind = "start" /\ e.trip = at /\ requests' = Append(requests, e)
        /\ runner.phase = "spawn" /\ runner'.phase = "start" /\ runner'.trip = at
    BY <1>1, <1>3, EventParts DEF Asks, RunnerFits, RunnerTo, Awaiting
  <2>2. runner.trip.run \in Nat /\ runner.trip.index \in Nat
    BY <2>1, TripParts
  <2>3. ~StartAsked(at)
    BY <2>1, <2>2 DEF StartAsked, Passed, BeforeStart
  <2> HIDE DEF e
  <2>4. /\ \A i \in DOMAIN requests' : (i \in DOMAIN requests /\ requests'[i] = requests[i])
                                      \/ (i = n /\ requests'[i] = e)
        /\ \A i \in DOMAIN requests : i \in Nat /\ i < n /\ i \in DOMAIN requests' /\ requests'[i] = requests[i]
        /\ n \in DOMAIN requests' /\ requests'[n] = e
    BY <1>1, <2>1, RequestsGrow
  <2>5. PICK t \in Trips : t = at
    BY <2>1
  <2> HIDE DEF n, at
  <2>6. t \notin BeingStarted /\ RecordingsOf(t) = {} /\ \A i \in DOMAIN requests : requests[i] # e
    BY <1>1, <2>1, <2>3, <2>5, TripParts DEF StartFits, BeingStarted, RecordingsOf
  <2>7. \A s \in Trips : StartAsked(s) => StartAsked(s)'
    BY <1>1, StartAskedStays
  <2>8. StartAsked(t)'
    BY <2>1, <2>5 DEF StartAsked, Passed, BeforeStart, at
  <2>9. \A s : RecordingsOf(s)' = RecordingsOf(s)
    BY <1>2 DEF RecordingsOf
  <2>10. ASSUME NEW i \in DOMAIN requests', NEW s, requests'[i].kind = "start", s = requests'[i].trip
         PROVE  /\ s \in Trips /\ StartAsked(s)' /\ s \notin BeingStarted' /\ RecordingsOf(s)' = {}
                /\ \A j \in DOMAIN requests' : requests'[j] = requests'[i] => i = j
    <3>1. CASE i \in DOMAIN requests /\ requests'[i] = requests[i]
      <4>1. /\ s \in Trips /\ StartAsked(s) /\ s \notin BeingStarted /\ RecordingsOf(s) = {}
            /\ \A j \in DOMAIN requests : requests[j] = requests[i] => i = j
        BY <1>1, <2>10, <3>1 DEF StartFits
      <4>2. requests[i] # e
        BY <2>6, <3>1
      <4> QED BY <1>2, <2>4, <2>7, <2>9, <3>1, <4>1, <4>2
    <3>2. CASE i = n /\ requests'[i] = e
      <4>1. s = t
        BY <2>1, <2>5, <2>10, <3>2
      <4> QED BY <1>2, <2>4, <2>6, <2>8, <2>9, <3>2, <4>1
    <3> QED BY <2>4, <3>1, <3>2
  <2>11. ASSUME NEW c \in Starters, NEW s, call[c] = "starting", s = serving[c].trip
         PROVE  /\ s \in Trips /\ StartAsked(s)' /\ RecordingsOf(s)' = {}
                /\ \A d \in Starters : call[d] = "starting" /\ serving[d].trip = s => c = d
    BY <1>1, <2>7, <2>9, <2>11 DEF StartFits
  <2>12. ASSUME NEW c \in Captures, recorded[c] # NoTrip, NEW s, s = recorded[c]
         PROVE  StartAsked(s)' /\ \A d \in Captures : recorded[d] = s => c = d
    <3>1. s \in Trips
      BY <1>1, <2>12 DEF TripTypeOK
    <3> QED BY <1>1, <2>7, <2>12, <3>1 DEF StartFits
  <2> QED BY <1>2, <2>10, <2>11, <2>12 DEF StartFits
<1>4. CASE ~Asks("start")
  <2>1. ASSUME NEW i \in DOMAIN requests', requests'[i].kind = "start"
        PROVE  i \in Nat /\ i + 0 \in DOMAIN requests /\ requests'[i] = requests[i + 0]
    <3>1. i \in DOMAIN requests /\ requests'[i] = requests[i]
      BY <1>2, <1>4, <2>1, EventParts
    <3> QED BY <1>2, <3>1
  <2> QED BY <1>1, <1>2, <2>1, StartFitsKept
<1> QED BY <1>3, <1>4

(* Only an answered start, or one that is given up and aborted, is left.   *)
LEMMA ClientFollowsStarts ==
  ASSUME BaseInv, RecordingInv, Client
  PROVE  StartsAreFollowed'
<1>1. /\ TripTypeOK /\ RunnerFits /\ StartsAreFollowed /\ RecordingFits
  BY DEF BaseInv, RecordingInv
<1>2. /\ BeingStarted' = BeingStarted /\ UNCHANGED overtaken
      /\ \A i \in DOMAIN requests : i \in Nat /\ i \in DOMAIN requests' /\ requests'[i] = requests[i]
      /\ \A i \in DOMAIN requests' : \/ i \in DOMAIN requests /\ requests'[i] = requests[i]
                                     \/ \E kind \in Awaiting : Asks(kind) /\ requests'[i] = Event(kind, runner.trip)
  BY ClientLeaves
<1>3. Begins \/ Stays \/ Ends \/ Advances \/ Collects \/ GoesOn \/ \E kind \in Awaiting : Asks(kind)
  BY <1>1, ClientDoes
<1>4. CASE GoesOn /\ runner.phase = "start"
  <2>1. RecordingGoesOn /\ UNCHANGED requests
    BY <1>4 DEF GoesOn, RecordingGoesOn
  <2>2. NothingElseAsked /\ BeingStarted \subseteq overtaken
    BY <1>1, <2>1 DEF RecordingFits
  <2> QED BY <1>2, <2>1, <2>2 DEF StartsAreFollowed, NothingElseAsked
<1>5. CASE Asks("abort")
  <2> DEFINE e == Event("abort", runner.trip)
             n == Len(requests) + 1
  <2>1. e \in Events /\ e.kind = "abort" /\ requests' = Append(requests, e)
    BY <1>1, <1>5, EventParts DEF Asks, RunnerFits, Awaiting
  <2> HIDE DEF e
  <2>2. /\ \A i \in DOMAIN requests' : (i \in DOMAIN requests /\ requests'[i] = requests[i])
                                      \/ (i = n /\ requests'[i] = e)
        /\ \A i \in DOMAIN requests : i \in Nat /\ i < n /\ i \in DOMAIN requests' /\ requests'[i] = requests[i]
        /\ n \in DOMAIN requests' /\ requests'[n] = e
    BY <1>1, <2>1, RequestsGrow
  <2> HIDE DEF n
  <2>3. requests'[n].kind \in Stopping /\ n \in DOMAIN requests' /\ e.kind # "start"
    BY <2>1, <2>2 DEF Stopping
  <2>4. \A i \in DOMAIN requests' : requests'[i].kind = "start" => i < n
    BY <2>2, <2>3
  <2> QED BY <2>3, <2>4 DEF StartsAreFollowed
<1>6. CASE ~Asks("abort") /\ ~(GoesOn /\ runner.phase = "start")
  <2>1. \A t : AwaitsStart(t) => AwaitsStart(t)'
    BY <1>3, <1>6 DEF AwaitsStart, Begins, Stays, Ends, Advances, Collects, GoesOn, Asks
  <2>2. ASSUME NEW i \in DOMAIN requests', NEW t, requests'[i].kind = "start", t = requests'[i].trip
        PROVE  AwaitsStart(t)' \/ \E k \in DOMAIN requests' : i < k /\ requests'[k].kind \in Stopping
    <3>1. CASE i \in DOMAIN requests /\ requests'[i] = requests[i]
      BY <1>1, <1>2, <2>1, <2>2, <3>1 DEF StartsAreFollowed
    <3>2. ASSUME NEW kind \in Awaiting, Asks(kind), requests'[i] = Event(kind, runner.trip)
          PROVE  AwaitsStart(t)'
      <4>1. kind = "start" /\ t = runner.trip
        BY <2>2, <3>2, EventParts
      <4> QED BY <3>2, <4>1 DEF Asks, RunnerTo, AwaitsStart
    <3> QED BY <1>2, <3>1, <3>2
  <2>3. \A t \in BeingStarted' : AwaitsStart(t)' \/ t \in overtaken' \/ \E k \in DOMAIN requests' : requests'[k].kind \in Stopping
    BY <1>1, <1>2, <2>1 DEF StartsAreFollowed
  <2>4. \A i \in DOMAIN requests' : \A t : requests'[i].kind = "start" /\ t = requests'[i].trip =>
          AwaitsStart(t)' \/ \E k \in DOMAIN requests' : i < k /\ requests'[k].kind \in Stopping
    BY <2>2
  <2> QED BY <2>3, <2>4 DEF StartsAreFollowed, AwaitsStart
<1> QED BY <1>4, <1>5, <1>6

(* The runner leaves a recording when it is over, or with an abort.        *)
LEMMA ClientAttends ==
  ASSUME BaseInv, RecordingInv, Client
  PROVE  RunningIsAttended'
<1>1. /\ TripTypeOK /\ RunnerFits /\ StartFits /\ RunningIsAttended /\ StopFits
  BY DEF BaseInv, RecordingInv
<1>2. /\ UNCHANGED <<process, call, target, cancelled, recorded, overtaken>>
      /\ \A i \in DOMAIN requests : i \in DOMAIN requests' /\ requests'[i] = requests[i]
  BY ClientLeaves
<1>3. Begins \/ Stays \/ Ends \/ Advances \/ Collects \/ GoesOn \/ \E kind \in Awaiting : Asks(kind)
  BY <1>1, ClientDoes
<1>4. ASSUME NEW s \in Captures, process[s] = "running", runner.trip = recorded[s],
             runner.phase \in {"start", "flash", "record", "finalize", "stop"}
      PROVE  \/ runner'.trip = recorded[s] /\ runner'.phase \in {"start", "flash", "record", "finalize", "stop"}
             \/ \E k \in DOMAIN requests' : requests'[k].kind \in Stopping
  <2>1. CASE Stays \/ GoesOn
    BY <1>4, <2>1 DEF Stays, GoesOn, RunnerTo
  <2>2. CASE Begins \/ Ends \/ Advances
    BY <1>4, <2>2 DEF Begins, Ends, Advances
  <2>3. CASE Collects
    <3>1. runner.phase = "stop" /\ RecordedWhole(runner.trip) /\ runner.trip \in Trips
      BY <1>1, <2>3 DEF Collects, StopFits, RunnerFits
    <3>2. PICK d \in Captures : recorded[d] = recorded[s] /\ process[d] = "exited"
      BY <1>4, <3>1 DEF RecordedWhole, RecordingsOf
    <3>3. d = s
      BY <1>1, <1>4, <3>1, <3>2, TripParts DEF StartFits
    <3> QED BY <1>4, <3>2, <3>3
  <2>4. ASSUME NEW kind \in Awaiting, Asks(kind)
        PROVE  \/ runner'.trip = recorded[s] /\ runner'.phase \in {"start", "flash", "record", "finalize", "stop"}
               \/ \E k \in DOMAIN requests' : requests'[k].kind \in Stopping
    <3>1. CASE kind = "abort"
      <4>1. Event("abort", runner.trip) \in Events /\ requests' = Append(requests, Event("abort", runner.trip))
        BY <1>1, <2>4, <3>1, EventParts DEF Asks, RunnerFits
      <4>2. \E k \in DOMAIN requests' : requests'[k] = Event("abort", runner.trip)
        BY <1>1, <4>1, RequestsGrow
      <4> QED BY <4>2, EventParts DEF Stopping
    <3>2. CASE kind # "abort"
      BY <1>4, <2>4, <3>2 DEF Asks, RunnerTo
    <3> QED BY <3>1, <3>2
  <2> QED BY <1>3, <2>1, <2>2, <2>3, <2>4
<1>5. ASSUME NEW s \in Captures, process[s] = "running"
      PROVE  \/ recorded[s] \in overtaken
             \/ runner'.trip = recorded[s] /\ runner'.phase \in {"start", "flash", "record", "finalize", "stop"}
             \/ \E k \in DOMAIN requests' : requests'[k].kind \in Stopping
             \/ \E c \in Stoppers \ cancelled : call[c] # "idle" /\ target[c] = s
  BY <1>1, <1>2, <1>4, <1>5 DEF RunningIsAttended
<1> QED BY <1>2, <1>5 DEF RunningIsAttended

(* What is asked while a recording goes on neither starts nor stops one.   *)
LEMMA ClientKeepsOrder ==
  ASSUME BaseInv, RecordingInv, Client
  PROVE  StartIsLast' /\ RecordingFits'
<1>1. TripTypeOK /\ RunnerFits /\ StartIsLast /\ RecordingFits /\ requests \in Seq(Events)
  BY DEF BaseInv, RecordingInv, TripTypeOK
<1>2. /\ UNCHANGED <<active, recorded, overtaken>> /\ BeingStarted' = BeingStarted
      /\ \A i \in DOMAIN requests' : \/ i \in DOMAIN requests /\ requests'[i] = requests[i]
                                     \/ \E kind \in Awaiting : Asks(kind) /\ requests'[i] = Event(kind, runner.trip)
  BY ClientLeaves
<1>3. Begins \/ Stays \/ Ends \/ Advances \/ Collects \/ GoesOn \/ \E kind \in Awaiting : Asks(kind)
  BY <1>1, ClientDoes
<1>4. StartIsLast'
  <2>1. CASE Stays
    BY <1>1, <2>1 DEF Stays, StartIsLast, NothingElseAsked
  <2>2. CASE Asks("start")
    <3>1. /\ Event("start", runner.trip) \in Events /\ requests' = Append(requests, Event("start", runner.trip))
          /\ runner'.trip = runner.trip
      BY <1>1, <2>2, EventParts DEF Asks, RunnerFits, RunnerTo, Awaiting
    <3> HIDE DEF Events
    <3>2. requests'[Len(requests')] = Event("start", runner.trip) /\ requests' # <<>>
      BY <1>1, <3>1, Appended
    <3> QED BY <3>1, <3>2 DEF StartIsLast
  <2>3. CASE ~Stays /\ ~Asks("start")
    BY <1>3, <2>3 DEF StartIsLast, Begins, Ends, Advances, Collects, GoesOn, Asks, RunnerTo, RunnerAdvances
  <2> QED BY <2>1, <2>2, <2>3
<1>5. ASSUME RecordingGoesOn' PROVE RecordingGoesOn /\ runner'.trip = runner.trip /\ ~Asks("start") /\ ~Asks("abort")
  BY <1>3, <1>5 DEF RecordingGoesOn, Begins, Stays, Ends, Advances, Collects, GoesOn, Asks, RunnerTo, RunnerAdvances
<1>6. ASSUME RecordingGoesOn' PROVE NothingElseAsked'
  <2>1. NothingElseAsked
    BY <1>1, <1>5, <1>6 DEF RecordingFits
  <2>2. ASSUME NEW i \in DOMAIN requests' PROVE requests'[i].kind \notin Stopping \cup {"start"}
    <3>1. CASE i \in DOMAIN requests /\ requests'[i] = requests[i]
      BY <2>1, <3>1 DEF NothingElseAsked
    <3>2. ASSUME NEW kind \in Awaiting, Asks(kind), requests'[i] = Event(kind, runner.trip)
          PROVE  requests'[i].kind \notin Stopping \cup {"start"}
      BY <1>5, <1>6, <3>2, EventParts DEF Stopping, Awaiting
    <3> QED BY <1>2, <3>1, <3>2
  <2> QED BY <2>2 DEF NothingElseAsked
<1> QED BY <1>1, <1>2, <1>4, <1>5, <1>6 DEF RecordingFits, RecordingsOf

(* A stop is asked once, and a trip is collected when its stop is answered.*)
LEMMA ClientFitsStops ==
  ASSUME BaseInv, RecordingInv, Client
  PROVE  StopsAreAsked' /\ StopFits'
<1>1. [TripNext]_tripVars /\ TripTypeOK /\ RunnerFits /\ StopsAreAsked /\ StopFits
  BY DEF TripNext, BaseInv, RecordingInv
<1>2. /\ UNCHANGED <<process, call, target, serving, recorded, queued, overtaken>>
      /\ \A i \in DOMAIN requests' : \/ i \in DOMAIN requests /\ requests'[i] = requests[i]
                                     \/ \E kind \in Awaiting : Asks(kind) /\ requests'[i] = Event(kind, runner.trip)
  BY ClientLeaves
<1>3. Begins \/ Stays \/ Ends \/ Advances \/ Collects \/ GoesOn \/ \E kind \in Awaiting : Asks(kind)
  BY <1>1, ClientDoes
<1>4. StopsAreAsked'
  <2>1. ASSUME NEW i \in DOMAIN requests', NEW t \in Trips, requests'[i] = Event("stop", t),
               NEW kind \in Awaiting, Asks(kind), requests'[i] = Event(kind, runner.trip)
        PROVE  StopAsked(t)'
    <3>1. kind = "stop" /\ t = runner.trip
      BY <2>1, EventParts
    <3>2. runner'.phase = "stop" /\ t = runner'.trip
      BY <2>1, <3>1 DEF Asks, RunnerTo
    <3> QED BY <3>2 DEF StopAsked, Passed, BeforeStop, BeforeFinalize, BeforeStart
  <2>2. \A i \in DOMAIN requests' : \A t \in Trips : requests'[i] = Event("stop", t) =>
          StopAsked(t)' \/ \E j \in DOMAIN requests : requests[j] = Event("stop", t)
    BY <1>2, <2>1
  <2> QED BY <1>1, <1>2, <2>2, AskedKept
<1>5. \A t : RecordedWhole(t) => RecordedWhole(t)'
  BY <1>2 DEF RecordedWhole, RecordingsOf, Strays
<1>6. \A t \in collected' : RecordedWhole(t)'
  <2>1. \A t \in collected' : RecordedWhole(t)
    BY <1>1, <1>3 DEF StopFits, Begins, Stays, Ends, Advances, Collects, GoesOn, Asks
  <2> QED BY <1>5, <2>1
<1>7. CASE Stays
  <2>1. UNCHANGED <<runner.phase, runner.reply, runner.trip>>
    BY <1>7 DEF Stays
  <2> QED BY <1>1, <1>2, <1>4, <1>6, <2>1 DEF StopFits, RecordedWhole, RecordingsOf, Strays
<1>8. CASE Asks("stop")
  <2>1. /\ runner.phase = "finalize" /\ runner.trip \in Trips /\ runner'.trip = runner.trip /\ runner'.reply = "none"
    BY <1>1, <1>8 DEF Asks, RunnerFits, RunnerTo
  <2>2. runner.trip.run \in Nat /\ runner.trip.index \in Nat
    BY <2>1, TripParts
  <2>3. ~StopAsked(runner.trip)
    BY <2>1, <2>2 DEF StopAsked, Passed, BeforeStop
  <2>4. \A c \in Stoppers : ~(call[c] # "idle" /\ serving[c] = Event("stop", runner.trip))
    BY <1>1, <2>3, EventParts DEF StopsAreAsked
  <2> QED BY <1>2, <1>4, <1>6, <2>1, <2>4 DEF StopFits
<1>9. CASE ~Stays /\ ~Asks("stop")
  <2>1. runner'.phase # "stop"
    BY <1>3, <1>9 DEF Begins, Ends, Advances, Collects, GoesOn, Asks, RunnerTo, RunnerAdvances
  <2> QED BY <1>4, <1>6, <2>1 DEF StopFits
<1> QED BY <1>7, <1>8, <1>9

LEMMA RecordingKept == BaseInv /\ RecordingInv /\ [TripNext]_tripVars => RecordingInv'
<1>1. ASSUME BaseInv, RecordingInv, Client PROVE RecordingInv'
  BY <1>1, ClientFitsStarts, ClientFollowsStarts, ClientAttends, ClientKeepsOrder, ClientFitsStops DEF RecordingInv
<1> QED BY <1>1, ServerKeepsRecording, CallsKeepRecording, ProcessKeepsRecording, RestartsKeepRecording DEF TripNext

-----------------------------------------------------------------------------
(* No recording runs that nobody ends: its attempt goes on at the runner,  *)
(* or a request or a call that stops it is under way, whatever was given   *)
(* up, cancelled or restarted (runAttempt, abortCapture, captureControl.ts).*)
THEOREM RecordingsAreAttended == TripSpec => []NothingRecordsUnattended
<1>1. RecordingInv => NothingRecordsUnattended
  <2> SUFFICES ASSUME RecordingInv, NEW s \in Captures, process[s] = "running"
               PROVE  Attended(s) \/ s \in Strays
    BY DEF NothingRecordsUnattended
  <2>1. \/ recorded[s] \in overtaken
        \/ runner.trip = recorded[s] /\ runner.phase \in {"start", "flash", "record", "finalize", "stop"}
        \/ \E k \in DOMAIN requests : requests[k].kind \in Stopping
        \/ \E c \in Stoppers \ cancelled : call[c] # "idle" /\ target[c] = s
    BY DEF RecordingInv, RunningIsAttended
  <2> QED BY <2>1 DEF Attended, Strays, Awaiting, Stopping, Range
<1> QED BY <1>1, BaseInit, RecordingInit, BaseKept, RecordingKept, PTL DEF TripSpec

(* An attempt that the runner counts has its files, written once, and its  *)
(* one recording, ended and handed to processing (runAttempt, flushTrip,   *)
(* capture:stopRequest).                                                   *)
THEOREM CollectedAttemptsAreWhole == TripSpec => []CollectedIsWhole
<1>1. BaseInv /\ WritingInv /\ RecordingInv => CollectedIsWhole
  <2> SUFFICES ASSUME BaseInv, WritingInv, RecordingInv, NEW t \in collected
               PROVE  /\ t \in written.metadata
                      /\ Count(t, written.rows) = 1 /\ Count(t, written.manifest) = 1
                      /\ Cardinality(RecordingsOf(t)) = 1
                      /\ \A s \in RecordingsOf(t) : process[s] = "exited"
                      /\ t \in queued \/ Strays # {}
    BY DEF CollectedIsWhole
  <2>1. WrittenOnce(t)
    BY DEF WritingInv, WrittenFits
  <2>2. t \in Trips /\ t # NoTrip
    BY TripParts DEF BaseInv, TripTypeOK
  <2>3. RecordedWhole(t)
    BY DEF RecordingInv, StopFits
  <2>4. PICK s \in Captures : recorded[s] = t /\ process[s] = "exited"
    BY <2>3 DEF RecordedWhole, RecordingsOf
  <2>5. RecordingsOf(t) = {s}
    BY <2>2, <2>4 DEF RecordingInv, StartFits, RecordingsOf
  <2>6. Cardinality(RecordingsOf(t)) = 1
    BY <2>5, FS_Singleton
  <2> QED BY <2>1, <2>3, <2>4, <2>5, <2>6 DEF WrittenOnce, RecordedWhole
<1> QED BY <1>1, BaseInit, WritingInit, RecordingInit, BaseKept, WritingKept, RecordingKept, PTL DEF TripSpec
=============================================================================
