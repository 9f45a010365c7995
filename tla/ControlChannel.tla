--------------------------- MODULE ControlChannel ---------------------------
(***************************************************************************)
(* The command channel from the web UI to the game: the queue of the       *)
(* backend's control store (backend/internal/control/store.go) and its     *)
(* polling consumer in the FiveM resource (fivem/src/server.ts), which     *)
(* passes each command on to the player's client.                          *)
(*                                                                         *)
(* A request of the consumer is three steps: it is sent, the store serves  *)
(* it, and its answer arrives; it may fail before or after it was served.  *)
(* The consumer runs between its awaits without interruption, but its      *)
(* handlers interleave at them.  Command IDs are fresh over restarts of    *)
(* the backend (they hold a timestamp), so they are numbered.              *)
(***************************************************************************)
EXTENDS Integers, Sequences, SequencesExt

CONSTANTS
  HistoryLimit,       \* commandHistoryLimit
  MaxCommands,        \* bounds: commands enqueued,
  MaxRegistrations,   \*   registrations of a client,
  MaxRestarts         \*   restarts of the backend or of the resource

ASSUME ChannelAssumption ==
  /\ HistoryLimit \in Nat \ {0}
  /\ MaxCommands \in Nat /\ MaxRegistrations \in Nat /\ MaxRestarts \in Nat

VARIABLES
  commands,           \* store: the commands kept, oldest first
  commandSeq,         \* store: commands enqueued so far
  storeSeen,          \* store: lastSeenCommandID, 0 when empty
  lastSeen,           \* consumer: lastSeenControlCommandId, 0 when empty
  player,             \* consumer: activeControlPlayerSource is known
  poll,               \* consumer: the poll in flight
  reconnecting,       \* consumer: registrations awaiting the capture's stop
  connect,            \* consumer: the connect request in flight
  dispatched,         \* history: commands passed to the client, in order
  resetAt,            \* history: Len(dispatched) when lastSeen was last reset
  clearedTo,          \* history: commandSeq and Len(dispatched) when the queue
  clearedAt,          \*   was last cleared
  registrations, restarts   \* bounded counters

storeVars    == <<commands, commandSeq, storeSeen>>
clearedVars  == <<clearedTo, clearedAt>>
historyVars  == <<dispatched, resetAt, clearedVars>>
boundVars    == <<registrations, restarts>>
channelVars  == <<storeVars, lastSeen, player, poll, reconnecting, connect, historyVars, boundVars>>

None == 0

Commands == 1..MaxCommands

NoPoll == [at |-> "idle", id |-> None]

ChannelTypeOK ==
  /\ commands \in Seq(Commands) /\ Len(commands) <= HistoryLimit
  /\ commandSeq \in 0..MaxCommands
  /\ storeSeen \in Commands \cup {None} /\ lastSeen \in Commands \cup {None}
  /\ player \in BOOLEAN
  /\ poll \in [at: {"idle", "asked", "answered"}, id: Commands \cup {None}]
  /\ reconnecting \in 0..MaxRegistrations
  /\ connect \in {"idle", "asked", "answered"}
  /\ dispatched \in Seq(Commands) /\ resetAt \in 0..Len(dispatched)
  /\ clearedTo \in 0..MaxCommands /\ clearedAt \in 0..Len(dispatched)
  /\ registrations \in 0..MaxRegistrations /\ restarts \in 0..MaxRestarts

ChannelInit ==
  /\ commands = <<>> /\ commandSeq = 0 /\ storeSeen = None
  /\ lastSeen = None /\ player = FALSE
  /\ poll = NoPoll /\ reconnecting = 0 /\ connect = "idle"
  /\ dispatched = <<>> /\ resetAt = 0 /\ clearedTo = 0 /\ clearedAt = 0
  /\ registrations = 0 /\ restarts = 0

-----------------------------------------------------------------------------
(* The store.                                                              *)

Kept(queue) ==
  IF Len(queue) > HistoryLimit
  THEN SubSeq(queue, Len(queue) - HistoryLimit + 1, Len(queue)) ELSE queue

(* Faults to be caught: the last command is followed by the first again,   *)
(* or an ID that is no longer kept is taken for the last.                  *)
NextCommandWraps(seen) ==
  IF commands = <<>> THEN None
  ELSE IF Contains(commands, seen) /\ seen # Last(commands)
       THEN commands[CHOOSE i \in 2..Len(commands) : commands[i - 1] = seen]
       ELSE Head(commands)

NextCommandOfKept(seen) ==
  IF commands = <<>> \/ (seen # None /\ ~Contains(commands, seen)) THEN None
  ELSE IF seen = None THEN Head(commands)
  ELSE IF seen = Last(commands) THEN None
  ELSE commands[CHOOSE i \in 2..Len(commands) : commands[i - 1] = seen]

(* nextCommandIndexLocked: an ID the store does not keep starts over.      *)
NextCommand(seen) ==
  IF commands = <<>> \/ seen = Last(commands) THEN None
  ELSE IF Contains(commands, seen)
       THEN commands[CHOOSE i \in 2..Len(commands) : commands[i - 1] = seen]
       ELSE Head(commands)

(* pendingCommandsLocked *)
Pending ==
  IF NextCommand(storeSeen) = None THEN {}
  ELSE {c \in ToSet(commands) : c >= NextCommand(storeSeen)}

Enqueue ==
  /\ commandSeq < MaxCommands
  /\ commandSeq' = commandSeq + 1
  /\ commands' = Kept(Append(commands, commandSeq'))
  /\ UNCHANGED <<storeSeen, lastSeen, player, poll, reconnecting, connect, historyVars, boundVars>>

-----------------------------------------------------------------------------
(* pollControlCommands, every 250 ms unless a poll is in flight.           *)
PollBegin ==
  /\ poll.at = "idle"
  /\ poll' = [at |-> "asked", id |-> lastSeen]
  /\ UNCHANGED <<storeVars, lastSeen, player, reconnecting, connect, historyVars, boundVars>>

PollServed ==
  /\ poll.at = "asked"
  /\ storeSeen' = poll.id
  /\ poll' = [at |-> "answered", id |-> NextCommand(poll.id)]
  /\ UNCHANGED <<commands, commandSeq, lastSeen, player, reconnecting, connect, historyVars, boundVars>>

(* The answer: nothing new, nobody to pass it to, or a command passed on.  *)
PollDelivered ==
  /\ poll.at = "answered"
  /\ poll' = NoPoll
  /\ IF poll.id # None /\ player
     THEN /\ dispatched' = Append(dispatched, poll.id)
          /\ lastSeen' = poll.id
     ELSE UNCHANGED <<dispatched, lastSeen>>
  /\ UNCHANGED <<storeVars, player, reconnecting, connect, resetAt, clearedVars, boundVars>>

PollFails ==
  /\ poll.at # "idle"
  /\ poll' = NoPoll
  /\ UNCHANGED <<storeVars, lastSeen, player, reconnecting, connect, historyVars, boundVars>>

-----------------------------------------------------------------------------
ForgetSeen == lastSeen' = None /\ resetAt' = Len(dispatched)

(* control:registerClient, up to the await of stopCaptureOnReconnect.      *)
Register ==
  /\ registrations < MaxRegistrations
  /\ registrations' = registrations + 1
  /\ player' = TRUE
  /\ ForgetSeen
  /\ reconnecting' = reconnecting + 1
  /\ UNCHANGED <<storeVars, poll, connect, dispatched, clearedVars, restarts>>

(* connectControlSession, skipped while another one is in flight.          *)
CaptureStopped ==
  /\ reconnecting > 0
  /\ reconnecting' = reconnecting - 1
  /\ connect' = IF connect = "idle" THEN "asked" ELSE connect
  /\ UNCHANGED <<storeVars, lastSeen, player, poll, historyVars, boundVars>>

Cleared ==
  /\ storeSeen' = None
  /\ clearedTo' = commandSeq /\ clearedAt' = Len(dispatched)

(* A fault to be caught: the commands of the earlier session stay queued.  *)
ConnectServedKeepsQueue ==
  /\ connect = "asked"
  /\ connect' = "answered"
  /\ Cleared
  /\ UNCHANGED <<commands, commandSeq, lastSeen, player, poll, reconnecting, dispatched,
                 resetAt, boundVars>>

(* ResetConsumerSession *)
ConnectServed ==
  /\ connect = "asked"
  /\ connect' = "answered"
  /\ commands' = <<>>
  /\ Cleared
  /\ UNCHANGED <<commandSeq, lastSeen, player, poll, reconnecting, dispatched, resetAt, boundVars>>

ConnectDelivered ==
  /\ connect = "answered"
  /\ connect' = "idle"
  /\ ForgetSeen
  /\ UNCHANGED <<storeVars, player, poll, reconnecting, dispatched, clearedVars, boundVars>>

ConnectFails ==
  /\ connect # "idle"
  /\ connect' = "idle"
  /\ UNCHANGED <<storeVars, lastSeen, player, poll, reconnecting, historyVars, boundVars>>

(* control:clientHeartbeat, and every other event that a client sends.     *)
Heartbeat ==
  /\ ~player
  /\ player' = TRUE
  /\ UNCHANGED <<storeVars, lastSeen, poll, reconnecting, connect, historyVars, boundVars>>

-----------------------------------------------------------------------------
(* Neither side keeps anything on disk.                                    *)
BackendRestarts ==
  /\ restarts < MaxRestarts
  /\ restarts' = restarts + 1
  /\ commands' = <<>>
  /\ Cleared
  /\ UNCHANGED <<commandSeq, lastSeen, player, poll, reconnecting, connect, dispatched, resetAt,
                 registrations>>

ResourceRestarts ==
  /\ restarts < MaxRestarts
  /\ restarts' = restarts + 1
  /\ ForgetSeen
  /\ player' = FALSE
  /\ poll' = NoPoll /\ reconnecting' = 0 /\ connect' = "idle"
  /\ UNCHANGED <<storeVars, dispatched, clearedVars, registrations>>

ChannelNext ==
  \/ Enqueue
  \/ PollBegin \/ PollServed \/ PollDelivered \/ PollFails
  \/ Register \/ CaptureStopped \/ Heartbeat
  \/ ConnectServed \/ ConnectDelivered \/ ConnectFails
  \/ BackendRestarts \/ ResourceRestarts

ChannelSpec == ChannelInit /\ [][ChannelNext]_channelVars

(* The interval timer fires, the client's heartbeat arrives, and requests  *)
(* to the backend on the same host do not fail for ever.                   *)
ChannelFairness ==
  /\ WF_channelVars(PollBegin)
  /\ SF_channelVars(PollServed)
  /\ SF_channelVars(PollDelivered)
  /\ WF_channelVars(Heartbeat)

FairChannelSpec == ChannelSpec /\ ChannelFairness

-----------------------------------------------------------------------------
(* Until lastSeen is reset, commands reach the client in the order they    *)
(* were queued and none twice, whatever polls were lost, cut from the      *)
(* history or in flight over a registration or a restart.                  *)
InOrderUntilReset ==
  \A i, j \in resetAt + 1..Len(dispatched) : i < j => dispatched[i] < dispatched[j]

(* Every command that is queued is passed to a client, unless newer ones   *)
(* push it out of the history or a new session clears the queue.           *)
EveryCommandLeaves ==
  \A c \in Commands :
    Contains(commands, c) ~> Contains(dispatched, c) \/ ~Contains(commands, c)

(* A session starts without the commands of the one before: once the store *)
(* has cleared its queue, at most the one answer that was under way passes *)
(* on a command queued earlier, although a registration resets lastSeen    *)
(* long before the clear and again after it.                               *)
NothingFromBeforeTheClear ==
  \A i \in clearedAt + 2..Len(dispatched) : dispatched[i] > clearedTo

(* Together: commands are passed on in their order, but for what the reset *)
(* of a registration brings back, and a clear of the queue ends that       *)
(* (control:registerClient, ResetConsumerSession).                         *)
DispatchedInOrder == InOrderUntilReset /\ NothingFromBeforeTheClear
=============================================================================
