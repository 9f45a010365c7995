------------------------ MODULE ControlChannelProofs ------------------------
(***************************************************************************)
(* Proofs about the command channel, for any length of the history and any *)
(* number of commands, registrations and restarts.                         *)
(*                                                                         *)
(* The order in which commands reach the client rests on what the store    *)
(* keeps: always the newest commands without a gap.  So an ID that it does *)
(* not keep is older than all it keeps, and to go on from the oldest kept  *)
(* one never goes back.                                                    *)
(***************************************************************************)
EXTENDS ControlChannel, SequenceTheorems, TLAPS

(* The newest commands, without a gap.                                     *)
NewestKept ==
  \A i \in 1..Len(commands) : commands[i] = commandSeq - Len(commands) + i

(* No ID is known on any side before its command was queued.               *)
IDsQueued ==
  /\ storeSeen <= commandSeq /\ lastSeen <= commandSeq /\ poll.id <= commandSeq

(* A reconnection belongs to a registration.                               *)
ReconnectsAsRegistered == reconnecting <= registrations

(* What was passed on since the last reset: up to the last one seen, up to *)
(* the one that a poll asks from, and before the one that it answers.      *)
SinceReset == {dispatched[i] : i \in resetAt + 1..Len(dispatched)}

SeenIsLatest   == \A c \in SinceReset : c <= lastSeen
AskedFromLatest == poll.at = "asked" => \A c \in SinceReset : c <= poll.id
AnswerIsNewer  == poll.at = "answered" /\ poll.id # None => \A c \in SinceReset : c < poll.id

ChannelInv ==
  /\ ChannelTypeOK
  /\ NewestKept /\ IDsQueued /\ ReconnectsAsRegistered
  /\ SeenIsLatest /\ AskedFromLatest /\ AnswerIsNewer
  /\ InOrderUntilReset

-----------------------------------------------------------------------------
(* Cutting the history keeps its newest part.                              *)
LEMMA KeptIsNewest ==
  ASSUME NEW n \in Nat, NEW q \in Seq(Commands), Len(q) <= n,
         \A i \in 1..Len(q) : q[i] = n - Len(q) + i
  PROVE  /\ Kept(q) \in Seq(Commands) /\ Len(Kept(q)) <= HistoryLimit
         /\ Len(Kept(q)) <= Len(q)
         /\ \A i \in 1..Len(Kept(q)) : Kept(q)[i] = n - Len(Kept(q)) + i
<1>0. Len(q) \in Nat /\ HistoryLimit \in Nat \ {0}
  BY ChannelAssumption
<1>1. CASE Len(q) <= HistoryLimit
  <2>1. Kept(q) = q
    BY <1>0, <1>1 DEF Kept
  <2> QED BY <1>1, <2>1
<1>2. CASE Len(q) > HistoryLimit
  <2> DEFINE cut == Len(q) - HistoryLimit
             k == SubSeq(q, cut + 1, Len(q))
  <2>1. cut \in Nat /\ cut + 1 \in 1..Len(q) /\ Len(q) \in Nat
    BY <1>0, <1>2
  <2>2. k \in Seq(Commands) /\ Len(k) = HistoryLimit /\ \A i \in 1..HistoryLimit : k[i] = q[cut + i]
    <3>1. \A i \in cut + 1..Len(q) : q[i] \in Commands
      BY <2>1
    <3>2. /\ k \in Seq(Commands)
          /\ Len(k) = IF cut + 1 <= Len(q) THEN Len(q) - (cut + 1) + 1 ELSE 0
          /\ \A i \in 1..Len(q) - (cut + 1) + 1 : k[i] = q[(cut + 1) + i - 1]
      BY <2>1, <3>1, SubSeqProperties, SMTT(30)
    <3> HIDE DEF k
    <3> QED BY <1>0, <2>1, <3>2
  <2>3. Kept(q) = k
    BY <1>0, <1>2 DEF Kept
  <2>4. ASSUME NEW i \in 1..HistoryLimit
        PROVE  k[i] = n - HistoryLimit + i
    <3>1. cut + i \in 1..Len(q)
      BY <1>0, <2>1
    <3>2. k[i] = n - Len(q) + (cut + i)
      BY <2>2, <3>1
    <3> QED BY <1>0, <3>2
  <2> HIDE DEF k
  <2>5. Kept(q) \in Seq(Commands) /\ Len(Kept(q)) = HistoryLimit
    BY <2>2, <2>3
  <2>6. \A i \in 1..Len(Kept(q)) : Kept(q)[i] = n - Len(Kept(q)) + i
    BY <2>3, <2>4, <2>5
  <2>7. Len(Kept(q)) <= Len(q)
    BY <1>0, <1>2, <2>5
  <2> QED BY <1>0, <2>5, <2>6, <2>7
<1> QED BY <1>0, <1>1, <1>2

(* The store answers with nothing or with a command newer than the one     *)
(* asked from, and with one that it keeps.                                 *)
LEMMA NextIsNewer ==
  ASSUME ChannelTypeOK, NewestKept, Len(commands) <= commandSeq,
         NEW seen \in 0..commandSeq
  PROVE  \/ NextCommand(seen) = None
         \/ /\ NextCommand(seen) \in Commands
            /\ NextCommand(seen) \in seen + 1..commandSeq
            /\ NextCommand(seen) > commandSeq - Len(commands)
<1>0. /\ commands \in Seq(Commands) /\ commandSeq \in Nat /\ Len(commands) \in Nat /\ seen \in Nat
      /\ \A i \in 1..Len(commands) : commands[i] \in Commands
      /\ \A i \in 1..Len(commands) : commands[i] = commandSeq - Len(commands) + i
  BY DEF ChannelTypeOK, NewestKept
<1>1. CASE commands = <<>> \/ seen = Last(commands)
  BY <1>1 DEF NextCommand
<1>2. CASE commands # <<>> /\ seen # Last(commands) /\ Contains(commands, seen)
  <2>1. PICK j \in 1..Len(commands) : commands[j] = seen
    BY <1>2 DEF Contains
  <2>2. j # Len(commands)
    BY <1>2, <2>1 DEF Last
  <2>3. j + 1 \in 2..Len(commands) /\ commands[(j + 1) - 1] = seen
    BY <1>0, <2>1, <2>2
  <2> DEFINE next == CHOOSE i \in 2..Len(commands) : commands[i - 1] = seen
  <2>4. next \in 2..Len(commands) /\ commands[next - 1] = seen
    BY <2>3
  <2>5. NextCommand(seen) = commands[next]
    BY <1>2 DEF NextCommand
  <2> HIDE DEF next
  <2>6. commands[next] = seen + 1
    <3>1. next \in 1..Len(commands) /\ next - 1 \in 1..Len(commands)
      BY <1>0, <2>4
    <3>2. /\ commands[next] = commandSeq - Len(commands) + next
          /\ commands[next - 1] = commandSeq - Len(commands) + (next - 1)
      BY <1>0, <3>1
    <3> QED BY <1>0, <2>4, <3>1, <3>2
  <2>7. commands[next] \in Commands /\ commands[next] <= commandSeq
        /\ commands[next] > commandSeq - Len(commands)
    BY <1>0, <2>4
  <2> QED BY <1>0, <2>5, <2>6, <2>7
<1>3. CASE commands # <<>> /\ seen # Last(commands) /\ ~Contains(commands, seen)
  <2>1. NextCommand(seen) = commands[1]
    BY <1>3 DEF NextCommand
  <2>2. Len(commands) \in Nat \ {0} /\ commands[1] = commandSeq - Len(commands) + 1
    BY <1>0, <1>3
  <2>3. seen < commands[1]
    <3> SUFFICES ASSUME seen >= commands[1] PROVE FALSE
      BY <1>0, <2>2
    <3> DEFINE j == seen - (commandSeq - Len(commands))
    <3>1. j \in 1..Len(commands)
      BY <1>0, <2>2
    <3>2. commands[j] = seen
      BY <1>0, <3>1
    <3> QED BY <3>1, <3>2, <1>3 DEF Contains
  <2> QED BY <1>0, <2>1, <2>2, <2>3
<1> QED BY <1>1, <1>2, <1>3

(* Cutting the history makes it no longer.                                 *)
LEMMA KeptIsShorter ==
  ASSUME NEW q \in Seq(Commands)
  PROVE  Len(Kept(q)) <= Len(q) /\ Len(Kept(q)) \in Nat
<1>0. Len(q) \in Nat /\ HistoryLimit \in Nat \ {0}
  BY ChannelAssumption
<1> DEFINE cut == Len(q) - HistoryLimit
<1>1. CASE Len(q) > HistoryLimit
  <2>1. cut + 1 \in 1..Len(q) /\ \A i \in cut + 1..Len(q) : q[i] \in Commands
    BY <1>0, <1>1
  <2>2. Len(SubSeq(q, cut + 1, Len(q))) = Len(q) - (cut + 1) + 1
    BY <1>0, <2>1, SubSeqProperties, SMTT(30)
  <2> QED BY <1>0, <1>1, <2>2 DEF Kept
<1> QED BY <1>0, <1>1 DEF Kept

-----------------------------------------------------------------------------
(* Nothing is queued, seen or passed on at first.                          *)
LEMMA ChannelInvInit == ChannelInit => ChannelInv /\ Len(commands) <= commandSeq
<1> SUFFICES ASSUME ChannelInit PROVE ChannelInv /\ Len(commands) <= commandSeq
  OBVIOUS
<1> USE DEF ChannelInit
<1>1. Len(commands) = 0 /\ Len(dispatched) = 0 /\ commandSeq = 0 /\ resetAt = 0 /\ poll.at = "idle"
  BY DEF NoPoll
<1>2. ChannelTypeOK
  <2>1. commands \in Seq(Commands) /\ dispatched \in Seq(Commands)
    OBVIOUS
  <2>2. poll \in [at: {"idle", "asked", "answered"}, id: Commands \cup {None}]
    BY DEF NoPoll
  <2>3. /\ Len(commands) <= HistoryLimit /\ commandSeq \in 0..MaxCommands
        /\ clearedTo \in 0..MaxCommands /\ clearedAt \in 0..Len(dispatched)
        /\ reconnecting \in 0..MaxRegistrations /\ registrations \in 0..MaxRegistrations
        /\ restarts \in 0..MaxRestarts /\ resetAt \in 0..Len(dispatched)
    BY ChannelAssumption, <1>1
  <2>4. /\ storeSeen \in Commands \cup {None} /\ lastSeen \in Commands \cup {None}
        /\ player \in BOOLEAN /\ connect \in {"idle", "asked", "answered"}
    BY DEF None
  <2> QED BY <2>1, <2>2, <2>3, <2>4 DEF ChannelTypeOK
<1>3. NewestKept /\ InOrderUntilReset /\ SinceReset = {}
  BY <1>1 DEF NewestKept, InOrderUntilReset, SinceReset
<1>4. IDsQueued /\ ReconnectsAsRegistered
  BY DEF IDsQueued, ReconnectsAsRegistered, NoPoll, None
<1> QED BY <1>1, <1>2, <1>3, <1>4 DEF ChannelInv, SeenIsLatest, AskedFromLatest, AnswerIsNewer

(* A step that resets what is seen forgets the order before it.            *)
LEMMA ForgettingIsSafe ==
  ASSUME ChannelTypeOK, ForgetSeen, UNCHANGED dispatched
  PROVE  /\ SinceReset' = {} /\ InOrderUntilReset'
         /\ lastSeen' = None /\ resetAt' \in 0..Len(dispatched')
<1>1. lastSeen' = None /\ resetAt' = Len(dispatched) /\ Len(dispatched) \in Nat
  BY DEF ChannelTypeOK, ForgetSeen
<1>2. \A i \in resetAt' + 1..Len(dispatched') : FALSE
  BY <1>1
<1> QED BY <1>1, <1>2 DEF SinceReset, InOrderUntilReset

(* Every step keeps the invariant.                                         *)
LEMMA ChannelInvNext ==
  ASSUME ChannelInv, Len(commands) <= commandSeq, [ChannelNext]_channelVars
  PROVE  ChannelInv' /\ (Len(commands) <= commandSeq)'
<1> USE ChannelAssumption
    DEF ChannelInv, IDsQueued, SeenIsLatest, AskedFromLatest, AnswerIsNewer,
        ReconnectsAsRegistered, storeVars, historyVars, clearedVars, boundVars
<1>1. CASE Enqueue
  <2>1. /\ commandSeq' = commandSeq + 1 /\ commandSeq' \in 0..MaxCommands
        /\ commandSeq' \in Commands
    BY <1>1 DEF Enqueue, ChannelTypeOK, Commands
  <2> DEFINE q == Append(commands, commandSeq')
  <2>2. /\ q \in Seq(Commands) /\ Len(q) = Len(commands) + 1 /\ Len(q) <= commandSeq'
        /\ \A i \in 1..Len(q) : q[i] = commandSeq' - Len(q) + i
    <3>1. /\ commands \in Seq(Commands) /\ commandSeq \in Nat /\ Len(commands) \in Nat
      BY DEF ChannelTypeOK
    <3>2. /\ q \in Seq(Commands) /\ Len(q) = Len(commands) + 1 /\ q[Len(q)] = commandSeq'
          /\ \A i \in 1..Len(commands) : q[i] = commands[i]
      BY <2>1, <3>1
    <3> HIDE DEF q
    <3>3. ASSUME NEW i \in 1..Len(q) PROVE q[i] = commandSeq' - Len(q) + i
      <4>1. CASE i = Len(q)
        BY <2>1, <3>1, <3>2, <4>1
      <4>2. CASE i # Len(q)
        <5>1. i \in 1..Len(commands)
          BY <3>1, <3>2, <4>2
        <5> QED BY <2>1, <3>1, <3>2, <5>1 DEF NewestKept
      <4> QED BY <4>1, <4>2
    <3> QED BY <2>1, <3>1, <3>2, <3>3
  <2>3. commands' = Kept(q)
    BY <1>1 DEF Enqueue
  <2> HIDE DEF q
  <2>4. /\ commands' \in Seq(Commands) /\ Len(commands') <= HistoryLimit
        /\ Len(commands') <= commandSeq' /\ NewestKept'
    <3>1. commandSeq' \in Nat
      BY <2>1
    <3>2. /\ Kept(q) \in Seq(Commands) /\ Len(Kept(q)) <= HistoryLimit
          /\ Len(Kept(q)) <= Len(q)
          /\ \A i \in 1..Len(Kept(q)) : Kept(q)[i] = commandSeq' - Len(Kept(q)) + i
      BY <2>2, <3>1, KeptIsNewest
    <3>3. Len(Kept(q)) \in Nat /\ Len(q) \in Nat
      BY <2>2, <3>2
    <3> QED BY <2>2, <2>3, <3>1, <3>2, <3>3 DEF NewestKept
  <2>5. UNCHANGED <<storeSeen, lastSeen, player, poll, reconnecting, connect, historyVars, boundVars>>
    BY <1>1 DEF Enqueue
  <2>6. ChannelTypeOK' /\ IDsQueued'
    BY <2>1, <2>4, <2>5 DEF ChannelTypeOK, None, Commands
  <2> QED BY <2>4, <2>5, <2>6 DEF SinceReset, InOrderUntilReset
<1>2. CASE PollBegin
  BY <1>2 DEF PollBegin, ChannelTypeOK, NewestKept, SinceReset, InOrderUntilReset
<1>3. CASE PollServed
  <2>1. poll.id \in 0..commandSeq
    BY DEF ChannelTypeOK, Commands, None
  <2> DEFINE c == NextCommand(poll.id)
  <2>2. c = None \/ (c \in Commands /\ c \in poll.id + 1..commandSeq)
    BY <2>1, NextIsNewer
  <2>3. /\ poll.at = "asked" /\ poll' = [at |-> "answered", id |-> c] /\ storeSeen' = poll.id
        /\ UNCHANGED <<commands, commandSeq, lastSeen, player, reconnecting, connect,
                       dispatched, resetAt, clearedTo, clearedAt, registrations, restarts>>
    BY <1>3 DEF PollServed
  <2> HIDE DEF c
  <2>4. ChannelTypeOK' /\ NewestKept' /\ InOrderUntilReset' /\ SinceReset' = SinceReset
    BY <2>1, <2>2, <2>3 DEF ChannelTypeOK, NewestKept, InOrderUntilReset, SinceReset, None, Commands
  <2>5. \A d \in SinceReset : d \in Int
    BY DEF SinceReset, ChannelTypeOK, Commands
  <2> QED BY <2>1, <2>2, <2>3, <2>4, <2>5 DEF ChannelTypeOK, None, Commands
<1>4. CASE PollDelivered
  <2>1. CASE poll.id # None /\ player
    <3>1. /\ poll.id \in Commands /\ poll.at = "answered" /\ poll' = NoPoll /\ lastSeen' = poll.id
          /\ dispatched' = Append(dispatched, poll.id)
          /\ UNCHANGED <<storeVars, player, reconnecting, connect, resetAt, clearedVars, boundVars>>
      BY <1>4, <2>1 DEF PollDelivered, ChannelTypeOK
    <3>2. /\ dispatched' \in Seq(Commands) /\ Len(dispatched') = Len(dispatched) + 1
          /\ \A i \in 1..Len(dispatched) : dispatched'[i] = dispatched[i]
          /\ dispatched'[Len(dispatched')] = poll.id
      BY <3>1 DEF ChannelTypeOK
    <3>3. \A i \in resetAt + 1..Len(dispatched) : dispatched[i] < poll.id
      BY <2>1, <3>1 DEF SinceReset
    <3>4. ChannelTypeOK' /\ NewestKept' /\ IDsQueued'
      BY <3>1, <3>2 DEF ChannelTypeOK, NewestKept, NoPoll, None, Commands
    <3>5. \A i \in resetAt' + 1..Len(dispatched') : dispatched'[i] <= lastSeen'
      BY <3>1, <3>2, <3>3 DEF ChannelTypeOK, Commands
    <3>6. InOrderUntilReset'
      <4> SUFFICES ASSUME NEW i \in resetAt + 1..Len(dispatched) + 1,
                          NEW j \in resetAt + 1..Len(dispatched) + 1, i < j
                   PROVE  dispatched'[i] < dispatched'[j]
        BY <3>1, <3>2 DEF InOrderUntilReset
      <4>1. resetAt \in Nat /\ Len(dispatched) \in Nat
        BY DEF ChannelTypeOK
      <4>2. i \in resetAt + 1..Len(dispatched) /\ dispatched'[i] = dispatched[i]
        BY <3>2, <4>1
      <4>3. CASE j = Len(dispatched) + 1
        BY <3>2, <3>3, <4>2, <4>3
      <4>4. CASE j # Len(dispatched) + 1
        <5>1. j \in resetAt + 1..Len(dispatched) /\ dispatched'[j] = dispatched[j]
          BY <3>2, <4>1, <4>4
        <5> QED BY <4>2, <5>1 DEF InOrderUntilReset
      <4> QED BY <4>3, <4>4
    <3>7. SeenIsLatest' /\ AskedFromLatest' /\ AnswerIsNewer'
      BY <3>1, <3>5 DEF SinceReset, NoPoll
    <3> QED BY <3>1, <3>4, <3>6, <3>7
  <2>2. CASE ~(poll.id # None /\ player)
    <3>1. poll' = NoPoll /\ UNCHANGED <<storeVars, lastSeen, player, reconnecting, connect,
                                         historyVars, boundVars>>
      BY <1>4, <2>2 DEF PollDelivered
    <3>2. ChannelTypeOK' /\ IDsQueued'
      BY <3>1 DEF ChannelTypeOK, NoPoll, None
    <3>3. NewestKept' /\ InOrderUntilReset' /\ SinceReset' = SinceReset
      BY <3>1 DEF NewestKept, SinceReset, InOrderUntilReset
    <3> QED BY <3>1, <3>2, <3>3 DEF NoPoll
  <2> QED BY <2>1, <2>2
<1>5. CASE PollFails
  BY <1>5 DEF PollFails, ChannelTypeOK, NewestKept, SinceReset, InOrderUntilReset, NoPoll, None,
     Commands
<1>6. CASE Register
  <2>1. /\ ForgetSeen
        /\ UNCHANGED <<commands, commandSeq, storeSeen, poll, connect, dispatched, clearedVars, restarts>>
        /\ player' = TRUE /\ reconnecting' = reconnecting + 1
        /\ registrations < MaxRegistrations /\ registrations' = registrations + 1
    BY <1>6 DEF Register
  <2>2. /\ SinceReset' = {} /\ InOrderUntilReset'
        /\ lastSeen' = None /\ resetAt' \in 0..Len(dispatched')
    BY <2>1, ForgettingIsSafe
  <2>3. ChannelTypeOK' /\ IDsQueued' /\ ReconnectsAsRegistered'
    BY <2>1, <2>2 DEF ChannelTypeOK, None
  <2> QED BY <2>1, <2>2, <2>3 DEF NewestKept
<1>7. CASE CaptureStopped
  BY <1>7 DEF CaptureStopped, ChannelTypeOK, NewestKept, SinceReset, InOrderUntilReset
<1>8. CASE Heartbeat
  BY <1>8 DEF Heartbeat, ChannelTypeOK, NewestKept, SinceReset, InOrderUntilReset
<1>9. CASE ConnectServed
  BY <1>9 DEF ConnectServed, Cleared, ChannelTypeOK, NewestKept, SinceReset, InOrderUntilReset, None, Commands
<1>10. CASE ConnectDelivered
  BY <1>10, ForgettingIsSafe DEF ConnectDelivered, ChannelTypeOK, NewestKept, None, Commands
<1>11. CASE ConnectFails
  BY <1>11 DEF ConnectFails, ChannelTypeOK, NewestKept, SinceReset, InOrderUntilReset
<1>12. CASE BackendRestarts
  BY <1>12 DEF BackendRestarts, Cleared, ChannelTypeOK, NewestKept, SinceReset, InOrderUntilReset, None,
     Commands
<1>13. CASE ResourceRestarts
  <2>1. /\ ForgetSeen
        /\ UNCHANGED <<commands, commandSeq, storeSeen, dispatched, clearedVars, registrations>>
        /\ player' = FALSE /\ poll' = NoPoll /\ reconnecting' = 0 /\ connect' = "idle"
        /\ restarts < MaxRestarts /\ restarts' = restarts + 1
    BY <1>13 DEF ResourceRestarts
  <2>2. /\ SinceReset' = {} /\ InOrderUntilReset'
        /\ lastSeen' = None /\ resetAt' \in 0..Len(dispatched')
    BY <2>1, ForgettingIsSafe
  <2>3. NoPoll \in [at: {"idle", "asked", "answered"}, id: Commands \cup {None}]
    BY DEF NoPoll
  <2>4. /\ reconnecting' \in 0..MaxRegistrations /\ restarts' \in 0..MaxRestarts
        /\ lastSeen' \in Commands \cup {None}
    BY <2>1, <2>2 DEF ChannelTypeOK
  <2>5. ChannelTypeOK'
    BY <2>1, <2>2, <2>3, <2>4 DEF ChannelTypeOK
  <2>6. IDsQueued' /\ ReconnectsAsRegistered'
    BY <2>1, <2>2 DEF ChannelTypeOK, NoPoll, None
  <2> QED BY <2>1, <2>2, <2>5, <2>6 DEF NewestKept, NoPoll
<1>14. CASE UNCHANGED channelVars
  BY <1>14 DEF channelVars, ChannelTypeOK, NewestKept, SinceReset, InOrderUntilReset
<1> QED
  BY <1>1, <1>2, <1>3, <1>4, <1>5, <1>6, <1>7, <1>8, <1>9, <1>10, <1>11, <1>12, <1>13, <1>14
  DEF ChannelNext

(* The invariant holds in every reachable state.                           *)
LEMMA ChannelInvCorrect == ChannelSpec => []ChannelInv
BY ChannelInvInit, ChannelInvNext, PTL DEF ChannelSpec

-----------------------------------------------------------------------------
(* What the store keeps was queued after the last clear, and an answer     *)
(* with an older command was under way at the clear: nothing was passed on *)
(* since.                                                                  *)
KeptSinceClear == clearedTo + Len(commands) <= commandSeq
OldAnswerIsFirst ==
  poll.at = "answered" /\ poll.id # None /\ poll.id <= clearedTo => Len(dispatched) = clearedAt

ClearInv == KeptSinceClear /\ OldAnswerIsFirst /\ NothingFromBeforeTheClear

(* Every step keeps this.                                                  *)
LEMMA ClearInvNext ==
  ASSUME ChannelInv, ClearInv, [ChannelNext]_channelVars
  PROVE  ClearInv'
<1> USE ChannelAssumption
    DEF ClearInv, KeptSinceClear, OldAnswerIsFirst, NothingFromBeforeTheClear,
        storeVars, historyVars, clearedVars, boundVars
<1>0. /\ commands \in Seq(Commands) /\ dispatched \in Seq(Commands)
      /\ Len(commands) \in Nat /\ Len(dispatched) \in Nat /\ commandSeq \in Nat
      /\ clearedTo \in Nat /\ clearedAt \in 0..Len(dispatched) /\ ChannelTypeOK /\ NewestKept
  BY DEF ChannelInv, ChannelTypeOK
<1>1. ASSUME UNCHANGED <<commands, commandSeq, dispatched, clearedVars>>,
             poll' = poll \/ poll'.at # "answered"
      PROVE  ClearInv'
  BY <1>1
<1>2. CASE \/ PollBegin \/ PollFails \/ Register \/ CaptureStopped \/ Heartbeat
           \/ ConnectDelivered \/ ConnectFails \/ ResourceRestarts
  BY <1>1, <1>2 DEF PollBegin, PollFails, Register, CaptureStopped, Heartbeat,
     ConnectDelivered, ConnectFails, ResourceRestarts, NoPoll
<1>3. CASE Enqueue
  <2> DEFINE q == Append(commands, commandSeq')
  <2>1. /\ commandSeq' = commandSeq + 1 /\ commandSeq' \in Commands
        /\ commands' = Kept(q) /\ UNCHANGED <<poll, historyVars>>
    BY <1>0, <1>3 DEF Enqueue, ChannelTypeOK, Commands
  <2>2. Len(q) = Len(commands) + 1
    BY <1>0, <2>1
  <2> HIDE DEF q
  <2>3. Len(Kept(q)) <= Len(q) /\ Len(Kept(q)) \in Nat
    <3>1. q \in Seq(Commands)
      BY <1>0, <2>1 DEF q
    <3> QED BY <2>2, <3>1, KeptIsShorter
  <2> QED BY <1>0, <2>1, <2>2, <2>3
<1>4. CASE PollServed
  <2>1. poll.id \in 0..commandSeq /\ Len(commands) <= commandSeq
    BY <1>0 DEF ChannelInv, IDsQueued, ChannelTypeOK, Commands, None
  <2> DEFINE c == NextCommand(poll.id)
  <2>2. c = None \/ (c \in Nat /\ c > commandSeq - Len(commands))
    BY <1>0, <2>1, NextIsNewer DEF Commands
  <2>3. /\ poll' = [at |-> "answered", id |-> c]
        /\ UNCHANGED <<commands, commandSeq, historyVars>>
    BY <1>4 DEF PollServed
  <2> HIDE DEF c
  <2> QED BY <1>0, <2>2, <2>3
<1>5. CASE PollDelivered
  <2>1. CASE poll.id # None /\ player
    <3>1. /\ poll.id \in Commands /\ poll.at = "answered" /\ poll' = NoPoll
          /\ dispatched' = Append(dispatched, poll.id)
          /\ UNCHANGED <<commands, commandSeq, clearedVars>>
      BY <1>0, <1>5, <2>1 DEF PollDelivered, ChannelTypeOK
    <3>2. /\ Len(dispatched') = Len(dispatched) + 1
          /\ \A i \in 1..Len(dispatched) : dispatched'[i] = dispatched[i]
          /\ dispatched'[Len(dispatched')] = poll.id
      BY <1>0, <3>1
    <3>3. ASSUME NEW i \in clearedAt + 2..Len(dispatched') PROVE dispatched'[i] > clearedTo
      <4>1. CASE i = Len(dispatched')
        <5>1. ~(poll.id <= clearedTo)
          BY <1>0, <2>1, <3>1, <3>2, <4>1
        <5> QED BY <1>0, <3>1, <3>2, <4>1, <5>1 DEF Commands
      <4>2. CASE i # Len(dispatched')
        <5>1. i \in clearedAt + 2..Len(dispatched) /\ i \in 1..Len(dispatched)
          BY <1>0, <3>2, <4>2
        <5> QED BY <3>2, <5>1
      <4> QED BY <4>1, <4>2
    <3> QED BY <3>1, <3>3 DEF NoPoll
  <2>2. CASE ~(poll.id # None /\ player)
    BY <1>1, <1>5, <2>2 DEF PollDelivered, NoPoll
  <2> QED BY <2>1, <2>2
<1>6. CASE ConnectServed \/ BackendRestarts
  <2>1. /\ commands' = <<>> /\ clearedTo' = commandSeq /\ clearedAt' = Len(dispatched)
        /\ UNCHANGED <<commandSeq, dispatched, poll>>
    BY <1>6 DEF ConnectServed, BackendRestarts, Cleared
  <2> QED BY <1>0, <2>1
<1>7. CASE UNCHANGED channelVars
  BY <1>1, <1>7 DEF channelVars
<1> QED BY <1>2, <1>3, <1>4, <1>5, <1>6, <1>7 DEF ChannelNext

(* Once the queue was cleared, at most the answer under way passes on a    *)
(* command queued before (ResetConsumerSession, pollControlCommands).      *)
THEOREM SessionsStartFresh == ChannelSpec => []NothingFromBeforeTheClear
<1>1. ChannelInit => ClearInv
  BY DEF ChannelInit, ClearInv, KeptSinceClear, OldAnswerIsFirst, NothingFromBeforeTheClear,
     NoPoll
<1>2. ChannelInv /\ ClearInv /\ [ChannelNext]_channelVars => ClearInv'
  BY ClearInvNext
<1>3. ClearInv => NothingFromBeforeTheClear
  BY DEF ClearInv
<1> QED BY <1>1, <1>2, <1>3, ChannelInvCorrect, PTL DEF ChannelSpec

-----------------------------------------------------------------------------
(* Until lastSeen is reset, commands reach the client in the order they    *)
(* were queued and none twice, for any history, loss and restart           *)
(* (nextCommandIndexLocked, pollControlCommands).                          *)
THEOREM CommandsStayInOrder == ChannelSpec => []InOrderUntilReset
<1>1. ChannelInv => InOrderUntilReset
  BY DEF ChannelInv
<1> QED BY <1>1, ChannelInvCorrect, PTL

(* What the consumer passes on is in order, and what a cleared queue held  *)
(* stays behind but for the answer under way (pollControlCommands,         *)
(* ResetConsumerSession).                                                  *)
THEOREM OrderIsKept == ChannelSpec => []DispatchedInOrder
<1>1. InOrderUntilReset /\ NothingFromBeforeTheClear => DispatchedInOrder
  BY DEF DispatchedInOrder
<1> QED BY <1>1, CommandsStayInOrder, SessionsStartFresh, PTL

(* The queue, both sides' IDs, the requests and the history keep their     *)
(* types; the store keeps the newest commands without a gap (Enqueue).     *)
THEOREM ChannelTypeCorrect == ChannelSpec => [](ChannelTypeOK /\ NewestKept)
<1>1. ChannelInv => ChannelTypeOK /\ NewestKept
  BY DEF ChannelInv
<1> QED BY <1>1, ChannelInvCorrect, PTL
=============================================================================
