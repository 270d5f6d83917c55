---------------------------- MODULE MavlinkStream ----------------------------
(***************************************************************************)
(* The queue of outgoing MAVLink messages (DataObject/MavlinkStream.cpp):  *)
(* modules add messages from their own threads, _Mavlink::updateW takes    *)
(* what is newer than its cursor.  Unlike DataObjStream the queue stamps a *)
(* message itself, under the lock, one past the last stamp when the clock  *)
(* has not moved; add, getEncodedMsgs and clearMsgQueue are each one       *)
(* critical section.  Messages are numbered in the order they are queued.  *)
(***************************************************************************)
EXTENDS Integers, FiniteSets, SequencesExt, Rings

CONSTANTS
  Readers,       \* the _Mavlink modules that send this stream
  Capacity,      \* m_nMsgQueue
  Clock,         \* what getTns() may read
  MaxMessages,   \* bound: messages queued
  MaxClears      \* bound: calls of clearMsgQueue()

ASSUME QueueAssumption ==
  /\ Capacity \in Nat \ {0}
  /\ Clock \subseteq Nat
  /\ MaxMessages \in Nat
  /\ MaxClears \in Nat

VARIABLES
  vMsgQueue,     \* m_vMsgQueue, indexed from 0
  iMqSet,        \* m_iMqSet, the next slot to write
  tLastQueued,   \* m_tLastQueued
  now,           \* the clock, which never goes back
  cursor,        \* m_tLastMavStreamIn of each reader
  out,           \* vMsg of each reader's last getEncodedMsgs
  log,           \* history: the messages queued, in order
  base,          \* history: length of the log at the last clear
  nClears        \* bound counter

vars == <<vMsgQueue, iMqSet, tLastQueued, now, cursor, out, log, base, nClears>>

Slots == 0 .. Capacity - 1
Empty == [id |-> 0, tStamp |-> 0]
Messages == [id : 1 .. MaxMessages, tStamp : Nat \ {0}]

Init ==
  /\ vMsgQueue = [i \in Slots |-> Empty]
  /\ iMqSet = 0
  /\ tLastQueued = 0
  /\ now = 0
  /\ cursor = [r \in Readers |-> 0]
  /\ out = [r \in Readers |-> <<>>]
  /\ log = <<>>
  /\ base = 0
  /\ nClears = 0

-----------------------------------------------------------------------------
(* Mutants: plausible mistakes in MavlinkStream *)

\* The stamp is the clock's, also when it has not moved.
StampOfClock(t) == IF t > tLastQueued THEN t ELSE tLastQueued

\* The ring is walked from its first slot.
ArrivalOrderFromZero == [n \in 1 .. Capacity |-> vMsgQueue[n - 1]]

\* A clear restarts the stamps as well.
ClearMsgQueueForgetsStamp ==
  /\ nClears < MaxClears
  /\ nClears' = nClears + 1
  /\ vMsgQueue' = [i \in Slots |-> Empty]
  /\ iMqSet' = 0
  /\ tLastQueued' = 0
  /\ base' = Len(log)
  /\ UNCHANGED <<now, cursor, out, log>>

\* The stamp is the last moment before the clock's.
StampBefore(t) == IF t > tLastQueued THEN t - 1 ELSE tLastQueued

-----------------------------------------------------------------------------
(* The queue *)

\* std::max(getTns(), m_tLastQueued + 1)
StampAt(t) == IF t > tLastQueued THEN t ELSE tLastQueued + 1

\* The slot that follows the last one is the first one.
Slot(i) == IF i < Capacity THEN i ELSE i - Capacity

\* add(): encode, stamp and queue under the unique lock.
Add ==
  /\ Len(log) < MaxMessages
  /\ \E t \in Clock :
       LET queued == [id |-> Len(log) + 1, tStamp |-> StampAt(t)]
       IN /\ t >= now
          /\ now' = t
          /\ vMsgQueue' = [vMsgQueue EXCEPT ![iMqSet] = queued]
          /\ tLastQueued' = queued.tStamp
          /\ log' = Append(log, queued)
  /\ iMqSet' = Slot(iMqSet + 1)
  /\ UNCHANGED <<cursor, out, base, nClears>>

\* The ring from its oldest slot, as getEncodedMsgs() walks it.
ArrivalOrder == [n \in 1 .. Capacity |-> vMsgQueue[Slot(iMqSet + n - 1)]]

\* updateW(): getEncodedMsgs() under the shared lock, which returns at once
\* when nothing was queued since; the cursor moves to the last message taken.
GetEncodedMsgs(r) ==
  LET new == IF tLastQueued <= cursor[r] THEN {} ELSE NewerPlaces(ArrivalOrder, cursor[r])
  IN /\ out' = [out EXCEPT ![r] = Taken(ArrivalOrder, new)]
     /\ cursor' = [cursor EXCEPT ![r] =
                     IF new = {} THEN @ ELSE ArrivalOrder[Max(new)].tStamp]
     /\ UNCHANGED <<vMsgQueue, iMqSet, tLastQueued, now, log, base, nClears>>

\* clearMsgQueue() keeps m_tLastQueued, so that cursors stay meaningful.
ClearMsgQueue ==
  /\ nClears < MaxClears
  /\ nClears' = nClears + 1
  /\ vMsgQueue' = [i \in Slots |-> Empty]
  /\ iMqSet' = 0
  /\ base' = Len(log)
  /\ UNCHANGED <<tLastQueued, now, cursor, out, log>>

Next ==
  \/ Add
  \/ \E r \in Readers : GetEncodedMsgs(r)
  \/ ClearMsgQueue

Spec == Init /\ [][Next]_vars

-----------------------------------------------------------------------------
(* Properties *)

\* The ring, the stamps and the cursors hold values of their types.
TypeOK ==
  /\ vMsgQueue \in [Slots -> Messages \cup {Empty}]
  /\ iMqSet \in Slots
  /\ tLastQueued \in Nat
  /\ now \in Nat
  /\ cursor \in [Readers -> Nat]
  /\ out \in [Readers -> Seq(Messages)]
  /\ log \in Seq(Messages)
  /\ base \in 0 .. Len(log)
  /\ nClears \in Nat

\* Stamps identify messages and order them: each message is stamped after every
\* message queued before it, cleared or not, and no cursor is ahead of the last
\* stamp, so that whatever is queued next will be new to every reader.
StampsIncrease ==
  /\ \A i, j \in 1 .. Len(log) : i < j => log[i].tStamp < log[j].tStamp
  /\ \A i \in 1 .. Len(log) : log[i].tStamp <= tLastQueued
  /\ \A r \in Readers : cursor[r] <= tLastQueued

\* The ring is the end of the log: walked from m_iMqSet it holds the newest
\* messages since the last clear, as many as fit, oldest first, however often
\* the index has wrapped and wherever in the ring it was cleared.
RingIsTheEndOfTheLog ==
  \A k \in 1 .. Capacity :
    ArrivalOrder[k] = IF Len(log) - Capacity + k <= base THEN Empty
                      ELSE log[Len(log) - Capacity + k]

Log == INSTANCE PacketLog WITH
         pos <- [r \in Readers |-> Position(log, cursor[r])]

\* The queue implements the packet log for any number of senders: each reader
\* gets every retained message it was not given, in the order queued, once.
ImplementsPacketLog == Log!Spec
=============================================================================
