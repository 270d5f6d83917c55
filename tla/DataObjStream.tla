---------------------------- MODULE DataObjStream ----------------------------
(***************************************************************************)
(* The bounded stream that connects modules (DataObjStream and its         *)
(* subclasses BytePacketStream, CANframeStream, ...): a ring written under *)
(* a unique lock and read under a shared lock, whose readers keep the time *)
(* stamp of the last element they consumed as their cursor.                *)
(*                                                                         *)
(* Producers stamp elements BEFORE add takes the lock.  A Watermarked      *)
(* producer (_USR_CANET::readFrame, _SocketCAN::readFrame) never repeats   *)
(* or lowers its stamps; the others use the clock as it is                 *)
(* (_JSONbase::sendJson and every transport).                              *)
(***************************************************************************)
EXTENDS Integers, FiniteSets, SequencesExt, Rings

CONSTANTS
  Producers, Readers,
  Capacity,       \* m_vElement.size(), set by clear()
  Watermarked,    \* producers stamp max(clock, last + 1)
  ClockSteps,     \* how far the clock may move between two readings
  MaxBatch,       \* bound: elements in one add()
  MaxElements,    \* bound: elements ever produced
  MaxClears,      \* bound: calls of clear()
  NoOne           \* the lock is free

ASSUME StreamAssumption ==
  /\ Capacity \in Nat \ {0}
  /\ Watermarked \in BOOLEAN
  /\ ClockSteps \subseteq Nat
  /\ NoOne \notin Producers
  /\ MaxBatch \in Nat /\ MaxElements \in Nat /\ MaxClears \in Nat

VARIABLES
  vElement,   \* m_vElement, indexed from 0
  iBset,      \* m_iBset, the next slot to write
  lockedBy,   \* the producer inside add(), which holds m_sMutex
  iNext,      \* the element of its batch that add() copies next
  clock,      \* getTns() as last read
  batch,      \* for each producer, the elements it has stamped
  tLast,      \* for each producer, its last stamp
  nMade,      \* elements produced, which also names them
  cursor,     \* for each reader, m_tLastBpStreamIn
  out,        \* for each reader, the elements of its last get()
  log,        \* history: elements added, in arrival order
  base,       \* history: length of the log at the last clear()
  nClears     \* bound counter

producerVars == <<clock, batch, tLast, nMade>>
readerVars == <<cursor, out>>
vars == <<vElement, iBset, lockedBy, iNext, producerVars, readerVars, log,
          base, nClears>>

Slots == 0 .. Capacity - 1
Empty == [id |-> 0, tStamp |-> 0]
Elements == [id : 1 .. MaxElements, tStamp : Nat]

Init ==
  /\ vElement = [i \in Slots |-> Empty]
  /\ iBset = 0
  /\ lockedBy = NoOne
  /\ iNext = 1
  /\ clock = 0
  /\ batch = [p \in Producers |-> <<>>]
  /\ tLast = [p \in Producers |-> 0]
  /\ nMade = 0
  /\ cursor = [r \in Readers |-> 0]
  /\ out = [r \in Readers |-> <<>>]
  /\ log = <<>>
  /\ base = 0
  /\ nClears = 0

-----------------------------------------------------------------------------
(* Mutants: plausible mistakes in DataObjStream and its producers *)

\* The ring wraps one slot early.
AddElementWrapsEarly(p) ==
  /\ lockedBy = p
  /\ iNext <= Len(batch[p])
  /\ vElement' = [vElement EXCEPT ![iBset] = batch[p][iNext]]
  /\ iBset' = IF iBset + 2 >= Capacity THEN 0 ELSE iBset + 1
  /\ iNext' = iNext + 1
  /\ UNCHANGED <<lockedBy, producerVars, readerVars, log, base, nClears>>

\* The ring does not wrap.
SlotNeverWraps(i) == i

\* The watermark lets a stamp repeat while the clock stands still.
StampRepeats(p) ==
  /\ lockedBy # p
  /\ Len(batch[p]) < MaxBatch
  /\ nMade < MaxElements
  /\ \E d \in ClockSteps :
       LET now == clock + d
           t == Max({now, tLast[p], 1})
       IN /\ clock' = now
          /\ tLast' = [tLast EXCEPT ![p] = t]
          /\ batch' = [batch EXCEPT ![p] =
                         Append(@, [id |-> nMade + 1, tStamp |-> t])]
  /\ nMade' = nMade + 1
  /\ UNCHANGED <<vElement, iBset, lockedBy, iNext, readerVars, log, base,
                 nClears>>

-----------------------------------------------------------------------------
(* Producers, readers and clear() *)

\* A producer reads the clock and stamps one more element of its next batch.
Stamp(p) ==
  /\ lockedBy # p
  /\ Len(batch[p]) < MaxBatch
  /\ nMade < MaxElements
  /\ \E d \in ClockSteps :
       LET now == clock + d
           t == IF Watermarked THEN Max({now, tLast[p] + 1})
                               ELSE Max({now, 1})
       IN /\ clock' = now
          /\ tLast' = [tLast EXCEPT ![p] = t]
          /\ batch' = [batch EXCEPT ![p] =
                         Append(@, [id |-> nMade + 1, tStamp |-> t])]
  /\ nMade' = nMade + 1
  /\ UNCHANGED <<vElement, iBset, lockedBy, iNext, readerVars, log, base,
                 nClears>>

\* The slot that follows the last one is the first one.
Slot(i) == IF i < Capacity THEN i ELSE i - Capacity

\* add(): take the unique lock, copy the elements one by one, release it.
AddLock(p) ==
  /\ batch[p] # <<>>
  /\ lockedBy = NoOne
  /\ lockedBy' = p
  /\ iNext' = 1
  /\ UNCHANGED <<vElement, iBset, producerVars, readerVars, log, base, nClears>>

AddElement(p) ==
  /\ lockedBy = p
  /\ iNext <= Len(batch[p])
  /\ vElement' = [vElement EXCEPT ![iBset] = batch[p][iNext]]
  /\ iBset' = Slot(iBset + 1)
  /\ iNext' = iNext + 1
  /\ UNCHANGED <<lockedBy, producerVars, readerVars, log, base, nClears>>

AddUnlock(p) ==
  /\ lockedBy = p
  /\ iNext > Len(batch[p])
  /\ lockedBy' = NoOne
  /\ log' = log \o batch[p]
  /\ batch' = [batch EXCEPT ![p] = <<>>]
  /\ UNCHANGED <<vElement, iBset, iNext, clock, tLast, nMade, readerVars, base,
                 nClears>>

\* The ring from its oldest slot, as get() walks it.
ArrivalOrder == [n \in 1 .. Capacity |-> vElement[Slot(iBset + n - 1)]]

\* get(): a reader takes what is newer than its cursor and consumes it, element by
\* element, before it asks again; its copy is private meanwhile.
Get(r) ==
  /\ lockedBy = NoOne
  /\ LET new == NewerPlaces(ArrivalOrder, cursor[r]) IN
       /\ out' = [out EXCEPT ![r] = Taken(ArrivalOrder, new)]
       /\ cursor' = [cursor EXCEPT ![r] =
                       IF new = {} THEN @ ELSE ArrivalOrder[Max(new)].tStamp]
  /\ UNCHANGED <<vElement, iBset, lockedBy, iNext, producerVars, log, base,
                 nClears>>

\* clear(): every slot is emptied and written from the start again.
Clear ==
  /\ lockedBy = NoOne
  /\ nClears < MaxClears
  /\ nClears' = nClears + 1
  /\ vElement' = [i \in Slots |-> Empty]
  /\ iBset' = 0
  /\ base' = Len(log)
  /\ UNCHANGED <<lockedBy, iNext, producerVars, readerVars, log>>

Next ==
  \/ \E p \in Producers : Stamp(p) \/ AddLock(p) \/ AddElement(p) \/ AddUnlock(p)
  \/ \E r \in Readers : Get(r)
  \/ Clear

Spec == Init /\ [][Next]_vars

-----------------------------------------------------------------------------
(* Properties *)

\* The ring, the indices and the cursors hold values of their types.
TypeOK ==
  /\ vElement \in [Slots -> Elements \cup {Empty}]
  /\ iBset \in Slots
  /\ lockedBy \in Producers \cup {NoOne}
  /\ iNext \in 1 .. MaxBatch + 1
  /\ clock \in Nat
  /\ \A p \in Producers : batch[p] \in Seq(Elements)
  /\ tLast \in [Producers -> Nat]
  /\ nMade \in 0 .. MaxElements
  /\ cursor \in [Readers -> Nat]
  /\ \A r \in Readers : out[r] \in Seq(Elements)
  /\ log \in Seq(Elements)
  /\ base \in 0 .. Len(log)
  /\ nClears \in 0 .. MaxClears

\* Between adds the ring is the end of the log: walked from m_iBset it holds
\* the newest Capacity elements since the last clear, oldest first, however
\* often the index has wrapped and wherever in the ring it was cleared.
RingIsTheEndOfTheLog ==
  lockedBy = NoOne =>
    \A k \in 1 .. Capacity :
      ArrivalOrder[k] = IF Len(log) - Capacity + k <= base THEN Empty
                        ELSE log[Len(log) - Capacity + k]

Log == INSTANCE PacketLog WITH
         pos <- [r \in Readers |-> Position(log, cursor[r])]

\* With one watermarked producer the ring and its cursors implement the log: a
\* reader gets every retained element it was not given yet, in order, once,
\* whatever the clock does, across overruns and clears.
ImplementsPacketLog == Log!Spec

\* Nothing is skipped: an element that arrives is never already behind the
\* cursor of a reader, which has not been given it and never would be.
ArrivalsAreAhead ==
  [][\A r \in Readers : \A i \in Len(log) + 1 .. Len(log') :
        log'[i].tStamp > cursor[r]]_vars
=============================================================================
