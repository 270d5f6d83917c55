------------------------- MODULE DataObjStreamProofs -------------------------
(***************************************************************************)
(* Proofs about DataObjStream, for every capacity, number of producers and *)
(* readers, clock, batch size, and any number of adds and clears.          *)
(***************************************************************************)
EXTENDS DataObjStream, FiniteSetsExt, SequenceTheorems, FiniteSetTheorems, TLAPS

-----------------------------------------------------------------------------
(* Lemmas about rings *)

\* The lemmas of MavlinkStreamProofs that are about rings mention nothing of its
\* state: they hold of this stream, whatever its variables stand for there.
Ring == INSTANCE MavlinkStreamProofs WITH
          vMsgQueue <- vElement, iMqSet <- iBset, tLastQueued <- 0, now <- clock,
          Clock <- ClockSteps, MaxMessages <- MaxElements

\* (The prover tells the operators they are about from those of this module.)
LEMMA SameOperators ==
  /\ \A S : Max(S) = Ring!Max(S)
  /\ \A s, t : Position(s, t) = Ring!Position(s, t)
  /\ \A ring, P : Taken(ring, P) = Ring!Taken(ring, P)
  /\ \A ring, t : NewerPlaces(ring, t) = Ring!NewerPlaces(ring, t)
  /\ \A s : Stamped(s) <=> Ring!Stamped(s)
  /\ \A ring, C, s, b, e : RingIsEnd(ring, C, s, b, e) <=> Ring!RingIsEnd(ring, C, s, b, e)
  /\ \A s, t, b, C : FirstRead(s, t, b, C) = Ring!FirstRead(s, t, b, C)
<1>1. \A S : Cardinality(S) = Ring!Cardinality(S)
  BY DEF Cardinality, Ring!Cardinality
<1>2. \A S : Max(S) = Ring!Max(S)
  BY DEF Max, Ring!Max
<1>3. \A s, t : Position(s, t) = Ring!Position(s, t)
  BY <1>1 DEF Position, Ring!Position
<1>4. \A ring, P : Taken(ring, P) = Ring!Taken(ring, P)
  BY DEF Taken, Ring!Taken, Cardinality, Ring!Cardinality
<1>5. \A ring, t : NewerPlaces(ring, t) = Ring!NewerPlaces(ring, t)
  BY DEF NewerPlaces, Ring!NewerPlaces
<1>6. \A s : Stamped(s) <=> Ring!Stamped(s)
  BY DEF Stamped, Ring!Stamped
<1>7. \A ring, C, s, b, e : RingIsEnd(ring, C, s, b, e) <=> Ring!RingIsEnd(ring, C, s, b, e)
  BY DEF RingIsEnd, Ring!RingIsEnd
<1>8. \A s, t, b, C : FirstRead(s, t, b, C) = Ring!FirstRead(s, t, b, C)
  BY <1>2, <1>3 DEF FirstRead, Ring!FirstRead
<1> QED BY <1>2, <1>3, <1>4, <1>5, <1>6, <1>7, <1>8

\* Max is the greatest element of a nonempty set of places in a ring.
LEMMA GreatestElement ==
  ASSUME NEW n \in Nat, NEW S, S \subseteq 1 .. n, S # {}
  PROVE  /\ Max(S) \in S
         /\ \A s \in S : s <= Max(S)
BY StreamAssumption, SameOperators, Ring!GreatestElement

\* A cursor cuts a log whose stamps increase in two: the elements that are not
\* newer than it, which are as many as its position tells, and the rest.
LEMMA CursorCuts ==
  ASSUME NEW S, NEW s \in Seq(S),
         Stamped(s), NEW t \in Nat
  PROVE  /\ Position(s, t) \in 0 .. Len(s)
         /\ \A i \in 1 .. Len(s) : s[i].tStamp <= t <=> i <= Position(s, t)
BY StreamAssumption, SameOperators, Ring!CursorCuts

\* A stamp that cuts the log after q is at position q.
LEMMA CutIs ==
  ASSUME NEW S, NEW s \in Seq(S), NEW t, NEW q \in 0 .. Len(s),
         \A i \in 1 .. Len(s) : s[i].tStamp <= t <=> i <= q
  PROVE  Position(s, t) = q
BY StreamAssumption, SameOperators, Ring!CutIs

\* A log that grows keeps what it had, and a cursor that is behind all that is
\* new keeps its position.
LEMMA LongerLog ==
  ASSUME NEW S, NEW s \in Seq(S), NEW u \in Seq(S), Len(u) >= Len(s),
         \A i \in 1 .. Len(s) : u[i] = s[i]
  PROVE  /\ SubSeq(u, 1, Len(s)) = s
         /\ \A t : (\A i \in Len(s) + 1 .. Len(u) : ~(u[i].tStamp <= t))
                   => Position(u, t) = Position(s, t)
BY StreamAssumption, SameOperators, Ring!LongerLog

\* What is taken from a ring is of the type of what is there.
LEMMA TakenType ==
  ASSUME NEW C \in Nat, NEW ring, NEW P, P \subseteq 1 .. C,
         NEW S, \A n \in P : ring[n] \in S
  PROVE  Taken(ring, P) \in Seq(S)
BY StreamAssumption, SameOperators, Ring!TakenType

\* A read of a ring that is the end of a log is a read of the log: it takes what
\* follows the reader's position, the last clear and what was overwritten, and
\* the last element it takes is the last one of the log.
LEMMA ReadOfRing ==
  ASSUME NEW C \in Nat \ {0}, NEW S, NEW s \in Seq(S), Stamped(s),
         NEW b \in 0 .. Len(s), NEW e, e.tStamp = 0,
         NEW ring, RingIsEnd(ring, C, s, b, e), NEW t \in Nat
  PROVE  /\ FirstRead(s, t, b, C) \in Position(s, t) .. Len(s)
         /\ Taken(ring, NewerPlaces(ring, t)) =
              SubSeq(s, FirstRead(s, t, b, C) + 1, Len(s))
         /\ FirstRead(s, t, b, C) = Len(s) => NewerPlaces(ring, t) = {}
         /\ FirstRead(s, t, b, C) < Len(s) =>
              /\ NewerPlaces(ring, t) # {}
              /\ ring[Max(NewerPlaces(ring, t))] = s[Len(s)]
<1>1. Ring!Stamped(s) /\ Ring!RingIsEnd(ring, C, s, b, e)
  BY SameOperators
<1>2. /\ Ring!FirstRead(s, t, b, C) \in Ring!Position(s, t) .. Len(s)
      /\ Ring!Taken(ring, Ring!NewerPlaces(ring, t)) =
           SubSeq(s, Ring!FirstRead(s, t, b, C) + 1, Len(s))
      /\ Ring!FirstRead(s, t, b, C) = Len(s) => Ring!NewerPlaces(ring, t) = {}
      /\ Ring!FirstRead(s, t, b, C) < Len(s) =>
           /\ Ring!NewerPlaces(ring, t) # {}
           /\ ring[Ring!Max(Ring!NewerPlaces(ring, t))] = s[Len(s)]
  BY <1>1, StreamAssumption, Ring!ReadOfRing
<1> QED BY <1>2, SameOperators

-----------------------------------------------------------------------------
(* The inductive invariant *)

\* The types the argument needs; what a reader has been handed does not matter.
RingType ==
  /\ vElement = [i \in Slots |-> vElement[i]]
  /\ iBset \in Slots
  /\ lockedBy \in Producers \cup {NoOne}
  /\ clock \in Nat
  /\ tLast \in [Producers -> Nat]
  /\ nMade \in 0 .. MaxElements
  /\ batch \in [Producers -> Seq(Elements)]
  /\ log \in Seq(Elements)
  /\ base \in 0 .. Len(log)
  /\ lockedBy # NoOne => iNext \in 1 .. Len(batch[lockedBy]) + 1

\* The log together with what the add that is under way has copied already.
Copied == IF lockedBy = NoOne THEN 0 ELSE iNext - 1
Reached == Len(log) + Copied
Entry(i) == IF i <= Len(log) THEN log[i] ELSE batch[lockedBy][i - Len(log)]

\* The ring is the end of that longer log at every moment of an add; between
\* two adds this is RingIsTheEndOfTheLog.
RingInv ==
  \A k \in 1 .. Capacity :
    ArrivalOrder[k] = IF Reached - Capacity + k <= base THEN Empty
                      ELSE Entry(Reached - Capacity + k)

IInv == RingType /\ RingInv

\* Two readings of the clock have a greater one.
LEMMA GreaterOfTwo ==
  ASSUME NEW a \in Nat, NEW b \in Nat
  PROVE  Max({a, b}) \in Nat /\ Max({a, b}) >= a /\ Max({a, b}) >= b
<1>1. \E m \in {a, b} : \A x \in {a, b} : m >= x
  <2>1. CASE a >= b
    BY <2>1
  <2>2. CASE b >= a
    BY <2>2
  <2> QED BY <2>1, <2>2
<1> QED BY <1>1 DEF Max

LEMMA InitIInv == Init => IInv
<1> SUFFICES ASSUME Init PROVE IInv
  OBVIOUS
<1> USE StreamAssumption DEF Init
<1>1. RingType
  BY DEF RingType, Slots
<1>2. RingInv
  <2>1. ASSUME NEW k \in 1 .. Capacity
        PROVE  Slot(iBset + k - 1) \in Slots
    BY DEF Slot, Slots
  <2> QED BY <2>1 DEF RingInv, ArrivalOrder, Reached, Copied
<1> QED BY <1>1, <1>2 DEF IInv

\* A producer that is not inside add() makes its batch longer.
LEMMA StampStep ==
  ASSUME IInv, NEW p \in Producers, Stamp(p)
  PROVE  IInv'
<1> USE StreamAssumption
<1> DEFINE Stamps(d) == {Max({clock + d, tLast[p] + 1}), Max({clock + d, 1})}
<1>0. PICK d \in ClockSteps : \E t \in Stamps(d) :
        /\ clock' = clock + d
        /\ tLast' = [tLast EXCEPT ![p] = t]
        /\ batch' = [batch EXCEPT ![p] =
                       Append(@, [id |-> nMade + 1, tStamp |-> t])]
  BY DEF Stamp
<1>1. PICK t \in Stamps(d) :
        /\ clock' = clock + d
        /\ tLast' = [tLast EXCEPT ![p] = t]
        /\ batch' = [batch EXCEPT ![p] =
                       Append(@, [id |-> nMade + 1, tStamp |-> t])]
  BY <1>0
<1>2. /\ nMade' = nMade + 1 /\ nMade < MaxElements /\ lockedBy # p
      /\ UNCHANGED <<vElement, iBset, lockedBy, iNext, log, base>>
  BY DEF Stamp
<1>3. t \in Nat /\ clock' \in Nat
  <2>1. clock + d \in Nat /\ tLast[p] + 1 \in Nat
    BY DEF IInv, RingType
  <2> QED BY <1>1, <2>1, GreaterOfTwo
<1>4. [id |-> nMade + 1, tStamp |-> t] \in Elements
  BY <1>2, <1>3 DEF Elements, IInv, RingType
<1>5. Append(batch[p], [id |-> nMade + 1, tStamp |-> t]) \in Seq(Elements)
  BY <1>4 DEF IInv, RingType
<1>6. lockedBy # NoOne => batch'[lockedBy] = batch[lockedBy]
  BY <1>1, <1>2 DEF IInv, RingType
<1>7. RingType'
  <2>1. batch' \in [Producers -> Seq(Elements)]
    BY <1>1, <1>5 DEF IInv, RingType
  <2>2. tLast' \in [Producers -> Nat] /\ nMade' \in 0 .. MaxElements
    BY <1>1, <1>2, <1>3 DEF IInv, RingType
  <2>3. lockedBy' # NoOne => iNext' \in 1 .. Len(batch'[lockedBy']) + 1
    BY <1>2, <1>6 DEF IInv, RingType
  <2> QED BY <1>2, <1>3, <2>1, <2>2, <2>3 DEF IInv, RingType
<1>8. RingInv'
  <2>1. ASSUME NEW k \in 1 .. Capacity
        PROVE  ArrivalOrder'[k] = IF Reached' - Capacity + k <= base' THEN Empty
                                  ELSE Entry(Reached - Capacity + k)'
    <3>1. /\ ArrivalOrder' = ArrivalOrder /\ Reached' = Reached /\ base' = base
      BY <1>2 DEF ArrivalOrder, Reached, Copied
    <3>2. CASE lockedBy # NoOne
      <4>1. Entry(Reached - Capacity + k)' = Entry(Reached - Capacity + k)
        BY <1>2, <1>6, <3>1, <3>2 DEF Entry
      <4> QED BY <3>1, <4>1 DEF IInv, RingInv
    <3>3. CASE lockedBy = NoOne
      <4>1. Reached - Capacity + k <= Len(log)
        BY <3>3 DEF Reached, Copied, IInv, RingType
      <4>2. Entry(Reached - Capacity + k)' = Entry(Reached - Capacity + k)
        BY <1>2, <3>1, <4>1 DEF Entry
      <4> QED BY <3>1, <4>2 DEF IInv, RingInv
    <3> QED BY <3>2, <3>3
  <2> QED BY <2>1 DEF RingInv
<1> QED BY <1>7, <1>8 DEF IInv

\* Nothing is copied when add() takes the lock.
LEMMA AddLockStep ==
  ASSUME IInv, NEW p \in Producers, AddLock(p)
  PROVE  IInv'
<1> USE StreamAssumption
<1>1. /\ lockedBy = NoOne /\ lockedBy' = p /\ iNext' = 1
      /\ UNCHANGED <<vElement, iBset, clock, batch, tLast, nMade, log, base>>
  BY DEF AddLock, producerVars
<1>2. RingType'
  BY <1>1 DEF IInv, RingType
<1>3. RingInv'
  <2>1. /\ Reached' = Reached /\ Reached = Len(log) /\ Len(log) \in Nat
        /\ ArrivalOrder' = ArrivalOrder
    BY <1>1 DEF Reached, Copied, ArrivalOrder, IInv, RingType
  <2>2. ASSUME NEW k \in 1 .. Capacity
        PROVE  Entry(Reached - Capacity + k)' = Entry(Reached - Capacity + k)
    BY <1>1, <2>1 DEF Entry
  <2> QED BY <1>1, <2>1, <2>2 DEF IInv, RingInv
<1> QED BY <1>2, <1>3 DEF IInv

\* One element is copied over the oldest slot, which becomes the newest one.
LEMMA AddElementStep ==
  ASSUME IInv, NEW p \in Producers, AddElement(p)
  PROVE  IInv'
<1> USE StreamAssumption
<1> DEFINE L == Reached
<1>1. /\ lockedBy = p /\ iNext <= Len(batch[p]) /\ iNext' = iNext + 1
      /\ iBset' = Slot(iBset + 1)
      /\ vElement' = [vElement EXCEPT ![iBset] = batch[p][iNext]]
      /\ UNCHANGED <<lockedBy, clock, batch, tLast, nMade, log, base>>
  BY DEF AddElement, producerVars
<1>2. /\ p # NoOne /\ iNext \in 1 .. Len(batch[p])
      /\ Len(batch[p]) \in Nat /\ Len(log) \in Nat
  BY <1>1 DEF IInv, RingType
<1>3. RingType'
  <2>1. iBset' \in Slots
    <3>1. iBset \in Slots
      BY DEF IInv, RingType
    <3> QED BY <1>1, <3>1 DEF Slot, Slots
  <2>2. vElement' = [i \in Slots |-> vElement'[i]]
    BY <1>1 DEF IInv, RingType
  <2>3. iNext' \in 1 .. Len(batch'[lockedBy']) + 1
    BY <1>1, <1>2
  <2> QED BY <1>1, <2>1, <2>2, <2>3 DEF IInv, RingType
<1>4. RingInv'
  <2>1. L \in Nat /\ Reached' = L + 1 /\ L = Len(log) + iNext - 1
    BY <1>1, <1>2 DEF Reached, Copied
  <2>2. \A i \in Int : Entry(i)' = Entry(i)
    BY <1>1 DEF Entry
  <2>3. /\ iBset \in Slots
        /\ DOMAIN vElement = Slots
        /\ base \in 0 .. L
    BY <1>2, <2>1 DEF IInv, RingType
  <2> SUFFICES ASSUME NEW k \in 1 .. Capacity
               PROVE  ArrivalOrder'[k] = IF L + 1 - Capacity + k <= base THEN Empty
                                         ELSE Entry(L + 1 - Capacity + k)
    BY <1>1, <2>1, <2>2 DEF RingInv
  <2>4. ArrivalOrder'[k] = vElement'[Slot(Slot(iBset + 1) + k - 1)]
    BY <1>1 DEF ArrivalOrder, Slot
  <2>5. CASE k = Capacity
    <3>1. Slot(Slot(iBset + 1) + k - 1) = iBset
      BY <2>3, <2>5 DEF Slot, Slots
    <3>2. ArrivalOrder'[k] = batch[p][iNext]
      BY <3>1, <2>3, <2>4, <1>1
    <3>3. /\ L + 1 - Capacity + k = Len(log) + iNext
          /\ ~(L + 1 - Capacity + k <= base) /\ ~(L + 1 - Capacity + k <= Len(log))
      BY <1>2, <2>1, <2>3, <2>5
    <3>4. Entry(L + 1 - Capacity + k) = batch[p][iNext]
      BY <1>1, <1>2, <3>3 DEF Entry
    <3> QED BY <3>2, <3>3, <3>4
  <2>6. CASE k < Capacity
    <3>1. /\ Slot(Slot(iBset + 1) + k - 1) = Slot(iBset + k)
          /\ Slot(iBset + k) \in Slots \ {iBset}
      BY <2>3, <2>6 DEF Slot, Slots
    <3>2. ArrivalOrder'[k] = vElement[Slot(iBset + k)]
      BY <3>1, <2>3, <2>4, <1>1
    <3>3. ArrivalOrder[k + 1] = vElement[Slot(iBset + k)]
      BY <2>3, <2>6 DEF ArrivalOrder, Slots
    <3>4. L - Capacity + (k + 1) = L + 1 - Capacity + k
      BY <2>1
    <3>5. k + 1 \in 1 .. Capacity
      BY <2>6
    <3>6. ArrivalOrder[k + 1] = IF L - Capacity + (k + 1) <= base THEN Empty
                                ELSE Entry(L - Capacity + (k + 1))
      BY <3>5 DEF IInv, RingInv
    <3> QED BY <3>2, <3>3, <3>4, <3>6
  <2> QED BY <2>5, <2>6
<1> QED BY <1>3, <1>4 DEF IInv

\* When the lock is released the batch is the end of the log.
LEMMA AddUnlockStep ==
  ASSUME IInv, NEW p \in Producers, AddUnlock(p)
  PROVE  IInv'
<1> USE StreamAssumption
<1>1. /\ lockedBy = p /\ iNext > Len(batch[p]) /\ lockedBy' = NoOne
      /\ log' = log \o batch[p]
      /\ batch' = [batch EXCEPT ![p] = <<>>]
      /\ UNCHANGED <<vElement, iBset, clock, tLast, nMade, base>>
  BY DEF AddUnlock
<1>2. /\ p # NoOne /\ Len(batch[p]) \in Nat /\ Len(log) \in Nat
      /\ iNext = Len(batch[p]) + 1
      /\ batch[p] \in Seq(Elements) /\ log \in Seq(Elements)
  BY <1>1 DEF IInv, RingType
<1>3. /\ log' \in Seq(Elements) /\ Len(log') = Len(log) + Len(batch[p])
      /\ \A i \in 1 .. Len(log') :
           log'[i] = IF i <= Len(log) THEN log[i] ELSE batch[p][i - Len(log)]
  BY <1>1, <1>2
<1>4. RingType'
  <2>1. batch' \in [Producers -> Seq(Elements)]
    BY <1>1 DEF IInv, RingType
  <2>2. base' \in 0 .. Len(log')
    BY <1>1, <1>2, <1>3 DEF IInv, RingType
  <2> QED BY <1>1, <1>3, <2>1, <2>2 DEF IInv, RingType
<1>5. RingInv'
  <2>1. Reached' = Reached /\ Reached = Len(log') /\ ArrivalOrder' = ArrivalOrder
        /\ base' = base /\ base \in Nat
    BY <1>1, <1>2, <1>3 DEF Reached, Copied, ArrivalOrder, IInv, RingType
  <2>2. ASSUME NEW k \in 1 .. Capacity, ~(Reached - Capacity + k <= base)
        PROVE  Entry(Reached - Capacity + k)' = Entry(Reached - Capacity + k)
    <3>1. Reached - Capacity + k \in 1 .. Len(log')
      BY <1>2, <1>3, <2>1, <2>2
    <3> QED BY <1>1, <1>3, <2>1, <3>1 DEF Entry
  <2> QED BY <2>1, <2>2 DEF IInv, RingInv
<1> QED BY <1>4, <1>5 DEF IInv

LEMMA ClearStep ==
  ASSUME IInv, Clear
  PROVE  IInv'
<1> USE StreamAssumption
<1>1. /\ lockedBy = NoOne
      /\ vElement' = [i \in Slots |-> Empty]
      /\ iBset' = 0
      /\ base' = Len(log)
      /\ UNCHANGED <<lockedBy, clock, batch, tLast, nMade, log>>
  BY DEF Clear, producerVars
<1>2. RingType'
  BY <1>1 DEF IInv, RingType, Slots
<1>3. RingInv'
  <2>1. ASSUME NEW k \in 1 .. Capacity
        PROVE  ArrivalOrder'[k] = Empty
    <3>1. Slot(0 + k - 1) \in Slots
      BY DEF Slot, Slots
    <3>2. ArrivalOrder'[k] = vElement'[Slot(0 + k - 1)]
      BY <1>1 DEF ArrivalOrder, Slot
    <3> QED BY <3>1, <3>2, <1>1
  <2>2. ASSUME NEW k \in 1 .. Capacity
        PROVE  Reached' - Capacity + k <= base'
    BY <1>1 DEF Reached, Copied, IInv, RingType
  <2> QED BY <2>1, <2>2 DEF RingInv
<1> QED BY <1>2, <1>3 DEF IInv

LEMMA NextIInv == IInv /\ [Next]_vars => IInv'
<1> SUFFICES ASSUME IInv, [Next]_vars PROVE IInv'
  OBVIOUS
<1>1. ASSUME NEW p \in Producers,
             Stamp(p) \/ AddLock(p) \/ AddElement(p) \/ AddUnlock(p)
      PROVE  IInv'
  BY <1>1, StampStep, AddLockStep, AddElementStep, AddUnlockStep
<1>2. CASE Clear
  BY <1>2, ClearStep
<1>3. CASE UNCHANGED <<vElement, iBset, lockedBy, iNext, producerVars, log, base>>
  <2>1. UNCHANGED <<vElement, iBset, lockedBy, iNext, clock, batch, tLast, nMade,
                    log, base>>
    BY <1>3 DEF producerVars
  <2> QED BY <2>1 DEF IInv, RingType, RingInv, ArrivalOrder, Reached, Copied, Entry
<1>4. (\E r \in Readers : Get(r)) \/ UNCHANGED vars
        => UNCHANGED <<vElement, iBset, lockedBy, iNext, producerVars, log, base>>
  BY DEF Get, vars
<1> QED BY <1>1, <1>2, <1>3, <1>4 DEF Next

-----------------------------------------------------------------------------
(* Types *)

\* No batch is longer than one add() takes, so that its index is in bounds.
TypeInv == TypeOK /\ \A p \in Producers : Len(batch[p]) <= MaxBatch

\* What a reader takes is elements, never an empty slot.
LEMMA GetType ==
  ASSUME IInv, TypeInv, NEW r \in Readers, Get(r)
  PROVE  /\ cursor' \in [Readers -> Nat]
         /\ \A q \in Readers : out'[q] \in Seq(Elements)
<1> USE StreamAssumption
<1> DEFINE new == NewerPlaces(ArrivalOrder, cursor[r])
<1>1. cursor \in [Readers -> Nat] /\ \A q \in Readers : out[q] \in Seq(Elements)
  BY DEF TypeInv, TypeOK
<1>2. /\ out' = [out EXCEPT ![r] = Taken(ArrivalOrder, new)]
      /\ cursor' = [cursor EXCEPT ![r] =
                      IF new = {} THEN @ ELSE ArrivalOrder[Max(new)].tStamp]
  BY DEF Get
<1>3. new \subseteq 1 .. Capacity
  BY DEF NewerPlaces, ArrivalOrder
<1>4. ASSUME NEW n \in new
      PROVE  ArrivalOrder[n] \in Elements
  <2>1. n \in 1 .. Capacity /\ ArrivalOrder[n].tStamp > cursor[r]
    BY <1>3 DEF NewerPlaces
  <2>2. Slot(iBset + n - 1) \in Slots
    BY <2>1 DEF Slot, Slots, TypeInv, TypeOK
  <2>3. ArrivalOrder[n] \in Elements \cup {Empty}
    BY <2>1, <2>2 DEF ArrivalOrder, TypeInv, TypeOK
  <2>4. Empty.tStamp = 0 /\ cursor[r] \in Nat
    BY <1>1 DEF Empty
  <2> QED BY <2>1, <2>3, <2>4
<1> HIDE DEF new
<1>5. Taken(ArrivalOrder, new) \in Seq(Elements)
  BY <1>3, <1>4, TakenType
<1>6. new # {} => ArrivalOrder[Max(new)].tStamp \in Nat
  <2>1. new # {} => Max(new) \in new
    BY <1>3, GreatestElement
  <2> QED BY <2>1, <1>4 DEF Elements
<1> QED BY <1>1, <1>2, <1>5, <1>6

LEMMA TypeStep ==
  ASSUME IInv, TypeInv, [Next]_vars
  PROVE  TypeInv'
<1> USE StreamAssumption
<1>1. RingType'
  BY NextIInv DEF IInv
<1>2. ASSUME NEW p \in Producers, Stamp(p)
      PROVE  TypeInv'
  <2>1. \E e : batch' = [batch EXCEPT ![p] = Append(@, e)]
    BY <1>2 DEF Stamp
  <2>2. Len(batch[p]) < MaxBatch
    BY <1>2 DEF Stamp
  <2>3. \A q \in Producers : Len(batch'[q]) <= MaxBatch
    BY <2>1, <2>2 DEF IInv, RingType, TypeInv
  <2>4. UNCHANGED <<vElement, iNext, cursor, out, nClears>>
    BY <1>2 DEF Stamp, readerVars
  <2> QED BY <1>1, <2>3, <2>4 DEF RingType, TypeInv, TypeOK
<1>3. ASSUME NEW p \in Producers, AddLock(p)
      PROVE  TypeInv'
  <2>1. iNext' = 1 /\ UNCHANGED <<vElement, batch, cursor, out, nClears>>
    BY <1>3 DEF AddLock, producerVars, readerVars
  <2> QED BY <1>1, <2>1 DEF RingType, TypeInv, TypeOK
<1>4. ASSUME NEW p \in Producers, AddElement(p)
      PROVE  TypeInv'
  <2>1. /\ lockedBy = p /\ iNext <= Len(batch[p]) /\ iNext' = iNext + 1
        /\ vElement' = [vElement EXCEPT ![iBset] = batch[p][iNext]]
        /\ UNCHANGED <<batch, cursor, out, nClears>>
    BY <1>4 DEF AddElement, producerVars, readerVars
  <2>2. /\ iNext \in 1 .. MaxBatch + 1 /\ batch[p] \in Seq(Elements)
        /\ Len(batch[p]) <= MaxBatch /\ Len(batch[p]) \in Nat
    BY DEF TypeInv, TypeOK
  <2>3. iNext' \in 1 .. MaxBatch + 1
    BY <2>1, <2>2
  <2>4. batch[p][iNext] \in Elements
    BY <2>1, <2>2
  <2>5. vElement' \in [Slots -> Elements \cup {Empty}]
    BY <2>1, <2>4 DEF TypeInv, TypeOK
  <2> QED BY <1>1, <2>1, <2>3, <2>5 DEF RingType, TypeInv, TypeOK
<1>5. ASSUME NEW p \in Producers, AddUnlock(p)
      PROVE  TypeInv'
  <2>1. /\ batch' = [batch EXCEPT ![p] = <<>>]
        /\ UNCHANGED <<vElement, iNext, cursor, out, nClears>>
    BY <1>5 DEF AddUnlock, readerVars
  <2>2. \A q \in Producers : Len(batch'[q]) <= MaxBatch
    BY <2>1 DEF IInv, RingType, TypeInv
  <2> QED BY <1>1, <2>1, <2>2 DEF RingType, TypeInv, TypeOK
<1>6. ASSUME NEW r \in Readers, Get(r)
      PROVE  TypeInv'
  <2>1. UNCHANGED <<vElement, iNext, batch, nClears>>
    BY <1>6 DEF Get, producerVars
  <2>2. /\ cursor' \in [Readers -> Nat]
        /\ \A q \in Readers : out'[q] \in Seq(Elements)
    BY <1>6, GetType
  <2> QED BY <1>1, <2>1, <2>2 DEF RingType, TypeInv, TypeOK
<1>7. ASSUME Clear
      PROVE  TypeInv'
  <2>1. /\ vElement' = [i \in Slots |-> Empty]
        /\ nClears < MaxClears /\ nClears' = nClears + 1
        /\ UNCHANGED <<iNext, batch, cursor, out>>
    BY <1>7 DEF Clear, producerVars, readerVars
  <2>2. nClears' \in 0 .. MaxClears
    BY <2>1 DEF TypeInv, TypeOK
  <2> QED BY <1>1, <2>1, <2>2 DEF RingType, TypeInv, TypeOK
<1>8. CASE UNCHANGED vars
  <2>1. UNCHANGED <<vElement, iNext, batch, cursor, out, nClears>>
    BY <1>8 DEF vars, producerVars, readerVars
  <2> QED BY <1>1, <2>1 DEF RingType, TypeInv, TypeOK
<1> QED BY <1>2, <1>3, <1>4, <1>5, <1>6, <1>7, <1>8 DEF Next

-----------------------------------------------------------------------------
(* One producer with a watermark: the ring implements the packet log *)

LoneWatermark == Watermarked /\ \E p \in Producers : Producers = {p}

\* Stamps increase along the log and the batch that follows it, all cursors are
\* behind that batch, and the watermark is ahead of none.
OrderInv ==
  /\ Stamped(log)
  /\ \A p \in Producers :
       /\ Stamped(batch[p])
       /\ \A i \in 1 .. Len(batch[p]) :
            /\ batch[p][i].tStamp <= tLast[p]
            /\ \A j \in 1 .. Len(log) : log[j].tStamp < batch[p][i].tStamp
            /\ \A r \in Readers : cursor[r] < batch[p][i].tStamp
       /\ \A j \in 1 .. Len(log) : log[j].tStamp <= tLast[p]
       /\ \A r \in Readers : cursor[r] <= tLast[p]
       /\ lockedBy = p => batch[p] # <<>>
  /\ cursor \in [Readers -> Nat]

\* Elements that are appended to stamped ones with later stamps.
LEMMA StampedAppend ==
  ASSUME NEW s \in Seq(Elements), Stamped(s), NEW e \in Elements, e.tStamp # 0,
         \A i \in 1 .. Len(s) : s[i].tStamp < e.tStamp
  PROVE  Stamped(Append(s, e))
<1>1. /\ Len(s) \in Nat /\ e.tStamp \in Nat
      /\ Len(Append(s, e)) = Len(s) + 1
      /\ Append(s, e)[Len(s) + 1] = e
      /\ \A i \in 1 .. Len(s) : Append(s, e)[i] = s[i]
  BY DEF Elements
<1> DEFINE u == Append(s, e)
<1> HIDE DEF u
<1>2. ASSUME NEW i \in 1 .. Len(s) + 1
      PROVE  u[i].tStamp \in Nat \ {0}
  BY <1>1 DEF u, Stamped
<1>3. ASSUME NEW i \in 1 .. Len(s) + 1, NEW j \in 1 .. Len(s) + 1, i < j
      PROVE  u[i].tStamp < u[j].tStamp
  <2>1. i \in 1 .. Len(s)
    BY <1>1, <1>3
  <2>2. CASE j = Len(s) + 1
    BY <1>1, <2>1, <2>2 DEF u
  <2>3. CASE j \in 1 .. Len(s)
    BY <1>1, <1>3, <2>1, <2>3 DEF u, Stamped
  <2> QED BY <1>1, <2>2, <2>3
<1> QED BY <1>1, <1>2, <1>3 DEF Stamped, u

LEMMA StampedConcat ==
  ASSUME NEW s \in Seq(Elements), Stamped(s), NEW b \in Seq(Elements), Stamped(b),
         \A i \in 1 .. Len(b) : \A j \in 1 .. Len(s) : s[j].tStamp < b[i].tStamp
  PROVE  Stamped(s \o b)
<1> DEFINE u == s \o b
           L == Len(s)
<1>1. /\ L \in Nat /\ Len(b) \in Nat
      /\ Len(u) = L + Len(b)
      /\ \A i \in 1 .. L : u[i] = s[i]
      /\ \A i \in L + 1 .. L + Len(b) : u[i] = b[i - L] /\ i - L \in 1 .. Len(b)
  OBVIOUS
<1> HIDE DEF u, L
<1>2. /\ \A i \in 1 .. L : s[i].tStamp \in Nat \ {0}
      /\ \A i, j \in 1 .. L : i < j => s[i].tStamp < s[j].tStamp
      /\ \A i \in 1 .. Len(b) : b[i].tStamp \in Nat \ {0}
      /\ \A i, j \in 1 .. Len(b) : i < j => b[i].tStamp < b[j].tStamp
      /\ \A i \in 1 .. Len(b) : \A j \in 1 .. L : s[j].tStamp < b[i].tStamp
  BY DEF Stamped, L
<1>3. \A i \in 1 .. Len(u) : i \in 1 .. L \/ i \in L + 1 .. L + Len(b)
  BY <1>1
<1>4. ASSUME NEW i \in 1 .. Len(u)
      PROVE  u[i].tStamp \in Nat \ {0}
  BY <1>1, <1>2, <1>3
<1>5. ASSUME NEW i \in 1 .. Len(u), NEW j \in 1 .. Len(u), i < j
      PROVE  u[i].tStamp < u[j].tStamp
  <2>1. CASE i \in 1 .. L /\ j \in 1 .. L
    BY <1>1, <1>2, <1>5, <2>1
  <2>2. CASE i \in 1 .. L /\ j \in L + 1 .. L + Len(b)
    BY <1>1, <1>2, <2>2
  <2>3. CASE i \in L + 1 .. L + Len(b) /\ j \in L + 1 .. L + Len(b)
    <3>1. i - L < j - L
      BY <1>1, <1>5, <2>3
    <3> QED BY <1>1, <1>2, <2>3, <3>1
  <2>4. ~(i \in L + 1 .. L + Len(b) /\ j \in 1 .. L)
    BY <1>1, <1>5
  <2> QED BY <1>3, <2>1, <2>2, <2>3, <2>4
<1> QED BY <1>4, <1>5 DEF Stamped, u

\* A read between two adds takes the log from where the reader's position, the
\* last clear and the capacity tell, and moves the cursor to its end.
LEMMA GetEffect ==
  ASSUME IInv, OrderInv, NEW r \in Readers, Get(r)
  PROVE  /\ Log!From(r) \in 0 .. Len(log)
         /\ out' = [out EXCEPT ![r] = SubSeq(log, Log!From(r) + 1, Len(log))]
         /\ cursor' = [cursor EXCEPT ![r] =
                         IF Log!From(r) < Len(log) THEN log[Len(log)].tStamp
                         ELSE @]
<1> USE StreamAssumption
<1> DEFINE F == Log!From(r)
           ring == ArrivalOrder
           none == Empty
           t == cursor[r]
           new == NewerPlaces(ring, t)
<1>1. F = FirstRead(log, t, base, Capacity)
  BY DEF Log!From, Log!Max, Max, FirstRead
<1>2. RingIsEnd(ring, Capacity, log, base, none)
  <2>1. lockedBy = NoOne /\ Len(log) \in Nat
    BY DEF Get, IInv, RingType
  <2>2. Reached = Len(log)
    BY <2>1 DEF Reached, Copied
  <2>3. ASSUME NEW k \in 1 .. Capacity
        PROVE  Entry(Reached - Capacity + k) = log[Len(log) - Capacity + k]
    BY <2>1, <2>2 DEF Entry
  <2>4. DOMAIN ring = 1 .. Capacity
    BY DEF ArrivalOrder
  <2> QED BY <2>2, <2>3, <2>4 DEF RingIsEnd, IInv, RingInv
<1>3. /\ log \in Seq(Elements) /\ base \in 0 .. Len(log) /\ Stamped(log)
      /\ none.tStamp = 0 /\ Capacity \in Nat \ {0} /\ t \in Nat
      /\ Len(log) \in Nat
  BY DEF IInv, RingType, OrderInv, Empty
<1>4. /\ out' = [out EXCEPT ![r] = Taken(ring, new)]
      /\ cursor' = [cursor EXCEPT ![r] = IF new = {} THEN @ ELSE ring[Max(new)].tStamp]
  BY DEF Get
<1> HIDE DEF F, ring, none, t
<1>5. /\ FirstRead(log, t, base, Capacity) \in Position(log, t) .. Len(log)
      /\ Taken(ring, NewerPlaces(ring, t)) =
           SubSeq(log, FirstRead(log, t, base, Capacity) + 1, Len(log))
      /\ FirstRead(log, t, base, Capacity) = Len(log) => NewerPlaces(ring, t) = {}
      /\ FirstRead(log, t, base, Capacity) < Len(log) =>
           /\ NewerPlaces(ring, t) # {}
           /\ ring[Max(NewerPlaces(ring, t))] = log[Len(log)]
  BY ONLY <1>2, <1>3, ReadOfRing, ZenonT(30)
<1>6. /\ F \in Position(log, t) .. Len(log)
      /\ Taken(ring, new) = SubSeq(log, F + 1, Len(log))
      /\ F = Len(log) => new = {}
      /\ F < Len(log) => new # {} /\ ring[Max(new)] = log[Len(log)]
  BY <1>1, <1>5
<1> HIDE DEF new
<1>7. F \in 0 .. Len(log)
  <2>1. Position(log, t) \in 0 .. Len(log)
    BY <1>3, CursorCuts
  <2> QED BY <1>3, <1>6, <2>1
<1>8. cursor' = [cursor EXCEPT ![r] =
                   IF F < Len(log) THEN log[Len(log)].tStamp ELSE @]
  <2>1. CASE F < Len(log)
    BY <2>1, <1>4, <1>6
  <2>2. CASE ~(F < Len(log))
    <3>1. F = Len(log)
      BY <2>2, <1>3, <1>7
    <3> QED BY <2>2, <3>1, <1>4, <1>6
  <2> QED BY <2>1, <2>2
<1> QED BY <1>4, <1>6, <1>7, <1>8 DEF F

LEMMA OrderStamp ==
  ASSUME LoneWatermark, IInv, OrderInv, NEW p \in Producers, Stamp(p)
  PROVE  OrderInv'
<1> USE StreamAssumption
<1> DEFINE b == batch[p]
<1>1. Producers = {p} /\ Watermarked
  BY DEF LoneWatermark
<1> DEFINE t == tLast'[p]
<1>2. PICK d \in ClockSteps :
        /\ t = Max({clock + d, tLast[p] + 1})
        /\ tLast' = [tLast EXCEPT ![p] = t]
        /\ batch' = [batch EXCEPT ![p] =
                       Append(@, [id |-> nMade + 1, tStamp |-> t])]
  BY <1>1 DEF Stamp, IInv, RingType
<1>3. /\ lockedBy # p /\ nMade < MaxElements
      /\ UNCHANGED <<lockedBy, log, cursor>>
  BY DEF Stamp, readerVars
<1>4. t \in Nat /\ t > tLast[p] /\ tLast[p] \in Nat
  <2>1. clock + d \in Nat /\ tLast[p] \in Nat /\ tLast[p] + 1 \in Nat
    BY DEF IInv, RingType
  <2>2. t \in Nat /\ t >= tLast[p] + 1
    BY <1>2, <2>1, GreaterOfTwo
  <2> QED BY <2>1, <2>2
<1> DEFINE e == [id |-> nMade + 1, tStamp |-> t]
<1>5. e \in Elements /\ e.tStamp = t
  BY <1>3, <1>4 DEF Elements, IInv, RingType
<1> HIDE DEF e
<1>6. batch'[p] = Append(b, e) /\ tLast'[p] = t /\ b \in Seq(Elements)
  BY <1>2 DEF e, IInv, RingType
<1>7. /\ Len(b) \in Nat /\ Len(Append(b, e)) = Len(b) + 1
      /\ Append(b, e)[Len(b) + 1] = e
      /\ \A i \in 1 .. Len(b) : Append(b, e)[i] = b[i]
  BY <1>5, <1>6
<1>8. /\ Stamped(log) /\ Stamped(b)
      /\ \A i \in 1 .. Len(b) :
           /\ b[i].tStamp \in Nat
           /\ b[i].tStamp <= tLast[p]
           /\ \A j \in 1 .. Len(log) : log[j].tStamp < b[i].tStamp
           /\ \A r \in Readers : cursor[r] < b[i].tStamp
      /\ \A j \in 1 .. Len(log) : log[j].tStamp \in Nat /\ log[j].tStamp <= tLast[p]
      /\ \A r \in Readers : cursor[r] <= tLast[p] /\ cursor[r] \in Nat
      /\ cursor \in [Readers -> Nat]
  BY DEF OrderInv, Stamped
<1> HIDE DEF b
<1>9. Stamped(Append(b, e))
  <2>1. \A i \in 1 .. Len(b) : b[i].tStamp < e.tStamp
    BY <1>4, <1>5, <1>8
  <2> QED BY <2>1, <1>4, <1>5, <1>6, <1>8, StampedAppend
<1>10. ASSUME NEW i \in 1 .. Len(b) + 1
       PROVE  /\ Append(b, e)[i].tStamp <= t
              /\ \A j \in 1 .. Len(log) : log[j].tStamp < Append(b, e)[i].tStamp
              /\ \A r \in Readers : cursor[r] < Append(b, e)[i].tStamp
  <2>1. CASE i = Len(b) + 1
    BY <2>1, <1>4, <1>5, <1>7, <1>8
  <2>2. CASE i \in 1 .. Len(b)
    BY <2>2, <1>4, <1>7, <1>8
  <2> QED BY <2>1, <2>2, <1>7
<1>11. /\ \A j \in 1 .. Len(log) : log[j].tStamp <= t
       /\ \A r \in Readers : cursor[r] <= t
  BY <1>4, <1>8
<1>12. \A q \in Producers : q = p
  BY <1>1
<1> QED BY <1>3, <1>6, <1>7, <1>8, <1>9, <1>10, <1>11, <1>12 DEF OrderInv

LEMMA OrderUnlock ==
  ASSUME LoneWatermark, IInv, OrderInv, NEW p \in Producers, AddUnlock(p)
  PROVE  OrderInv'
<1> USE StreamAssumption
<1> DEFINE b == batch[p]
<1>1. \A q \in Producers : q = p
  BY DEF LoneWatermark
<1>2. /\ log' = log \o b /\ batch'[p] = <<>> /\ lockedBy' = NoOne
      /\ UNCHANGED <<tLast, cursor>>
      /\ log \in Seq(Elements) /\ b \in Seq(Elements)
  BY DEF AddUnlock, readerVars, IInv, RingType
<1>3. /\ Stamped(log) /\ Stamped(b)
      /\ \A i \in 1 .. Len(b) :
           /\ b[i].tStamp <= tLast[p]
           /\ \A j \in 1 .. Len(log) : log[j].tStamp < b[i].tStamp
      /\ \A j \in 1 .. Len(log) : log[j].tStamp <= tLast[p]
      /\ \A r \in Readers : cursor[r] <= tLast[p]
      /\ cursor \in [Readers -> Nat]
  BY DEF OrderInv
<1> HIDE DEF b
<1>4. Stamped(log \o b)
  BY <1>2, <1>3, StampedConcat
<1>5. ASSUME NEW j \in 1 .. Len(log \o b)
      PROVE  (log \o b)[j].tStamp <= tLast[p]
  <2>1. j \in 1 .. Len(log) \/ j - Len(log) \in 1 .. Len(b)
    BY <1>2
  <2>2. /\ j \in 1 .. Len(log) => (log \o b)[j] = log[j]
        /\ j - Len(log) \in 1 .. Len(b) => (log \o b)[j] = b[j - Len(log)]
    BY <1>2
  <2> QED BY <2>1, <2>2, <1>3
<1>6. Stamped(batch'[p]) /\ Len(batch'[p]) = 0 /\ lockedBy' # p
  BY <1>2 DEF Stamped
<1>7. 1 .. Len(batch'[p]) = {}
  BY <1>6
<1> QED BY <1>1, <1>2, <1>3, <1>4, <1>5, <1>6, <1>7 DEF OrderInv

LEMMA OrderGet ==
  ASSUME LoneWatermark, IInv, OrderInv, NEW r \in Readers, Get(r)
  PROVE  OrderInv'
<1> DEFINE F == Log!From(r)
<1>1. /\ F \in 0 .. Len(log)
      /\ cursor' = [cursor EXCEPT ![r] =
                      IF F < Len(log) THEN log[Len(log)].tStamp ELSE @]
      /\ UNCHANGED <<lockedBy, batch, tLast, log>>
  BY GetEffect DEF Get, producerVars
<1> HIDE DEF F
<1>2. F < Len(log) => Len(log) \in 1 .. Len(log)
  BY <1>1 DEF IInv, RingType
<1>3. \A i \in 1 .. Len(log) : log[i].tStamp \in Nat
  BY DEF OrderInv, Stamped
<1>4. cursor' \in [Readers -> Nat]
  BY <1>1, <1>2, <1>3 DEF OrderInv
<1>5. ASSUME NEW p \in Producers, NEW q \in Readers
      PROVE  /\ cursor'[q] <= tLast[p]
             /\ \A i \in 1 .. Len(batch[p]) : cursor'[q] < batch[p][i].tStamp
  BY <1>1, <1>2 DEF OrderInv
<1> QED BY <1>1, <1>4, <1>5 DEF OrderInv

LEMMA OrderStep ==
  ASSUME LoneWatermark, IInv, OrderInv, [Next]_vars
  PROVE  OrderInv'
<1>1. ASSUME NEW p \in Producers, AddLock(p)
      PROVE  OrderInv'
  <2>1. /\ batch[p] # <<>> /\ lockedBy' = p
        /\ UNCHANGED <<batch, tLast, log, cursor>>
    BY <1>1 DEF AddLock, producerVars, readerVars
  <2>2. \A q \in Producers : q = p
    BY DEF LoneWatermark
  <2> QED BY <2>1, <2>2 DEF OrderInv
<1>2. ASSUME UNCHANGED <<lockedBy, batch, tLast, log, cursor>>
      PROVE  OrderInv'
  BY <1>2 DEF OrderInv
<1>3. ASSUME NEW p \in Producers, AddElement(p)
      PROVE  OrderInv'
  BY <1>2, <1>3 DEF AddElement, producerVars, readerVars
<1>4. CASE Clear \/ UNCHANGED vars
  BY <1>2, <1>4 DEF Clear, vars, producerVars, readerVars
<1> QED BY <1>1, <1>3, <1>4, OrderStamp, OrderUnlock, OrderGet DEF Next

\* A read of the ring is a read of the log.
LEMMA GetIsRead ==
  ASSUME IInv, OrderInv, NEW r \in Readers, Get(r)
  PROVE  Log!Read(r)
<1> DEFINE F == Log!From(r)
           L == Len(log)
           pos == [q \in Readers |-> Position(log, cursor[q])]
<1>1. /\ F \in 0 .. L
      /\ out' = [out EXCEPT ![r] = SubSeq(log, F + 1, L)]
      /\ cursor' = [cursor EXCEPT ![r] = IF F < L THEN log[L].tStamp ELSE @]
      /\ UNCHANGED <<log, base>>
  BY GetEffect DEF Get
<1> HIDE DEF F
<1>2. cursor \in [Readers -> Nat] /\ log \in Seq(Elements) /\ Stamped(log)
  BY DEF IInv, RingType, OrderInv
<1>3. ASSUME F < L
      PROVE  Position(log, log[L].tStamp) = L
  <2>1. L \in 1 .. L /\ L \in 0 .. L
    BY <1>1, <1>3
  <2>2. ASSUME NEW i \in 1 .. L
        PROVE  log[i].tStamp <= log[L].tStamp <=> i <= L
    <3>1. log[i].tStamp \in Nat /\ log[L].tStamp \in Nat
      BY <1>2, <2>1 DEF Stamped
    <3>2. i < L => log[i].tStamp < log[L].tStamp
      BY <1>2, <2>1 DEF Stamped
    <3> QED BY <3>1, <3>2, <2>1
  <2> QED BY <1>2, <2>1, <2>2, CutIs
<1>4. pos' = [pos EXCEPT ![r] = IF F < L THEN L ELSE @]
  <2>1. ASSUME NEW q \in Readers
        PROVE  Position(log', cursor'[q]) =
                 IF q = r /\ F < L THEN L ELSE Position(log, cursor[q])
    BY <1>1, <1>2, <1>3
  <2>2. pos' = [q \in Readers |-> Position(log', cursor'[q])]
    OBVIOUS
  <2> QED BY <2>1, <2>2
<1> QED BY <1>1, <1>4 DEF Log!Read, F

\* The batch that is added is newer than every cursor.
LEMMA UnlockIsAdd ==
  ASSUME IInv, OrderInv, NEW p \in Producers, AddUnlock(p)
  PROVE  Log!Add
<1> DEFINE b == batch[p]
           L == Len(log)
<1>1. /\ log' = log \o b /\ UNCHANGED <<cursor, out, base>>
      /\ log \in Seq(Elements) /\ b \in Seq(Elements) /\ b # <<>>
  BY DEF AddUnlock, readerVars, IInv, RingType, OrderInv
<1>2. \A i \in 1 .. Len(b) : \A r \in Readers : cursor[r] < b[i].tStamp
  BY DEF OrderInv
<1>3. /\ cursor \in [Readers -> Nat]
      /\ \A i \in 1 .. Len(b) : b[i].tStamp \in Nat
  BY DEF OrderInv, Stamped
<1> HIDE DEF b
<1>4. /\ L \in Nat /\ Len(b) \in Nat \ {0}
      /\ Len(log') = L + Len(b) /\ log' \in Seq(Elements)
      /\ \A i \in 1 .. L : log'[i] = log[i]
      /\ \A i \in L + 1 .. Len(log') : log'[i] = b[i - L] /\ i - L \in 1 .. Len(b)
  BY <1>1
<1>5. /\ SubSeq(log', 1, L) = log
      /\ \A t : (\A i \in L + 1 .. Len(log') : ~(log'[i].tStamp <= t))
                => Position(log', t) = Position(log, t)
  <2> DEFINE u == log'
  <2>1. /\ log \in Seq(Elements) /\ u \in Seq(Elements)
        /\ Len(u) >= L /\ \A i \in 1 .. L : u[i] = log[i]
    BY <1>1, <1>4
  <2> HIDE DEF u
  <2>2. /\ SubSeq(u, 1, L) = log
        /\ \A t : (\A i \in L + 1 .. Len(u) : ~(u[i].tStamp <= t))
                  => Position(u, t) = Position(log, t)
    BY ONLY <2>1, LongerLog
  <2> QED BY <2>2 DEF u
<1>6. ASSUME NEW r \in Readers
      PROVE  Position(log', cursor'[r]) = Position(log, cursor[r])
  <2>1. ASSUME NEW i \in L + 1 .. Len(log')
        PROVE  ~(log'[i].tStamp <= cursor[r])
    BY <1>2, <1>3, <1>4
  <2> QED BY <2>1, <1>1, <1>5
<1>7. [r \in Readers |-> Position(log, cursor[r])]' =
        [r \in Readers |-> Position(log, cursor[r])]
  BY <1>6
<1>8. Len(log') > Len(log)
  BY <1>4
<1> QED BY <1>1, <1>5, <1>7, <1>8 DEF Log!Add

-----------------------------------------------------------------------------
(* Theorems *)

LEMMA Invariance == Spec => []IInv
<1> QED BY InitIInv, NextIInv, PTL DEF Spec

\* The ring, the indices, the batches, the cursors and what readers were given
\* are of their types, for every capacity, batch size and any mix of producers
\* (DataObjStream::add, get and clear).
THEOREM TypeCorrect == Spec => []TypeOK
<1>1. Init => TypeInv
  <2> SUFFICES ASSUME Init PROVE TypeInv
    OBVIOUS
  <2>1. RingType
    BY InitIInv DEF IInv
  <2>2. /\ vElement \in [Slots -> Elements \cup {Empty}]
        /\ iNext = 1 /\ nClears = 0
        /\ cursor \in [Readers -> Nat]
        /\ \A r \in Readers : out[r] = <<>>
        /\ \A p \in Producers : batch[p] = <<>>
    BY DEF Init
  <2>3. \A p \in Producers : Len(batch[p]) <= MaxBatch
    BY <2>2, StreamAssumption
  <2>4. iNext \in 1 .. MaxBatch + 1 /\ nClears \in 0 .. MaxClears
    BY <2>2, StreamAssumption
  <2>5. \A r \in Readers : out[r] \in Seq(Elements)
    BY <2>2, EmptySeq
  <2> QED BY <2>1, <2>2, <2>3, <2>4, <2>5 DEF RingType, TypeInv, TypeOK
<1>2. IInv /\ TypeInv /\ [Next]_vars => TypeInv'
  BY TypeStep
<1>3. TypeInv => TypeOK
  BY DEF TypeInv
<1> QED BY <1>1, <1>2, <1>3, Invariance, PTL DEF Spec

\* Between two adds the ring of a stream holds exactly the newest elements since
\* the last clear, in the order they arrived, for every capacity and any mix of
\* producers, watermarked or not (DataObjStream::add, get and clear).
THEOREM RingIsAlwaysTheEndOfTheLog == Spec => []RingIsTheEndOfTheLog
<1>1. IInv => RingIsTheEndOfTheLog
  <2> SUFFICES ASSUME IInv, lockedBy = NoOne, NEW k \in 1 .. Capacity
               PROVE  ArrivalOrder[k] =
                        IF Len(log) - Capacity + k <= base THEN Empty
                        ELSE log[Len(log) - Capacity + k]
    BY DEF RingIsTheEndOfTheLog
  <2>1. Reached = Len(log) /\ Len(log) \in Nat
    BY DEF Reached, Copied, IInv, RingType
  <2>2. Entry(Reached - Capacity + k) = log[Len(log) - Capacity + k]
    BY <2>1, StreamAssumption DEF Entry
  <2> QED BY <2>1, <2>2 DEF IInv, RingInv
<1> QED BY <1>1, Invariance, PTL

\* A stream with one producer that keeps a watermark, as each receiver of CAN
\* frames is, against what it promises: for every capacity, clock, batch size and
\* number of readers, each reader gets every retained element it was not given,
\* in order of arrival, once, across overruns and clears.
THEOREM LoneProducerImplementsPacketLog ==
  ASSUME LoneWatermark
  PROVE  Spec => ImplementsPacketLog
<1>1. Init => OrderInv /\ Log!Init
  <2> SUFFICES ASSUME Init PROVE OrderInv /\ Log!Init
    OBVIOUS
  <2>1. Len(log) = 0 /\ \A p \in Producers : Len(batch[p]) = 0 /\ lockedBy # p
    BY StreamAssumption DEF Init
  <2>2. 1 .. Len(log) = {} /\ \A p \in Producers : 1 .. Len(batch[p]) = {}
    BY <2>1
  <2>3. /\ cursor \in [Readers -> Nat]
        /\ \A p \in Producers : \A r \in Readers : cursor[r] <= tLast[p]
    BY DEF Init
  <2>4. OrderInv
    BY <2>1, <2>2, <2>3 DEF OrderInv, Stamped
  <2>5. Position(log, 0) = 0
    <3>1. {i \in 1 .. Len(log) : log[i].tStamp <= 0} = {}
      BY <2>2
    <3> QED BY <3>1, FS_EmptySet DEF Position
  <2> QED BY <2>4, <2>5 DEF Init, Log!Init
<1>2. IInv /\ OrderInv /\ [Next]_vars => OrderInv'
  BY OrderStep
<1>3. IInv /\ OrderInv /\ [Next]_vars => [Log!Next]_(Log!vars)
  <2> SUFFICES ASSUME IInv, OrderInv, [Next]_vars
               PROVE  Log!Next \/ UNCHANGED Log!vars
    OBVIOUS
  <2>1. ASSUME UNCHANGED <<cursor, out, log, base>>
        PROVE  UNCHANGED Log!vars
    <3>1. [r \in Readers |-> Position(log, cursor[r])]' =
            [r \in Readers |-> Position(log, cursor[r])]
      BY <2>1
    <3> QED BY <2>1, <3>1 DEF Log!vars
  <2>2. ASSUME NEW p \in Producers, Stamp(p) \/ AddLock(p) \/ AddElement(p)
        PROVE  UNCHANGED Log!vars
    BY <2>1, <2>2 DEF Stamp, AddLock, AddElement, readerVars
  <2>3. ASSUME NEW p \in Producers, AddUnlock(p)
        PROVE  Log!Next
    BY <2>3, UnlockIsAdd DEF Log!Next
  <2>4. ASSUME NEW r \in Readers, Get(r)
        PROVE  Log!Next
    BY <2>4, GetIsRead DEF Log!Next
  <2>5. CASE Clear
    <3>1. base' = Len(log) /\ UNCHANGED <<cursor, out, log>>
      BY <2>5 DEF Clear, readerVars
    <3>2. [r \in Readers |-> Position(log, cursor[r])]' =
            [r \in Readers |-> Position(log, cursor[r])]
      BY <3>1
    <3> QED BY <3>1, <3>2 DEF Log!Next, Log!Clear
  <2>6. CASE UNCHANGED vars
    BY <2>1, <2>6 DEF vars, readerVars
  <2> QED BY <2>2, <2>3, <2>4, <2>5, <2>6 DEF Next
<1> QED BY <1>1, <1>2, <1>3, Invariance, PTL DEF Spec, ImplementsPacketLog, Log!Spec
=============================================================================
