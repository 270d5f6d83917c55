-------------------------------- MODULE Rings --------------------------------
(***************************************************************************)
(* The rings in which DataObjStream and MavlinkStream keep their newest    *)
(* elements, as both walk them: from the oldest slot, taking what is newer *)
(* than the stamp a reader keeps as its cursor.                            *)
(***************************************************************************)
EXTENDS Integers, FiniteSets, FiniteSetsExt, Sequences

\* The places in a sequence of what is newer than t.
NewerPlaces(seq, t) == {n \in DOMAIN seq : seq[n].tStamp > t}

\* What is at some places of a sequence, in their order.
Taken(seq, places) ==
  [k \in 1 .. Cardinality(places) |->
     seq[CHOOSE n \in places : Cardinality({m \in places : m <= n}) = k]]

\* How far a cursor has got in a log: past all that is not newer than it.
Position(log, t) == Cardinality({i \in 1 .. Len(log) : log[i].tStamp <= t})

\* The stamps of a log are positive and increase.
Stamped(log) ==
  /\ \A i \in 1 .. Len(log) : log[i].tStamp \in Nat \ {0}
  /\ \A i, j \in 1 .. Len(log) : i < j => log[i].tStamp < log[j].tStamp

\* Walked from its oldest slot, a ring holds the newest C elements of a log since
\* the clear at b; e is what an empty slot holds.
RingIsEnd(ring, C, s, b, e) ==
  /\ DOMAIN ring = 1 .. C
  /\ \A k \in 1 .. C :
       ring[k] = IF Len(s) - C + k <= b THEN e ELSE s[Len(s) - C + k]

\* The next element for the cursor t follows this one, as in PacketLog.
FirstRead(s, t, b, C) == Max({Position(s, t), b, Len(s) - C})
=============================================================================
