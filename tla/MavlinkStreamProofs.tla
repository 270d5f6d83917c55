------------------------- MODULE MavlinkStreamProofs -------------------------
(***************************************************************************)
(* Proofs about the outgoing queue of MavlinkStream, for every capacity,   *)
(* clock, number of readers, messages and clears.  They begin with lemmas  *)
(* about rings of stamped elements and about cursors that are stamps, in   *)
(* which no state of the queue occurs; DataObjStreamProofs uses them too.  *)
(***************************************************************************)
EXTENDS MavlinkStream, FiniteSetsExt, WellFoundedInduction,
        SequenceTheorems, FiniteSetTheorems, TLAPS

-----------------------------------------------------------------------------
(* Extrema of sets of numbers *)

\* A set of naturals has a least element.
LEMMA LeastElement ==
  ASSUME NEW S, S \subseteq Nat, S # {}
  PROVE  \E x \in S : \A y \in S : x <= y
<1> DEFINE R == {p \in Nat \X Nat : p[1] < p[2]}
<1>1. IsWellFoundedOn(R, Nat)
  BY NatLessThanWellFounded DEF OpToRel
<1>2. PICK x \in S : \A y \in S : <<y, x>> \notin R
  <2> HIDE DEF R
  <2> QED BY <1>1, WFMin
<1>3. ASSUME NEW y \in S PROVE x <= y
  <2>1. x \in Nat /\ y \in Nat
    OBVIOUS
  <2>2. <<y, x>> \notin R
    BY <1>2
  <2> QED BY <2>1, <2>2
<1> QED BY <1>3

\* Max is the greatest element of a nonempty set of places in a ring.
LEMMA GreatestElement ==
  ASSUME NEW n \in Nat, NEW S, S \subseteq 1 .. n, S # {}
  PROVE  /\ Max(S) \in S
         /\ \A s \in S : s <= Max(S)
<1> DEFINE T == {n - s : s \in S}
<1>1. T \subseteq Nat
  OBVIOUS
<1>2. T # {}
  <2>1. PICK s \in S : TRUE
    OBVIOUS
  <2>2. n - s \in T
    OBVIOUS
  <2> QED BY <2>2
<1>3. PICK x \in T : \A y \in T : x <= y
  <2> HIDE DEF T
  <2> QED BY <1>1, <1>2, LeastElement
<1>4. PICK m \in S : x = n - m
  BY <1>3
<1>5. ASSUME NEW s \in S PROVE s <= m
  <2>1. n - s \in T
    OBVIOUS
  <2>2. n - m <= n - s
    BY <2>1, <1>3, <1>4
  <2>3. s \in Int /\ m \in Int
    OBVIOUS
  <2> QED BY <2>2, <2>3
<1> QED BY <1>5 DEF Max

\* Max of three numbers.
LEMMA GreatestOfThree ==
  ASSUME NEW a \in Int, NEW b \in Int, NEW c \in Int
  PROVE  /\ Max({a, b, c}) \in {a, b, c}
         /\ \A x \in {a, b, c} : x <= Max({a, b, c})
<1>1. \E x \in {a, b, c} : \A y \in {a, b, c} : x >= y
  <2>1. CASE a >= b /\ a >= c
    BY <2>1
  <2>2. CASE b >= a /\ b >= c
    BY <2>2
  <2>3. CASE c >= a /\ c >= b
    BY <2>3
  <2> QED BY <2>1, <2>2, <2>3
<1>2. \A x, y \in {a, b, c} : x >= y => y <= x
  OBVIOUS
<1> QED BY <1>1, <1>2 DEF Max

-----------------------------------------------------------------------------
(* Stamps as cursors *)

\* A cursor cuts a log whose stamps increase in two: the elements that are not
\* newer than it, which are as many as its position tells, and the rest.
LEMMA CursorCuts ==
  ASSUME NEW S, NEW s \in Seq(S),
         Stamped(s), NEW t \in Nat
  PROVE  /\ Position(s, t) \in 0 .. Len(s)
         /\ \A i \in 1 .. Len(s) : s[i].tStamp <= t <=> i <= Position(s, t)
<1> DEFINE L == Len(s)
           Newer == {i \in 1 .. L : s[i].tStamp > t}
<1>0. L \in Nat
  OBVIOUS
<1> HIDE DEF L
<1>a. /\ \A i \in 1 .. L : s[i].tStamp \in Nat
      /\ \A i, j \in 1 .. L : i < j => s[i].tStamp < s[j].tStamp
  BY DEF L, Stamped
<1>1. \E q \in 0 .. L : \A i \in 1 .. L : s[i].tStamp <= t <=> i <= q
  <2>1. CASE Newer = {}
    <3>1. \A i \in 1 .. L : s[i].tStamp <= t /\ i <= L
      BY <2>1, <1>a
    <3> QED BY <3>1, <1>0
  <2>2. CASE Newer # {}
    <3>1. PICK n \in Newer : \A y \in Newer : n <= y
      <4>1. Newer \subseteq Nat
        OBVIOUS
      <4> HIDE DEF Newer
      <4> QED BY <4>1, <2>2, LeastElement
    <3>2. n \in 1 .. L /\ s[n].tStamp > t
      BY <3>1
    <3>3. ASSUME NEW i \in 1 .. L
          PROVE  s[i].tStamp <= t <=> i <= n - 1
      <4>1. CASE i < n
        <5>1. i \notin Newer /\ n \in Nat
          BY <4>1, <3>1, <3>2
        <5> QED BY <5>1, <4>1, <1>a
      <4>2. CASE i = n
        BY <4>2, <3>2, <1>a
      <4>3. CASE i > n
        <5>1. s[n].tStamp < s[i].tStamp
          BY <4>3, <3>2, <1>a
        <5> QED BY <5>1, <4>3, <3>2, <1>a
      <4> QED BY <4>1, <4>2, <4>3, <3>2, <1>0
    <3>4. n - 1 \in 0 .. L
      BY <3>2, <1>0
    <3> HIDE DEF Newer
    <3> QED BY <3>3, <3>4
  <2> QED BY <2>1, <2>2
<1>2. PICK q \in 0 .. L : \A i \in 1 .. L : s[i].tStamp <= t <=> i <= q
  BY <1>1
<1>3. {i \in 1 .. L : s[i].tStamp <= t} = 1 .. q
  BY <1>0, <1>2
<1>4. Cardinality(1 .. q) = q
  <2>1. Cardinality(1 .. q) = IF 1 > q THEN 0 ELSE q - 1 + 1
    BY FS_Interval
  <2> QED BY <2>1
<1>5. Position(s, t) = q
  BY <1>3, <1>4 DEF Position, L
<1> QED BY <1>2, <1>5 DEF L

\* A stamp that cuts the log after q is at position q.
LEMMA CutIs ==
  ASSUME NEW S, NEW s \in Seq(S), NEW t, NEW q \in 0 .. Len(s),
         \A i \in 1 .. Len(s) : s[i].tStamp <= t <=> i <= q
  PROVE  Position(s, t) = q
<1>1. {i \in 1 .. Len(s) : s[i].tStamp <= t} = 1 .. q
  OBVIOUS
<1>2. Cardinality(1 .. q) = q
  <2>1. Cardinality(1 .. q) = IF 1 > q THEN 0 ELSE q - 1 + 1
    BY FS_Interval
  <2> QED BY <2>1
<1> QED BY <1>1, <1>2 DEF Position

\* A log that grows keeps what it had, and a cursor that is behind all that is
\* new keeps its position.
LEMMA LongerLog ==
  ASSUME NEW S, NEW s \in Seq(S), NEW u \in Seq(S), Len(u) >= Len(s),
         \A i \in 1 .. Len(s) : u[i] = s[i]
  PROVE  /\ SubSeq(u, 1, Len(s)) = s
         /\ \A t : (\A i \in Len(s) + 1 .. Len(u) : ~(u[i].tStamp <= t))
                   => Position(u, t) = Position(s, t)
<1>1. Len(s) \in Nat /\ Len(u) \in Nat
  OBVIOUS
<1>2. SubSeq(u, 1, Len(s)) = s
  <2>1. SubSeq(u, 1, Len(s)) = [i \in 1 .. (1 + Len(s) - 1) |-> u[i + 1 - 1]]
    OBVIOUS
  <2>2. s = [i \in 1 .. Len(s) |-> s[i]]
    OBVIOUS
  <2>3. /\ 1 .. (1 + Len(s) - 1) = 1 .. Len(s)
        /\ \A i \in 1 .. Len(s) : i + 1 - 1 = i
    BY <1>1
  <2> QED BY <2>1, <2>2, <2>3
<1>3. ASSUME NEW t, \A i \in Len(s) + 1 .. Len(u) : ~(u[i].tStamp <= t)
      PROVE  Position(u, t) = Position(s, t)
  <2>1. \A i \in 1 .. Len(u) : i \in 1 .. Len(s) \/ i \in Len(s) + 1 .. Len(u)
    BY <1>1
  <2>2. 1 .. Len(s) \subseteq 1 .. Len(u)
    BY <1>1
  <2>3. {i \in 1 .. Len(u) : u[i].tStamp <= t} = {i \in 1 .. Len(s) : s[i].tStamp <= t}
    BY <1>3, <2>1, <2>2
  <2> QED BY <2>3 DEF Position
<1> QED BY <1>2, <1>3

-----------------------------------------------------------------------------
(* A read of a ring *)

\* For every k up to their number there is a k-th one of some places.
LEMMA PlaceExists ==
  ASSUME NEW C \in Nat, NEW P, P \subseteq 1 .. C,
         NEW k \in 1 .. Cardinality(P)
  PROVE  \E n \in P : Cardinality({m \in P : m <= n}) = k
<1> DEFINE UpTo(n) == {m \in P : m <= n}
           Enough == {n \in P : Cardinality(UpTo(n)) >= k}
<1>1. IsFiniteSet(P) /\ Cardinality(P) \in Nat
  <2>1. IsFiniteSet(1 .. C)
    BY FS_Interval
  <2> QED BY <2>1, FS_Subset, FS_CardinalityType
<1>2. ASSUME NEW n PROVE IsFiniteSet(UpTo(n)) /\ Cardinality(UpTo(n)) \in Nat
  BY <1>1, FS_Subset, FS_CardinalityType
<1>3. Enough # {}
  <2>1. P # {}
    BY FS_EmptySet
  <2>2. Max(P) \in P /\ UpTo(Max(P)) = P
    BY <2>1, GreatestElement
  <2>3. Cardinality(UpTo(Max(P))) >= k
    BY <2>2, <1>1
  <2>4. Max(P) \in Enough
    BY <2>2, <2>3
  <2> QED BY <2>4
<1>4. PICK n \in Enough : \A y \in Enough : n <= y
  <2>1. Enough \subseteq P /\ P \subseteq Nat
    OBVIOUS
  <2> HIDE DEF Enough
  <2> QED BY <1>3, <2>1, LeastElement
<1>4a. \A m \in P : m \in Nat
  OBVIOUS
<1>5. n \in P /\ n \in UpTo(n) /\ Cardinality(UpTo(n)) >= k
  BY <1>4
<1>6. ASSUME Cardinality(UpTo(n)) > k
      PROVE  FALSE
  <2> DEFINE Q == UpTo(n) \ {n}
  <2>1. IsFiniteSet(Q) /\ Cardinality(Q) = Cardinality(UpTo(n)) - 1
    <3> HIDE DEF UpTo
    <3> QED BY <1>2, <1>5, FS_RemoveElement
  <2>2. Cardinality(Q) >= k /\ Cardinality(Q) # 0
    BY <2>1, <1>2, <1>6
  <2>3. Q # {} /\ Q \subseteq 1 .. C
    <3>1. Q # {}
      <4> HIDE DEF Q
      <4> QED BY <2>2, FS_EmptySet
    <3> QED BY <3>1
  <2>4. Max(Q) \in Q /\ \A s \in Q : s <= Max(Q)
    <3> HIDE DEF Q
    <3> QED BY <2>3, GreatestElement
  <2>4a. \A m \in Q : m \in P /\ m <= n /\ m # n
    OBVIOUS
  <2>4b. \A m \in P : m <= n /\ m # n => m \in Q
    OBVIOUS
  <2> DEFINE q == Max(Q)
  <2>5. q \in Q /\ q \in P /\ q \in Nat /\ n \in Nat /\ q < n
    <3>1. q \in Q
      BY <2>4
    <3> HIDE DEF Q, q
    <3>2. q \in P /\ q <= n /\ q # n
      BY <2>4a, <3>1
    <3>3. q \in Nat /\ n \in Nat
      BY ONLY <3>2, <1>4a, <1>5
    <3> QED BY ONLY <3>1, <3>2, <3>3
  <2>6. UpTo(q) = Q
    <3>1. \A m \in Q : m <= q
      BY <2>4
    <3> HIDE DEF q
    <3>2. ASSUME NEW m \in P, m <= q PROVE m \in Q
      <4>1. m \in Nat
        BY <1>4a
      <4> QED BY <4>1, <2>4b, <2>5, <3>2
    <3> HIDE DEF Q
    <3> QED BY <3>1, <3>2, <2>4a
  <2>7. q \in Enough
    BY <2>2, <2>5, <2>6
  <2>8. n <= q
    <3> HIDE DEF Enough, q
    <3> QED BY <2>7, <1>4
  <2> HIDE DEF q
  <2> QED BY <2>5, <2>8
<1>7. Cardinality(UpTo(n)) = k
  <2> HIDE DEF UpTo
  <2> QED BY <1>2, <1>5, <1>6
<1> QED BY <1>5, <1>7

\* What is taken from a ring is of the type of what is there.
LEMMA TakenType ==
  ASSUME NEW C \in Nat, NEW ring, NEW P, P \subseteq 1 .. C,
         NEW S, \A n \in P : ring[n] \in S
  PROVE  Taken(ring, P) \in Seq(S)
<1> DEFINE Place(k) == CHOOSE n \in P : Cardinality({m \in P : m <= n}) = k
<1>1. Cardinality(P) \in Nat
  <2>1. IsFiniteSet(1 .. C)
    BY FS_Interval
  <2> QED BY <2>1, FS_Subset, FS_CardinalityType
<1>2. ASSUME NEW k \in 1 .. Cardinality(P)
      PROVE  Place(k) \in P
  BY PlaceExists
<1>3. Taken(ring, P) = [k \in 1 .. Cardinality(P) |-> ring[Place(k)]]
  BY DEF Taken
<1>4. \A k \in 1 .. Cardinality(P) : ring[Place(k)] \in S
  BY <1>2
<1> HIDE DEF Place
<1> DEFINE c == Cardinality(P)
<1> HIDE DEF c
<1> QED BY <1>1, <1>3, <1>4 DEF c

\* The places from a on, taken in order, are an end of the ring.
LEMMA TakenIsAnEnd ==
  ASSUME NEW C \in Nat, NEW ring, NEW a \in 0 .. C
  PROVE  Taken(ring, (a + 1) .. C) = [k \in 1 .. C - a |-> ring[a + k]]
<1> DEFINE P == (a + 1) .. C
<1>1. Cardinality(P) = C - a
  <2>1. a + 1 \in Int /\ C \in Int
    OBVIOUS
  <2>2. Cardinality(P) = IF a + 1 > C THEN 0 ELSE C - (a + 1) + 1
    BY <2>1, FS_Interval
  <2> QED BY <2>2
<1>2. ASSUME NEW n \in P
      PROVE  Cardinality({m \in P : m <= n}) = n - a
  <2>1. {m \in P : m <= n} = (a + 1) .. n
    OBVIOUS
  <2>2. a + 1 \in Int /\ n \in Int /\ ~(a + 1 > n) /\ n - (a + 1) + 1 = n - a
    OBVIOUS
  <2>3. Cardinality((a + 1) .. n) = IF a + 1 > n THEN 0 ELSE n - (a + 1) + 1
    BY ONLY <2>2, FS_Interval
  <2> QED BY ONLY <2>1, <2>2, <2>3
<1> DEFINE Place(k) == CHOOSE n \in P : Cardinality({m \in P : m <= n}) = k
<1>3. ASSUME NEW k \in 1 .. C - a
      PROVE  Place(k) = a + k
  <2>1. a + k \in P /\ (a + k) - a = k
    OBVIOUS
  <2>2. \A n \in P : n - a = k => n = a + k
    OBVIOUS
  <2> HIDE DEF P
  <2> QED BY <1>2, <2>1, <2>2
<1>4. Taken(ring, P) = [k \in 1 .. Cardinality(P) |-> ring[Place(k)]]
  BY DEF Taken
<1> HIDE DEF Place
<1>5. Taken(ring, P) = [k \in 1 .. C - a |-> ring[a + k]]
  <2> HIDE DEF P
  <2> QED BY <1>1, <1>3, <1>4
<1> QED BY <1>5

\* A read of a ring that is the end of a log is a read of the log: it takes what
\* follows the reader's position, the last clear and what was overwritten, and
\* the last element it takes is the last one of the log.
LEMMA ReadOfRing ==
  ASSUME NEW C \in Nat \ {0}, NEW S, NEW s \in Seq(S), Stamped(s),
         NEW b \in 0 .. Len(s), NEW e, e.tStamp = 0,
         NEW ring, RingIsEnd(ring, C, s, b, e), NEW t \in Nat
  PROVE  /\ FirstRead(s, t, b, C) \in Position(s, t) .. Len(s)
         /\ Taken(ring, NewerPlaces(ring, t)) =
              SubSeq(s, FirstRead(s, t, b, C) + 1, Len(s))
         /\ FirstRead(s, t, b, C) = Len(s) => NewerPlaces(ring, t) = {}
         /\ FirstRead(s, t, b, C) < Len(s) =>
              /\ NewerPlaces(ring, t) # {}
              /\ ring[Max(NewerPlaces(ring, t))] = s[Len(s)]
<1> USE DEF RingIsEnd
<1> DEFINE L == Len(s)
           F == FirstRead(s, t, b, C)
           new == NewerPlaces(ring, t)
           p == Position(s, t)
           a == F - (L - C)
<1>1. L \in Nat
  OBVIOUS
<1>2. /\ p \in 0 .. L
      /\ \A i \in 1 .. L : s[i].tStamp <= t <=> i <= p
  BY CursorCuts
<1> HIDE DEF p, F, new
<1>3. /\ F \in {p, b, L - C}
      /\ F >= p /\ F >= b /\ F >= L - C
  <2>1. p \in Int /\ b \in Int /\ L - C \in Int
    BY <1>1, <1>2
  <2>2. /\ Max({p, b, L - C}) \in {p, b, L - C}
        /\ \A x \in {p, b, L - C} : x <= Max({p, b, L - C})
    <3> DEFINE c == L - C
    <3> HIDE DEF c
    <3> QED BY <2>1, GreatestOfThree DEF c
  <2>3. F = Max({p, b, L - C})
    BY DEF p, F, FirstRead
  <2> HIDE DEF L
  <2> QED BY <2>1, <2>2, <2>3
<1>4. F \in 0 .. L
  BY <1>1, <1>2, <1>3
<1>5. a \in 0 .. C /\ C - a = L - F
  BY <1>1, <1>3, <1>4
<1>6. ASSUME NEW n \in 1 .. C
      PROVE  ring[n].tStamp > t <=> n >= a + 1
  <2>1. ring[n] = IF L - C + n <= b THEN e ELSE s[L - C + n]
    OBVIOUS
  <2>2. CASE L - C + n <= b
    BY <2>1, <2>2, <1>1, <1>3, <1>4
  <2>3. CASE ~(L - C + n <= b)
    <3>1. L - C + n \in 1 .. L
      BY <2>3, <1>1
    <3>2. s[L - C + n].tStamp \in Nat
      BY <3>1 DEF Stamped
    <3>3. s[L - C + n].tStamp <= t <=> L - C + n <= p
      BY <3>1, <1>2
    <3>4. ring[n].tStamp > t <=> L - C + n > p
      BY <2>1, <2>3, <3>1, <3>2, <3>3, <1>1, <1>2
    <3> QED BY <3>4, <2>3, <1>1, <1>2, <1>3
  <2> QED BY <2>2, <2>3
<1>7. new = (a + 1) .. C
  <2>1. new = {n \in 1 .. C : ring[n].tStamp > t}
    BY DEF new, NewerPlaces
  <2>2. new = {n \in 1 .. C : n >= a + 1}
    <3> HIDE DEF a
    <3> QED BY <2>1, <1>6
  <2> HIDE DEF a
  <2> QED BY <2>2, <1>5
<1>8. Taken(ring, new) = SubSeq(s, F + 1, L)
  <2>1. Taken(ring, new) = [k \in 1 .. C - a |-> ring[a + k]]
    <3> HIDE DEF a
    <3> QED BY ONLY <1>5, <1>7, TakenIsAnEnd, C \in Nat \ {0}
  <2>2. SubSeq(s, F + 1, L) = [k \in 1 .. L - F |-> s[F + k]]
    <3>1. F + 1 \in Int /\ L \in Int /\ L - (F + 1) + 1 = L - F
      BY <1>1, <1>4
    <3>2. \A k \in 1 .. L - F : k + (F + 1) - 1 = F + k
      BY <1>1, <1>4
    <3>3. SubSeq(s, F + 1, L) =
            [k \in 1 .. (1 + L - (F + 1)) |-> s[k + (F + 1) - 1]]
      BY ONLY <3>1, s \in Seq(S)
    <3> HIDE DEF L
    <3> QED BY ONLY <3>1, <3>2, <3>3, <1>1, <1>4
  <2>3. ASSUME NEW k \in 1 .. L - F
        PROVE  ring[a + k] = s[F + k]
    <3>1. /\ a + k \in 1 .. C
          /\ L - C + (a + k) = F + k
          /\ ~(F + k <= b)
      <4> HIDE DEF L
      <4> QED BY ONLY <1>1, <1>3, <1>4, C \in Nat \ {0}, b \in 0 .. L, k \in 1 .. L - F
    <3>2. ring[a + k] = IF L - C + (a + k) <= b THEN e ELSE s[L - C + (a + k)]
      <4> HIDE DEF a
      <4> QED BY <3>1
    <3> QED BY <3>1, <3>2
  <2> HIDE DEF a
  <2> HIDE DEF L
  <2> QED BY ONLY <1>5, <2>1, <2>2, <2>3
<1>9. ASSUME F = L PROVE new = {}
  <2>1. a = C
    <3> HIDE DEF L
    <3> QED BY ONLY <1>1, <1>9, C \in Nat \ {0}
  <2> HIDE DEF a
  <2> QED BY <2>1, <1>7
<1>10. ASSUME F < L
       PROVE  new # {} /\ ring[Max(new)] = s[L]
  <2>1. a + 1 \in 1 .. C
    BY <1>1, <1>3, <1>4, <1>10
  <2>2. C \in new /\ new \subseteq 1 .. C
    <3> HIDE DEF a
    <3> QED BY <2>1, <1>7
  <2>3. Max(new) = C
    <3>1. Max(new) \in new /\ C <= Max(new)
      BY <2>2, GreatestElement
    <3>2. Max(new) \in 1 .. C
      BY <2>2, <3>1
    <3> QED BY <3>1, <3>2
  <2>4. L - C + C = L /\ ~(L <= b)
    BY <1>1, <1>3, <1>4, <1>10
  <2>5. ring[C] = IF L - C + C <= b THEN e ELSE s[L - C + C]
    OBVIOUS
  <2> QED BY <2>2, <2>3, <2>4, <2>5
<1> QED BY <1>1, <1>2, <1>3, <1>4, <1>8, <1>9, <1>10 DEF p, F, new

-----------------------------------------------------------------------------
(* The inductive invariant *)

\* The types the argument needs; what a reader has been handed does not matter.
RingType ==
  /\ vMsgQueue \in [Slots -> Messages \cup {Empty}]
  /\ iMqSet \in Slots
  /\ tLastQueued \in Nat
  /\ cursor \in [Readers -> Nat]
  /\ log \in Seq(Messages)
  /\ base \in 0 .. Len(log)

\* The order of the stamps relies on the ring (a cursor is taken from it), and
\* the ring on nothing but its own index.
IInv ==
  /\ RingType
  /\ StampsIncrease
  /\ RingIsTheEndOfTheLog

LEMMA InitIInv == Init => IInv
<1> SUFFICES ASSUME Init PROVE IInv
  OBVIOUS
<1> USE QueueAssumption DEF Init
<1>1. RingType
  BY DEF RingType, Slots
<1>2. StampsIncrease
  BY DEF StampsIncrease
<1>3. RingIsTheEndOfTheLog
  <2>1. ASSUME NEW k \in 1 .. Capacity
        PROVE  Slot(iMqSet + k - 1) \in Slots
    BY DEF Slot, Slots
  <2> QED BY <2>1 DEF RingIsTheEndOfTheLog, ArrivalOrder
<1> QED BY <1>1, <1>2, <1>3 DEF IInv

\* What is in the log was stamped no later than the last stamp.
LEMMA StampsOfTheLog ==
  ASSUME IInv, NEW i \in 1 .. Len(log)
  PROVE  /\ log[i].tStamp \in Nat \ {0}
         /\ log[i].tStamp <= tLastQueued
<1>1. log[i] \in Messages
  BY DEF IInv, RingType
<1>2. log[i].tStamp \in Nat \ {0}
  BY <1>1 DEF Messages
<1> QED BY <1>2 DEF IInv, StampsIncrease

\* What an add does, for the clock reading it takes.
LEMMA AddStep ==
  ASSUME IInv, Add
  PROVE  IInv'
<1> USE QueueAssumption
<1>1. PICK t \in Clock :
        LET queued == [id |-> Len(log) + 1, tStamp |-> StampAt(t)]
        IN /\ vMsgQueue' = [vMsgQueue EXCEPT ![iMqSet] = queued]
           /\ tLastQueued' = queued.tStamp
           /\ log' = Append(log, queued)
  BY DEF Add
<1> DEFINE queued == [id |-> Len(log) + 1, tStamp |-> StampAt(t)]
           L == Len(log)
<1>2. /\ iMqSet' = Slot(iMqSet + 1)
      /\ UNCHANGED <<cursor, base>>
      /\ L < MaxMessages
  BY DEF Add
<1>3. /\ t \in Nat
      /\ tLastQueued \in Nat
      /\ StampAt(t) \in Nat
      /\ StampAt(t) > tLastQueued
  BY DEF IInv, RingType, StampAt
<1>4. /\ L \in Nat
      /\ queued \in Messages
  BY <1>2, <1>3 DEF IInv, RingType, Messages
<1>5. /\ log' \in Seq(Messages)
      /\ Len(log') = L + 1
      /\ log'[L + 1] = queued
      /\ \A i \in 1 .. L : log'[i] = log[i]
  <2> HIDE DEF queued
  <2> QED BY <1>1, <1>4 DEF IInv, RingType, queued
<1>6. RingType'
  <2>1. iMqSet' \in Slots
    BY <1>2 DEF IInv, RingType, Slot, Slots
  <2>2. vMsgQueue' \in [Slots -> Messages \cup {Empty}]
    BY <1>1, <1>4 DEF IInv, RingType
  <2>3. tLastQueued' \in Nat /\ cursor' \in [Readers -> Nat]
    BY <1>1, <1>2, <1>3 DEF IInv, RingType
  <2>4. base' \in 0 .. Len(log')
    BY <1>2, <1>5 DEF IInv, RingType
  <2> QED BY <2>1, <2>2, <2>3, <2>4, <1>5 DEF RingType
<1>7. StampsIncrease'
  <2>1. tLastQueued' = StampAt(t) /\ tLastQueued' > tLastQueued
    BY <1>1, <1>3
  <2>2. ASSUME NEW i \in 1 .. L + 1
        PROVE  log'[i].tStamp <= tLastQueued'
    <3>1. CASE i = L + 1
      BY <3>1, <1>5, <2>1, <1>3
    <3>2. CASE i \in 1 .. L
      BY <3>2, <1>3, <1>5, <2>1, StampsOfTheLog
    <3> QED BY <3>1, <3>2, <1>4
  <2>3. ASSUME NEW i \in 1 .. L + 1, NEW j \in 1 .. L + 1, i < j
        PROVE  log'[i].tStamp < log'[j].tStamp
    <3>1. i \in 1 .. L
      BY <2>3, <1>4
    <3>2. log[i].tStamp <= tLastQueued /\ log[i].tStamp \in Nat
      BY <3>1, StampsOfTheLog
    <3>3. CASE j = L + 1
      BY <3>1, <3>2, <3>3, <1>3, <1>5
    <3>4. CASE j \in 1 .. L
      BY <3>1, <3>4, <2>3, <1>5 DEF IInv, StampsIncrease
    <3> QED BY <3>3, <3>4, <1>4
  <2>4. ASSUME NEW r \in Readers
        PROVE  cursor'[r] <= tLastQueued'
    BY <1>2, <1>3, <2>1 DEF IInv, RingType, StampsIncrease
  <2> QED BY <2>2, <2>3, <2>4, <1>5 DEF StampsIncrease
<1>8. RingIsTheEndOfTheLog'
  <2> SUFFICES ASSUME NEW k \in 1 .. Capacity
               PROVE  ArrivalOrder'[k] =
                        IF L + 1 - Capacity + k <= base THEN Empty
                        ELSE log'[L + 1 - Capacity + k]
    BY <1>2, <1>5 DEF RingIsTheEndOfTheLog
  <2>1. /\ iMqSet \in Slots
        /\ DOMAIN vMsgQueue = Slots
        /\ base \in 0 .. L
    BY DEF IInv, RingType
  <2>2. ArrivalOrder'[k] = vMsgQueue'[Slot(Slot(iMqSet + 1) + k - 1)]
    BY <1>2 DEF ArrivalOrder, Slot
  <2>3. CASE k = Capacity
    <3>1. Slot(Slot(iMqSet + 1) + k - 1) = iMqSet
      BY <2>1, <2>3 DEF Slot, Slots
    <3>2. ArrivalOrder'[k] = queued
      BY <3>1, <2>1, <2>2, <1>1
    <3> QED BY <3>2, <2>1, <2>3, <1>4, <1>5
  <2>4. CASE k < Capacity
    <3>1. /\ Slot(Slot(iMqSet + 1) + k - 1) = Slot(iMqSet + k)
          /\ Slot(iMqSet + k) \in Slots \ {iMqSet}
      BY <2>1, <2>4 DEF Slot, Slots
    <3>2. ArrivalOrder'[k] = vMsgQueue[Slot(iMqSet + k)]
      BY <3>1, <2>1, <2>2, <1>1
    <3>3. ArrivalOrder[k + 1] = vMsgQueue[Slot(iMqSet + k)]
      BY <2>1, <2>4 DEF ArrivalOrder, Slots
    <3>4. /\ L + 1 - Capacity + k \in Int
          /\ L - Capacity + (k + 1) = L + 1 - Capacity + k
      BY <1>4
    <3>5. ArrivalOrder[k + 1] = IF L + 1 - Capacity + k <= base THEN Empty
                                ELSE log[L + 1 - Capacity + k]
      <4>1. k + 1 \in 1 .. Capacity
        BY <2>4
      <4>2. ArrivalOrder[k + 1] = IF L - Capacity + (k + 1) <= base THEN Empty
                                  ELSE log[L - Capacity + (k + 1)]
        BY <4>1 DEF IInv, RingIsTheEndOfTheLog
      <4> QED BY <4>2, <3>4
    <3>6. CASE L + 1 - Capacity + k <= base
      BY <3>2, <3>3, <3>5, <3>6
    <3>7. CASE ~(L + 1 - Capacity + k <= base)
      <4>1. L + 1 - Capacity + k \in 1 .. L
        BY <2>1, <2>4, <1>4, <3>7
      <4>2. log'[L + 1 - Capacity + k] = log[L + 1 - Capacity + k]
        BY <4>1, <1>5
      <4> QED BY <3>2, <3>3, <3>5, <3>7, <4>2
    <3> QED BY <3>6, <3>7
  <2> QED BY <2>3, <2>4
<1> QED BY <1>6, <1>7, <1>8 DEF IInv

\* The log as the lemmas about rings know it.
LEMMA StampedLog ==
  ASSUME IInv
  PROVE  /\ log \in Seq(Messages) /\ base \in 0 .. Len(log)
         /\ Len(log) \in Nat
         /\ Stamped(log)
         /\ RingIsEnd(ArrivalOrder, Capacity, log, base, Empty)
<1>1. \A i \in 1 .. Len(log) : log[i].tStamp \in Nat \ {0}
  BY StampsOfTheLog
<1>2. RingIsEnd(ArrivalOrder, Capacity, log, base, Empty)
  <2>1. DOMAIN ArrivalOrder = 1 .. Capacity
    BY DEF ArrivalOrder
  <2> QED BY <2>1 DEF RingIsEnd, IInv, RingIsTheEndOfTheLog
<1> QED BY <1>1, <1>2 DEF IInv, RingType, StampsIncrease, Stamped

\* A read takes the log from where the reader's position, the last clear and the
\* capacity tell, and moves the cursor to its end.
LEMMA GetEffect ==
  ASSUME IInv, NEW r \in Readers, GetEncodedMsgs(r)
  PROVE  /\ Log!From(r) \in 0 .. Len(log)
         /\ out' = [out EXCEPT ![r] = SubSeq(log, Log!From(r) + 1, Len(log))]
         /\ cursor' = [cursor EXCEPT ![r] =
                         IF Log!From(r) < Len(log) THEN log[Len(log)].tStamp
                         ELSE @]
         /\ UNCHANGED <<vMsgQueue, iMqSet, tLastQueued, now, log, base, nClears>>
<1> USE QueueAssumption
<1> DEFINE F == Log!From(r)
           all == NewerPlaces(ArrivalOrder, cursor[r])
           new == IF tLastQueued <= cursor[r] THEN {} ELSE all
<1>1. /\ cursor \in [Readers -> Nat] /\ cursor[r] \in Nat
      /\ tLastQueued \in Nat
  BY DEF IInv, RingType
<1>2. F = FirstRead(log, cursor[r], base, Capacity)
  BY DEF Log!From, Log!Max, Max, FirstRead
<1> HIDE DEF F
<1>3. Empty.tStamp = 0
  BY DEF Empty
<1>4. /\ F \in Position(log, cursor[r]) .. Len(log)
      /\ Taken(ArrivalOrder, all) = SubSeq(log, F + 1, Len(log))
      /\ F = Len(log) => all = {}
      /\ F < Len(log) => all # {} /\ ArrivalOrder[Max(all)] = log[Len(log)]
  <2> DEFINE ring == ArrivalOrder
             none == Empty
  <2>1. /\ log \in Seq(Messages) /\ base \in 0 .. Len(log)
        /\ Stamped(log) /\ RingIsEnd(ring, Capacity, log, base, none)
        /\ none.tStamp = 0 /\ Capacity \in Nat \ {0} /\ cursor[r] \in Nat
    BY <1>1, <1>3, StampedLog
  <2> HIDE DEF ring, none
  <2>2. /\ FirstRead(log, cursor[r], base, Capacity) \in Position(log, cursor[r]) .. Len(log)
        /\ Taken(ring, NewerPlaces(ring, cursor[r])) =
              SubSeq(log, FirstRead(log, cursor[r], base, Capacity) + 1, Len(log))
        /\ FirstRead(log, cursor[r], base, Capacity) = Len(log)
             => NewerPlaces(ring, cursor[r]) = {}
        /\ FirstRead(log, cursor[r], base, Capacity) < Len(log) =>
             /\ NewerPlaces(ring, cursor[r]) # {}
             /\ ring[Max(NewerPlaces(ring, cursor[r]))] = log[Len(log)]
    BY ONLY <2>1, ReadOfRing, ZenonT(30)
  <2> QED BY ONLY <1>2, <2>2 DEF ring
<1>5. F \in 0 .. Len(log)
  <2>1. Position(log, cursor[r]) \in 0 .. Len(log)
    BY <1>1, StampedLog, CursorCuts
  <2> QED BY <1>4, <2>1, StampedLog
<1> HIDE DEF all
<1>6. new = all
  <2>1. CASE tLastQueued <= cursor[r]
    <3>1. \A i \in 1 .. Len(log) : log[i].tStamp <= cursor[r]
      BY <2>1, <1>1, StampsOfTheLog
    <3>2. Position(log, cursor[r]) = Len(log)
      <4>1. \A i \in 1 .. Len(log) : log[i].tStamp <= cursor[r] <=> i <= Len(log)
        BY <3>1
      <4>2. Len(log) \in 0 .. Len(log)
        BY StampedLog
      <4> QED BY <4>1, <4>2, StampedLog, CutIs
    <3>3. F = Len(log)
      BY <3>2, <1>4, StampedLog
    <3> QED BY <2>1, <3>3, <1>4
  <2>2. CASE ~(tLastQueued <= cursor[r])
    BY <2>2
  <2> QED BY <2>1, <2>2
<1>7. /\ out' = [out EXCEPT ![r] = Taken(ArrivalOrder, new)]
      /\ cursor' = [cursor EXCEPT ![r] =
                      IF new = {} THEN @ ELSE ArrivalOrder[Max(new)].tStamp]
      /\ UNCHANGED <<vMsgQueue, iMqSet, tLastQueued, now, log, base, nClears>>
  BY DEF GetEncodedMsgs, all
<1> HIDE DEF new
<1>8. cursor' = [cursor EXCEPT ![r] =
                   IF F < Len(log) THEN log[Len(log)].tStamp ELSE @]
  <2>1. CASE F < Len(log)
    BY <2>1, <1>4, <1>6, <1>7
  <2>2. CASE ~(F < Len(log))
    <3>1. F = Len(log)
      BY <2>2, <1>5, StampedLog
    <3> QED BY <2>2, <3>1, <1>4, <1>6, <1>7
  <2> QED BY <2>1, <2>2
<1> QED BY <1>4, <1>5, <1>6, <1>7, <1>8 DEF F

LEMMA GetStep ==
  ASSUME IInv, NEW r \in Readers, GetEncodedMsgs(r)
  PROVE  IInv'
<1> DEFINE F == Log!From(r)
<1>1. /\ F \in 0 .. Len(log)
      /\ cursor' = [cursor EXCEPT ![r] =
                      IF F < Len(log) THEN log[Len(log)].tStamp ELSE @]
      /\ UNCHANGED <<vMsgQueue, iMqSet, tLastQueued, log, base>>
  BY GetEffect
<1> HIDE DEF F
<1>2. F < Len(log) => /\ log[Len(log)].tStamp \in Nat
                      /\ log[Len(log)].tStamp <= tLastQueued
  <2>1. F < Len(log) => Len(log) \in 1 .. Len(log)
    BY <1>1
  <2> QED BY <2>1, StampsOfTheLog
<1>3. cursor' \in [Readers -> Nat] /\ \A q \in Readers : cursor'[q] <= tLastQueued
  BY <1>1, <1>2 DEF IInv, RingType, StampsIncrease
<1>4. RingType'
  BY <1>1, <1>3 DEF IInv, RingType
<1>5. StampsIncrease'
  BY <1>1, <1>3 DEF IInv, StampsIncrease
<1>6. RingIsTheEndOfTheLog'
  BY <1>1 DEF IInv, RingIsTheEndOfTheLog, ArrivalOrder
<1> QED BY <1>4, <1>5, <1>6 DEF IInv

LEMMA ClearStep ==
  ASSUME IInv, ClearMsgQueue
  PROVE  IInv'
<1> USE QueueAssumption
<1>1. /\ vMsgQueue' = [i \in Slots |-> Empty]
      /\ iMqSet' = 0
      /\ base' = Len(log)
      /\ UNCHANGED <<tLastQueued, cursor, log>>
  BY DEF ClearMsgQueue
<1>2. RingType'
  BY <1>1 DEF IInv, RingType, Slots
<1>3. StampsIncrease'
  BY <1>1 DEF IInv, StampsIncrease
<1>4. RingIsTheEndOfTheLog'
  <2>1. ASSUME NEW k \in 1 .. Capacity
        PROVE  ArrivalOrder'[k] = Empty
    <3>1. Slot(0 + k - 1) \in Slots
      BY DEF Slot, Slots
    <3>2. ArrivalOrder'[k] = vMsgQueue'[Slot(0 + k - 1)]
      BY <1>1 DEF ArrivalOrder, Slot
    <3> QED BY <3>1, <3>2, <1>1
  <2>2. ASSUME NEW k \in 1 .. Capacity
        PROVE  Len(log) - Capacity + k <= Len(log)
    BY DEF IInv, RingType
  <2> QED BY <1>1, <2>1, <2>2 DEF RingIsTheEndOfTheLog
<1> QED BY <1>2, <1>3, <1>4 DEF IInv

LEMMA NextIInv == IInv /\ [Next]_vars => IInv'
<1> SUFFICES ASSUME IInv, [Next]_vars PROVE IInv'
  OBVIOUS
<1>1. CASE Add
  BY <1>1, AddStep
<1>2. CASE \E r \in Readers : GetEncodedMsgs(r)
  BY <1>2, GetStep
<1>3. CASE ClearMsgQueue
  BY <1>3, ClearStep
<1>4. CASE UNCHANGED vars
  BY <1>4 DEF vars, IInv, RingType, StampsIncrease, RingIsTheEndOfTheLog,
              ArrivalOrder
<1> QED BY <1>1, <1>2, <1>3, <1>4 DEF Next

-----------------------------------------------------------------------------
(* The queue implements the packet log *)

\* A read of the queue is a read of the log.
LEMMA GetIsRead ==
  ASSUME IInv, NEW r \in Readers, GetEncodedMsgs(r)
  PROVE  Log!Read(r)
<1> DEFINE F == Log!From(r)
           L == Len(log)
           pos == [q \in Readers |-> Position(log, cursor[q])]
<1>1. /\ F \in 0 .. L
      /\ out' = [out EXCEPT ![r] = SubSeq(log, F + 1, L)]
      /\ cursor' = [cursor EXCEPT ![r] = IF F < L THEN log[L].tStamp ELSE @]
      /\ UNCHANGED <<log, base>>
  BY GetEffect
<1> HIDE DEF F
<1>2. cursor \in [Readers -> Nat]
  BY DEF IInv, RingType
<1>3. ASSUME F < L
      PROVE  Position(log, log[L].tStamp) = L
  <2>1. L \in 1 .. L /\ L \in 0 .. L
    BY <1>1, <1>3
  <2>2. ASSUME NEW i \in 1 .. L
        PROVE  log[i].tStamp <= log[L].tStamp <=> i <= L
    <3>1. log[i].tStamp \in Nat /\ log[L].tStamp \in Nat
      BY <2>1, StampedLog DEF Stamped
    <3>2. i < L => log[i].tStamp < log[L].tStamp
      BY <2>1, StampedLog DEF Stamped
    <3> QED BY <3>1, <3>2, <2>1
  <2> QED BY <2>1, <2>2, StampedLog, CutIs
<1>4. pos' = [pos EXCEPT ![r] = IF F < L THEN L ELSE @]
  <2>1. ASSUME NEW q \in Readers
        PROVE  Position(log', cursor'[q]) =
                 IF q = r /\ F < L THEN L ELSE Position(log, cursor[q])
    BY <1>1, <1>2, <1>3
  <2>2. pos' = [q \in Readers |-> Position(log', cursor'[q])]
    OBVIOUS
  <2> QED BY <2>1, <2>2
<1> QED BY <1>1, <1>4 DEF Log!Read, F

\* A message that is queued is newer than every cursor.
LEMMA AddIsAdd ==
  ASSUME IInv, Add
  PROVE  Log!Add
<1> DEFINE L == Len(log)
<1>1. PICK q \in Messages :
        /\ q.tStamp > tLastQueued
        /\ log' = Append(log, q)
        /\ UNCHANGED <<cursor, out, base>>
  <2>1. PICK t \in Clock :
          log' = Append(log, [id |-> L + 1, tStamp |-> StampAt(t)])
    BY DEF Add
  <2>2. StampAt(t) \in Nat /\ StampAt(t) > tLastQueued
    BY QueueAssumption DEF IInv, RingType, StampAt
  <2>3. L \in Nat /\ L < MaxMessages /\ tLastQueued \in Nat
    BY DEF Add, IInv, RingType
  <2>4. [id |-> L + 1, tStamp |-> StampAt(t)] \in Messages
    BY <2>2, <2>3, QueueAssumption DEF Messages
  <2> QED BY <2>1, <2>2, <2>4 DEF Add
<1>2. /\ log \in Seq(Messages)
      /\ L \in Nat
      /\ cursor \in [Readers -> Nat]
      /\ tLastQueued \in Nat
  BY DEF IInv, RingType
<1>3. /\ Len(log') = L + 1
      /\ log'[L + 1] = q
      /\ \A i \in 1 .. L : log'[i] = log[i]
      /\ log' \in Seq(Messages)
  BY <1>1, <1>2
<1>4. /\ SubSeq(log', 1, L) = log
      /\ \A t : (\A i \in L + 1 .. Len(log') : ~(log'[i].tStamp <= t))
                => Position(log', t) = Position(log, t)
  BY <1>2, <1>3, LongerLog
<1>5. ASSUME NEW r \in Readers
      PROVE  Position(log', cursor'[r]) = Position(log, cursor[r])
  <2>1. cursor[r] \in Nat /\ cursor[r] <= tLastQueued /\ cursor' = cursor
    BY <1>1, <1>2 DEF IInv, StampsIncrease
  <2>2. q.tStamp \in Nat
    BY <1>1 DEF Messages
  <2>3. ~(log'[L + 1].tStamp <= cursor[r])
    BY <2>1, <2>2, <1>1, <1>2, <1>3
  <2>4. \A i \in L + 1 .. Len(log') : ~(log'[i].tStamp <= cursor[r])
    BY <2>3, <1>2, <1>3
  <2> QED BY <2>1, <2>4, <1>4
<1>6. [r \in Readers |-> Position(log, cursor[r])]' = [r \in Readers |-> Position(log, cursor[r])]
  BY <1>5
<1>7. Len(log') > Len(log)
  BY <1>2, <1>3
<1> QED BY <1>1, <1>4, <1>6, <1>7 DEF Log!Add

\* What a step leaves of the types that the order and the ring do not rely on.
LEMMA TypeStep ==
  ASSUME IInv, TypeOK, [Next]_vars
  PROVE  TypeOK'
<1> USE QueueAssumption
<1>1. IInv'
  BY NextIInv
<1>2. now' \in Nat /\ nClears' \in Nat
  <2>1. now \in Nat /\ nClears \in Nat
    BY DEF TypeOK
  <2>2. CASE Add
    BY <2>1, <2>2 DEF Add
  <2>3. CASE ClearMsgQueue
    BY <2>1, <2>3 DEF ClearMsgQueue
  <2>4. CASE UNCHANGED <<now, nClears>>
    BY <2>1, <2>4
  <2> QED BY <2>2, <2>3, <2>4 DEF Next, GetEncodedMsgs, vars
<1>3. out' \in [Readers -> Seq(Messages)]
  <2>1. ASSUME NEW r \in Readers, GetEncodedMsgs(r)
        PROVE  out' \in [Readers -> Seq(Messages)]
    <3>1. out' = [out EXCEPT ![r] = SubSeq(log, Log!From(r) + 1, Len(log))]
      BY <2>1, GetEffect
    <3>2. Log!From(r) \in 0 .. Len(log)
      BY <2>1, GetEffect
    <3> DEFINE f == Log!From(r)
    <3> HIDE DEF f
    <3>3. SubSeq(log, f + 1, Len(log)) \in Seq(Messages)
      <4>1. log \in Seq(Messages) /\ f \in 0 .. Len(log)
        BY <3>2 DEF TypeOK, f
      <4>2. \A i \in f + 1 .. Len(log) : log[i] \in Messages
        BY <4>1
      <4> QED BY <4>1, <4>2, SubSeqProperties
    <3>4. SubSeq(log, Log!From(r) + 1, Len(log)) \in Seq(Messages)
      BY <3>3 DEF f
    <3> QED BY <3>1, <3>4 DEF TypeOK
  <2>2. CASE UNCHANGED out
    BY <2>2 DEF TypeOK
  <2> QED BY <2>1, <2>2 DEF Next, Add, ClearMsgQueue, vars
<1> QED BY <1>1, <1>2, <1>3 DEF IInv, RingType, TypeOK

-----------------------------------------------------------------------------
(* Theorems *)

LEMMA Invariance == Spec => []IInv
<1> QED BY InitIInv, NextIInv, PTL DEF Spec

\* The ring, the stamps, the cursors and what readers were handed are of their
\* types for every capacity, clock and number of readers (MavlinkStream::add,
\* getEncodedMsgs and clearMsgQueue).
THEOREM TypeCorrect == Spec => []TypeOK
<1>1. Init => TypeOK
  <2> SUFFICES ASSUME Init PROVE TypeOK
    OBVIOUS
  <2>1. IInv
    BY InitIInv
  <2>2. out \in [Readers -> Seq(Messages)] /\ now \in Nat /\ nClears \in Nat
    BY DEF Init
  <2> QED BY <2>1, <2>2 DEF IInv, RingType, TypeOK
<1>2. IInv /\ TypeOK /\ [Next]_vars => TypeOK'
  BY TypeStep
<1> QED BY <1>1, <1>2, Invariance, PTL DEF Spec

\* MavlinkStream::addMsgQueueLocked: whatever the clock does and whoever adds
\* or clears, stamps strictly increase in queueing order and no cursor of a
\* _Mavlink writer is ever ahead of the queue.
THEOREM StampsAlwaysIncrease == Spec => []StampsIncrease
<1>1. IInv => StampsIncrease
  BY DEF IInv
<1> QED BY <1>1, Invariance, PTL

\* The ring of MavlinkStream holds exactly the newest messages since the last
\* clearMsgQueue, in queueing order, for every capacity.
THEOREM RingIsAlwaysTheEndOfTheLog == Spec => []RingIsTheEndOfTheLog
<1>1. IInv => RingIsTheEndOfTheLog
  BY DEF IInv
<1> QED BY <1>1, Invariance, PTL

\* MavlinkStream against what it promises: for every capacity, clock, number of
\* senders and readers, each reader gets every retained message that it was not
\* given, in the order queued, once.
THEOREM QueueImplementsPacketLog == Spec => ImplementsPacketLog
<1>1. Init => Log!Init
  <2> SUFFICES ASSUME Init PROVE Log!Init
    OBVIOUS
  <2>1. Position(log, 0) = 0
    <3>1. {i \in 1 .. Len(log) : log[i].tStamp <= 0} = {}
      BY DEF Init
    <3> QED BY <3>1, FS_EmptySet DEF Position
  <2> QED BY <2>1 DEF Init, Log!Init
<1>2. IInv /\ [Next]_vars => [Log!Next]_(Log!vars)
  <2> SUFFICES ASSUME IInv, [Next]_vars
               PROVE  Log!Next \/ UNCHANGED Log!vars
    OBVIOUS
  <2>1. CASE Add
    BY <2>1, AddIsAdd DEF Log!Next
  <2>2. CASE \E r \in Readers : GetEncodedMsgs(r)
    BY <2>2, GetIsRead DEF Log!Next
  <2>3. CASE ClearMsgQueue
    <3>1. base' = Len(log) /\ UNCHANGED <<cursor, out, log>>
      BY <2>3 DEF ClearMsgQueue
    <3>2. [r \in Readers |-> Position(log, cursor[r])]' =
            [r \in Readers |-> Position(log, cursor[r])]
      BY <3>1
    <3> QED BY <3>1, <3>2 DEF Log!Next, Log!Clear
  <2>4. CASE UNCHANGED vars
    <3>1. UNCHANGED <<cursor, out, log, base>>
      BY <2>4 DEF vars
    <3>2. [r \in Readers |-> Position(log, cursor[r])]' =
            [r \in Readers |-> Position(log, cursor[r])]
      BY <3>1
    <3> QED BY <3>1, <3>2 DEF Log!vars
  <2> QED BY <2>1, <2>2, <2>3, <2>4 DEF Next
<1> QED BY <1>1, <1>2, Invariance, PTL DEF Spec, ImplementsPacketLog, Log!Spec
=============================================================================
