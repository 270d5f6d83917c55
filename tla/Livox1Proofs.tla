---------------------------- MODULE Livox1Proofs ----------------------------
(***************************************************************************)
(* Proofs about the driver of Livox1: for any settings, configurations,    *)
(* attempts and room on the network, and any number of patches and faults. *)
(***************************************************************************)
EXTENDS Livox1, FiniteSetTheorems, SequenceTheorems, TLAPS

-----------------------------------------------------------------------------
(* Types *)

Values == 0 .. 3 \cup {cfg[k] : cfg \in Configs, k \in Keys}
SessionCommands == {"Handshake", "DeviceInfo", "Heartbeat"}

\* What the driver may ask: a session request, the value of a setting kept in
\* flash, or to set one.
Asked(r) ==
  \/ r.cmd \in SessionCommands /\ r.key = ""
  \/ r.cmd = "Get" /\ r.key \in FlashSet
  \/ r.cmd = "Set" /\ r.key \in Keys /\ (r.key = WorkMode => r.value \in 1 .. 3)

RequestType ==
  [cmd : SessionCommands \cup {"Get", "Set"}, key : Keys \cup {""}, value : Values]
PendingType ==
  [seq : Sequences16, cmd : SessionCommands \cup {"Get", "Set"},
   key : Keys \cup {""}, value : Values, attempts : 1 .. MaxAttempts,
   switching : BOOLEAN]
DatagramType ==
  [seq : Sequences16, cmd : SessionCommands \cup {"Get", "Set"},
   key : Keys \cup {""}, value : Values, again : BOOLEAN]
ReplyType ==
  [seq : Sequences16, cmd : SessionCommands \cup {"Get", "Set"},
   key : Keys \cup {""}, code : 0 .. 2, value : Values]

Requests == {r \in RequestType : Asked(r)}
Pendings == {p \in PendingType : Asked(p) /\ (p.switching => p.key = WorkMode)}
Datagrams == {m \in DatagramType : Asked(m)}
Replies == {m \in ReplyType : /\ m.cmd = "Heartbeat" => m.value \in 0 .. 3
                              /\ m.code = 2 => m.key = WorkMode}

DriverType ==
  [state : {"Discovering", "Handshaking", "Initializing", "Configuring", "Connected"},
   pending : SUBSET Pendings, firmwareKnown : BOOLEAN, workState : 0 .. 3,
   configFailed : BOOLEAN, samplingSent : BOOLEAN, cfg : Configs,
   out : Seq(Datagrams)]
DeviceType ==
  [linked : BOOLEAN, mode : 0 .. 3, switchTo : 0 .. 3,
   value : [Keys \ {WorkMode} -> Values]]

-----------------------------------------------------------------------------
(* The driver's members, whatever calls it is in the middle of *)

\* Two requests of which at most one may be pending.
Rivals(a, b) == a.key = b.key /\ (a.key = "" => a.cmd = b.cmd)

Configured(D) == D.state \in {"Configuring", "Connected"}

\* At most one request is pending for each setting and of each session command;
\* settings are pending only while the device is configured, a handshake only
\* while it is shaken; and what is to be set is what is wanted.
DriverOK(D) ==
  /\ D \in DriverType
  /\ Len(D.out) <= Capacity
  /\ \A p, q \in D.pending : Rivals(p, q) => p = q
  /\ \A p \in D.pending :
       /\ IsSetting(p) => Configured(D)
       /\ p.cmd = "Handshake" <=> D.state = "Handshaking"
       /\ p.cmd = "Set" => p.value = D.cfg[p.key]

\* The answers on their way.
RepliesOK == replies \in Seq(Replies) /\ Len(replies) <= Capacity

-----------------------------------------------------------------------------
(* What is under way, and what the device has *)

\* What a datagram does, and to which pending request it, or an answer, belongs.
Sets(m, k) == m.cmd = "Set" /\ m.key = k
Of(m, p) == m.seq = p.seq /\ Alike(m, p)

\* A datagram that does not undo what the answer to the pending request p tells.
Harmless(p, m) ==
  /\ p.cmd = "DeviceInfo" => m.cmd # "Handshake"
  /\ p.cmd = "Get" => ~Sets(m, p.key)
  /\ p.cmd = "Set" /\ p.key # WorkMode /\ Sets(m, p.key) => m.value = p.value

AllHarmless(D, p) == \A j \in DOMAIN D.out : Harmless(p, D.out[j])

\* What the answer m to the pending request p tells of the device v.  (Of what
\* is not kept in flash nothing is known when the device has no host.)
Told(p, m, v) ==
  /\ p.cmd = "Get" => v.value[p.key] = m.value
  /\ p.cmd = "Set" /\ p.key # WorkMode /\ m.code = 0
       /\ (p.key \in FlashSet \/ v.linked) => v.value[p.key] = p.value

\* What is under way for a pending request and behind it, or behind its answer, is
\* harmless, and the answer is still true.
Follows(D, rs, v) ==
  \A p \in D.pending :
    /\ \A i, j \in DOMAIN D.out :
         Of(D.out[i], p) /\ i <= j => Harmless(p, D.out[j])
    /\ \A i \in DOMAIN rs : Of(rs[i], p) => AllHarmless(D, p) /\ Told(p, rs[i], v)

\* A driver that configures its device knows the firmware, and once it does no
\* handshake is under way.
Linked(D) ==
  /\ Configured(D) => D.firmwareKnown
  /\ D.state = "Handshaking" => ~D.firmwareKnown
  /\ D.firmwareKnown => \A i \in DOMAIN D.out : D.out[i].cmd # "Handshake"

\* The first copy of a write to flash finds another value there.
Firsts(D, v) ==
  \A i \in DOMAIN D.out :
    LET m == D.out[i] IN
    m.cmd = "Set" /\ m.key \in FlashSet /\ ~m.again =>
      /\ v.value[m.key] # m.value
      /\ \A j \in DOMAIN D.out : j < i => ~Sets(D.out[j], m.key)

\* A setting is asked for, or the device has it and what is under way leaves it.
Same(D, k) == \A j \in DOMAIN D.out : Sets(D.out[j], k) => D.out[j].value = D.cfg[k]
Has(D, v, k) == (k \in FlashSet \/ v.linked) => v.value[k] = D.cfg[k]
Applied(D, v, k) ==
  (\E p \in D.pending : p.key = k) \/ (Same(D, k) /\ Has(D, v, k))

AllApplied(D, v) ==
  Configured(D) /\ ~D.configFailed =>
    /\ \A k \in Formats : Applied(D, v, k)
    /\ D.samplingSent /\ D.cfg[WorkMode] = 1 => Applied(D, v, Sampling)
    /\ D.state = "Connected" => D.samplingSent

\* What the driver's functions keep.
Sound(D, rs, v) ==
  DriverOK(D) /\ Linked(D) /\ Follows(D, rs, v) /\ Firsts(D, v)

-----------------------------------------------------------------------------
(* Facts about the constants *)

LEMMA ConstantFacts ==
  /\ Capacity \in Nat /\ MaxAttempts \in Nat \ {0}
  /\ MaxPatches \in Nat /\ MaxFaults \in Nat
  /\ FlashSet \subseteq Keys /\ "" \notin FlashSet /\ "" \notin Keys
  /\ Coordinate \in Keys /\ WorkMode \in Keys /\ Sampling \in Keys
  /\ Coordinate \notin FlashSet /\ WorkMode \notin FlashSet
  /\ Sampling \notin FlashSet
  /\ Coordinate # WorkMode /\ Coordinate # Sampling /\ WorkMode # Sampling
BY LivoxAssumption DEF Keys, Formats, Coordinate, WorkMode, Sampling

LEMMA Bounds ==
  Capacity \in Nat /\ MaxAttempts \in Nat \ {0} /\ MaxPatches \in Nat
  /\ MaxFaults \in Nat
BY ConstantFacts

LEMMA ValueFacts ==
  /\ 0 .. 3 \subseteq Values /\ 0 \in Values
  /\ \A cfg \in Configs : \A k \in Keys : cfg[k] \in Values
  /\ \A cfg \in Configs : cfg[WorkMode] \in 1 .. 3 /\ cfg[Sampling] \in 0 .. 1
<1>1. 0 .. 3 \subseteq Values /\ 0 \in Values
  BY DEF Values
<1>2. \A cfg \in Configs : \A k \in Keys : cfg[k] \in Values
  BY DEF Values
<1>3. \A cfg \in Configs : cfg[WorkMode] \in 1 .. 3 /\ cfg[Sampling] \in 0 .. 1
  BY LivoxAssumption
<1> QED BY <1>1, <1>2, <1>3

-----------------------------------------------------------------------------
(* The network *)

\* What is transmitted follows what is under way, as far as there is room.
LEMMA TransmitEffect ==
  ASSUME NEW S, NEW out \in Seq(S), NEW ms \in Seq(S)
  PROVE  /\ Transmit(out, ms) \in Seq(S) /\ Len(Transmit(out, ms)) <= Capacity
         /\ DOMAIN Transmit(out, ms) = 1 .. Len(Transmit(out, ms))
         /\ Len(Transmit(out, ms)) <= Len(out) + Len(ms)
         /\ \A i \in DOMAIN Transmit(out, ms) :
              \/ i \in DOMAIN out /\ Transmit(out, ms)[i] = out[i]
              \/ /\ i > Len(out) /\ i - Len(out) \in DOMAIN ms
                 /\ Transmit(out, ms)[i] = ms[i - Len(out)]
<1> DEFINE all == out \o ms
           n == IF Len(all) < Capacity THEN Len(all) ELSE Capacity
<1>1. /\ all \in Seq(S) /\ Len(all) = Len(out) + Len(ms)
      /\ Len(out) \in Nat /\ Len(ms) \in Nat
      /\ DOMAIN out = 1 .. Len(out) /\ DOMAIN ms = 1 .. Len(ms)
      /\ \A i \in 1 .. Len(out) + Len(ms) : all[i] =
            IF i <= Len(out) THEN out[i] ELSE ms[i - Len(out)]
  BY ConcatProperties, LenProperties
<1>0. Transmit(out, ms) = SubSeq(all, 1, n)
  BY DEF Transmit
<1> HIDE DEF all
<1>2. /\ n \in Nat /\ n <= Len(all) /\ n <= Capacity
      /\ Transmit(out, ms) = SubSeq(all, 1, n)
  <2>1. Len(all) \in Nat
    BY <1>1
  <2> DEFINE l == Len(all)
  <2> HIDE DEF l
  <2> QED BY <1>0, <2>1, Bounds DEF l
<1> HIDE DEF n
<1>3. \A i \in 1 .. n : all[i] \in S
  BY <1>1, <1>2, ElementOfSeq
<1>4. /\ SubSeq(all, 1, n) \in Seq(S) /\ Len(SubSeq(all, 1, n)) = n
      /\ \A i \in 1 .. n : SubSeq(all, 1, n)[i] = all[i]
  <2>1. /\ SubSeq(all, 1, n) \in Seq(S)
        /\ Len(SubSeq(all, 1, n)) = IF 1 <= n THEN n - 1 + 1 ELSE 0
        /\ \A i \in 1 .. n - 1 + 1 : SubSeq(all, 1, n)[i] = all[1 + i - 1]
    BY <1>2, <1>3, SubSeqProperties
  <2>2. n - 1 + 1 = n /\ \A i \in 1 .. n : 1 + i - 1 = i
    BY <1>2
  <2>3. 1 <= n \/ n = 0
    BY <1>2
  <2> QED BY <2>1, <2>2, <2>3
<1>5. DOMAIN SubSeq(all, 1, n) = 1 .. n
  BY <1>4, LenProperties
<1>6. ASSUME NEW i \in 1 .. n
      PROVE  \/ i \in DOMAIN out /\ SubSeq(all, 1, n)[i] = out[i]
             \/ /\ i > Len(out) /\ i - Len(out) \in DOMAIN ms
                /\ SubSeq(all, 1, n)[i] = ms[i - Len(out)]
  <2>1. i \in 1 .. Len(out) + Len(ms)
    BY <1>1, <1>2
  <2>2. CASE i <= Len(out)
    BY <1>1, <1>4, <2>1, <2>2
  <2>3. CASE ~(i <= Len(out))
    BY <1>1, <1>4, <2>1, <2>3
  <2> QED BY <2>2, <2>3
<1> QED BY <1>1, <1>2, <1>4, <1>5, <1>6

\* Few numbers are in use.
LEMMA NumbersOfSeq ==
  ASSUME NEW S, NEW q \in Seq(S)
  PROVE  LET N == {q[i].seq : i \in DOMAIN q}
         IN  IsFiniteSet(N) /\ Cardinality(N) \in Nat /\ Cardinality(N) <= Len(q)
<1> DEFINE f == [i \in 1 .. Len(q) |-> q[i].seq]
           N == {q[i].seq : i \in DOMAIN q}
<1>1. DOMAIN q = 1 .. Len(q) /\ Len(q) \in Nat
  BY LenProperties
<1>2. f \in Surjection(1 .. Len(q), N)
  BY <1>1 DEF Surjection
<1>3. IsFiniteSet(1 .. Len(q)) /\ Cardinality(1 .. Len(q)) = Len(q)
  <2>1. /\ IsFiniteSet(1 .. Len(q))
        /\ Cardinality(1 .. Len(q)) = IF 1 > Len(q) THEN 0 ELSE Len(q) - 1 + 1
    BY <1>1, FS_Interval
  <2> QED BY <1>1, <2>1
<1> HIDE DEF f, N
<1>4. IsFiniteSet(N) /\ Cardinality(N) <= Len(q)
  BY <1>2, <1>3, FS_Surjection
<1> QED BY <1>4, FS_CardinalityType DEF N

\* A new request gets a number that tells it from all of its kind: there are
\* enough of them.
LEMMA NextSequenceEffect ==
  ASSUME NEW D, DriverOK(D), RepliesOK, NEW r
  PROVE  /\ NextSequence(D, r) \in Sequences16
         /\ \A p \in D.pending : ~(p.seq = NextSequence(D, r) /\ Alike(p, r))
         /\ \A i \in DOMAIN D.out :
              ~(D.out[i].seq = NextSequence(D, r) /\ Alike(D.out[i], r))
         /\ \A i \in DOMAIN replies :
              ~(replies[i].seq = NextSequence(D, r) /\ Alike(replies[i], r))
<1> DEFINE A == {p \in D.pending : Alike(p, r)}
           P == {p.seq : p \in A}
           O == {D.out[i].seq : i \in DOMAIN D.out}
           R == {replies[i].seq : i \in DOMAIN replies}
<1>1. /\ IsFiniteSet(O) /\ Cardinality(O) \in Nat /\ Cardinality(O) <= Capacity
      /\ IsFiniteSet(R) /\ Cardinality(R) \in Nat /\ Cardinality(R) <= Capacity
  <2>1. /\ D.out \in Seq(Datagrams) /\ Len(D.out) <= Capacity
        /\ Len(D.out) \in Nat
    BY LenProperties DEF DriverOK, DriverType
  <2>2. /\ replies \in Seq(Replies) /\ Len(replies) <= Capacity
        /\ Len(replies) \in Nat
    BY LenProperties DEF RepliesOK
  <2>3. IsFiniteSet(O) /\ Cardinality(O) \in Nat /\ Cardinality(O) <= Len(D.out)
    BY <2>1, NumbersOfSeq
  <2>4. IsFiniteSet(R) /\ Cardinality(R) \in Nat /\ Cardinality(R) <= Len(replies)
    BY <2>2, NumbersOfSeq
  <2> HIDE DEF O, R
  <2> QED BY <2>1, <2>2, <2>3, <2>4, Bounds
<1>2. IsFiniteSet(P) /\ Cardinality(P) \in Nat /\ Cardinality(P) <= 1
  <2>1. \A p, q \in A : p = q
    BY DEF DriverOK, Rivals, Alike
  <2>2. CASE A = {}
    <3>1. P = {}
      BY <2>2
    <3> QED BY <3>1, FS_EmptySet
  <2>3. CASE A # {}
    <3>1. PICK p \in A : TRUE
      BY <2>3
    <3>2. P = {p.seq}
      BY <2>1, <3>1
    <3>3. IsFiniteSet({p.seq}) /\ Cardinality({p.seq}) = 1
      BY FS_Singleton
    <3> HIDE DEF P
    <3> QED BY <3>2, <3>3
  <2> QED BY <2>2, <2>3
<1> DEFINE U == (P \cup O) \cup R
<1> HIDE DEF P, O, R
<1>3. IsFiniteSet(U) /\ Cardinality(U) \in Nat /\ Cardinality(U) <= 2 * Capacity + 1
  <2>1. /\ IsFiniteSet(P \cup O)
        /\ Cardinality(P \cup O)
             = Cardinality(P) + Cardinality(O) - Cardinality(P \cap O)
    BY <1>1, <1>2, FS_Union
  <2>2. Cardinality(P \cap O) \in Nat /\ Cardinality(P \cup O) \in Nat
    BY <1>1, <1>2, <2>1, FS_Subset, FS_CardinalityType
  <2>3. /\ IsFiniteSet(U)
        /\ Cardinality(U)
             = Cardinality(P \cup O) + Cardinality(R) - Cardinality((P \cup O) \cap R)
    BY <1>1, <2>1, FS_Union
  <2>4. Cardinality((P \cup O) \cap R) \in Nat /\ Cardinality(U) \in Nat
    BY <1>1, <2>1, <2>3, FS_Subset, FS_CardinalityType
  <2> QED BY <1>1, <1>2, <2>1, <2>2, <2>3, <2>4, Bounds
<1> HIDE DEF U
<1>4. PICK n \in Sequences16 : n \notin U
  <2>1. SUFFICES ASSUME Sequences16 \subseteq U PROVE FALSE
    OBVIOUS
  <2>2. /\ Cardinality(Sequences16) <= Cardinality(U)
        /\ Cardinality(Sequences16) \in Nat
    BY <1>3, <2>1, FS_Subset, FS_CardinalityType
  <2>3. Cardinality(Sequences16) > 2 * Capacity + 1
    BY NumbersAssumption
  <2> QED BY <1>3, <2>2, <2>3, Bounds
<1>5. /\ \A p \in D.pending : ~(p.seq = n /\ Alike(p, r))
      /\ \A i \in DOMAIN D.out : ~(D.out[i].seq = n /\ Alike(D.out[i], r))
      /\ \A i \in DOMAIN replies : ~(replies[i].seq = n /\ Alike(replies[i], r))
  BY <1>4 DEF U, P, O, R
<1> QED BY <1>5 DEF NextSequence

-----------------------------------------------------------------------------
(* Requests *)

\* What a request becomes: one that is pending, and a datagram.
LEMMA RequestEffect ==
  ASSUME NEW r \in Requests, NEW n \in Sequences16, NEW b \in BOOLEAN
  PROVE  /\ Pending(n, r) \in Pendings /\ Datagram(n, r, b) \in Datagrams
         /\ Pending(n, r).seq = n /\ Pending(n, r).cmd = r.cmd
         /\ Pending(n, r).key = r.key /\ Pending(n, r).value = r.value
         /\ Datagram(n, r, b).seq = n /\ Datagram(n, r, b).cmd = r.cmd
         /\ Datagram(n, r, b).key = r.key /\ Datagram(n, r, b).value = r.value
         /\ Datagram(n, r, b).again = b
<1>1. r \in RequestType /\ Asked(r)
  BY DEF Requests
<1>2. 1 \in 1 .. MaxAttempts
  BY Bounds
<1>3. /\ Pending(n, r) \in PendingType /\ ~Pending(n, r).switching
      /\ Datagram(n, r, b) \in DatagramType
  BY <1>1, <1>2 DEF Pending, Datagram, RequestType, PendingType, DatagramType
<1>4. /\ Pending(n, r).seq = n /\ Pending(n, r).cmd = r.cmd
      /\ Pending(n, r).key = r.key /\ Pending(n, r).value = r.value
  BY DEF Pending
<1>5. /\ Datagram(n, r, b).seq = n /\ Datagram(n, r, b).cmd = r.cmd
      /\ Datagram(n, r, b).key = r.key /\ Datagram(n, r, b).value = r.value
      /\ Datagram(n, r, b).again = b
  BY DEF Datagram
<1>6. Asked(Pending(n, r)) /\ Asked(Datagram(n, r, b))
  BY <1>1, <1>4, <1>5 DEF Asked
<1> QED BY <1>3, <1>4, <1>5, <1>6 DEF Pendings, Datagrams

\* sendCommand() for some requests: each is pending with a number of its own,
\* and they follow what is under way, as far as there is room.
LEMMA SendCommandsEffect ==
  ASSUME NEW D, DriverOK(D), RepliesOK, NEW rs \in Seq(Requests)
  PROVE  LET E == SendCommands(D, rs)
         IN  /\ E \in DriverType /\ Len(E.out) <= Capacity
             /\ E.state = D.state /\ E.firmwareKnown = D.firmwareKnown
             /\ E.workState = D.workState /\ E.configFailed = D.configFailed
             /\ E.samplingSent = D.samplingSent /\ E.cfg = D.cfg
             /\ D.pending \subseteq E.pending
             /\ \A i \in DOMAIN rs :
                  Pending(NextSequence(D, rs[i]), rs[i]) \in E.pending
             /\ \A p \in E.pending :
                  \/ p \in D.pending
                  \/ \E i \in DOMAIN rs : p = Pending(NextSequence(D, rs[i]), rs[i])
             /\ \A i \in DOMAIN E.out :
                  \/ i \in DOMAIN D.out /\ E.out[i] = D.out[i]
                  \/ /\ i > Len(D.out) /\ i - Len(D.out) \in DOMAIN rs
                     /\ E.out[i] = Datagram(NextSequence(D, rs[i - Len(D.out)]),
                                            rs[i - Len(D.out)], FALSE)
<1> DEFINE seq == [i \in DOMAIN rs |-> NextSequence(D, rs[i])]
           new == {Pending(seq[i], rs[i]) : i \in DOMAIN rs}
           ms == [i \in DOMAIN rs |-> Datagram(seq[i], rs[i], FALSE)]
           E == SendCommands(D, rs)
<1>1. /\ D \in DriverType /\ D.pending \subseteq Pendings /\ D.out \in Seq(Datagrams)
      /\ Len(rs) \in Nat /\ DOMAIN rs = 1 .. Len(rs)
      /\ \A i \in DOMAIN rs : rs[i] \in Requests
  BY LenProperties, ElementOfSeq DEF DriverOK, DriverType
<1>2. \A i \in DOMAIN rs : seq[i] = NextSequence(D, rs[i]) /\ seq[i] \in Sequences16
  BY NextSequenceEffect
<1>3. E = [D EXCEPT !.pending = D.pending \cup new, !.out = Transmit(D.out, ms)]
  BY DEF SendCommands
<1>4. \A i \in DOMAIN rs : /\ Pending(seq[i], rs[i]) \in Pendings
                           /\ Datagram(seq[i], rs[i], FALSE) \in Datagrams
  BY <1>1, <1>2, RequestEffect
<1>5. new \subseteq Pendings
  BY <1>4
<1>6. /\ ms \in Seq(Datagrams) /\ DOMAIN ms = DOMAIN rs
      /\ \A i \in DOMAIN rs : ms[i] = Datagram(NextSequence(D, rs[i]), rs[i], FALSE)
  <2> DEFINE n == Len(rs)
             g(i) == Datagram(seq[i], rs[i], FALSE)
  <2>1. n \in Nat /\ ms = [i \in 1 .. n |-> g(i)] /\ \A i \in 1 .. n : g(i) \in Datagrams
    BY <1>1, <1>4
  <2>2. ms \in Seq(Datagrams)
    <3> HIDE DEF n, ms, g
    <3> QED BY <2>1
  <2> QED BY <1>2, <2>2
<1>7. /\ \A i \in DOMAIN rs : Pending(NextSequence(D, rs[i]), rs[i]) \in new
      /\ \A p \in new :
           \E i \in DOMAIN rs : p = Pending(NextSequence(D, rs[i]), rs[i])
  BY <1>2
<1> HIDE DEF seq, new, ms, E
<1>8. /\ Transmit(D.out, ms) \in Seq(Datagrams)
      /\ Len(Transmit(D.out, ms)) <= Capacity
      /\ \A i \in DOMAIN Transmit(D.out, ms) :
           \/ i \in DOMAIN D.out /\ Transmit(D.out, ms)[i] = D.out[i]
           \/ /\ i > Len(D.out) /\ i - Len(D.out) \in DOMAIN ms
              /\ Transmit(D.out, ms)[i] = ms[i - Len(D.out)]
  BY <1>1, <1>6, TransmitEffect
<1>9. /\ E.pending = D.pending \cup new /\ E.out = Transmit(D.out, ms)
      /\ E.state = D.state /\ E.firmwareKnown = D.firmwareKnown
      /\ E.workState = D.workState /\ E.configFailed = D.configFailed
      /\ E.samplingSent = D.samplingSent /\ E.cfg = D.cfg
      /\ E \in DriverType
  BY <1>1, <1>3, <1>5, <1>8 DEF DriverType
<1>10. \A i \in DOMAIN E.out :
         \/ i \in DOMAIN D.out /\ E.out[i] = D.out[i]
         \/ /\ i > Len(D.out) /\ i - Len(D.out) \in DOMAIN rs
            /\ E.out[i] = Datagram(NextSequence(D, rs[i - Len(D.out)]),
                                   rs[i - Len(D.out)], FALSE)
  BY <1>6, <1>8, <1>9
<1> QED BY <1>7, <1>8, <1>9, <1>10 DEF E

\* Requests that may be made: none is pending for the same yet, and each fits the
\* state and the configuration.
MayAsk(D, r) ==
  /\ IsSetting(r) => Configured(D)
  /\ r.cmd = "Handshake" <=> D.state = "Handshaking"
  /\ r.cmd = "Set" => r.value = D.cfg[r.key]
  /\ \A p \in D.pending : ~Rivals(p, r)

LEMMA SendCommandsOK ==
  ASSUME NEW D, DriverOK(D), RepliesOK, NEW rs \in Seq(Requests),
         \A i \in DOMAIN rs : MayAsk(D, rs[i]),
         \A i, j \in DOMAIN rs : Rivals(rs[i], rs[j]) => rs[i] = rs[j]
  PROVE  DriverOK(SendCommands(D, rs))
<1> DEFINE E == SendCommands(D, rs)
           new(i) == Pending(NextSequence(D, rs[i]), rs[i])
<1>1. /\ E \in DriverType /\ Len(E.out) <= Capacity
      /\ E.state = D.state /\ E.cfg = D.cfg
      /\ \A p \in E.pending : p \in D.pending \/ \E i \in DOMAIN rs : p = new(i)
  BY SendCommandsEffect
<1>2. \A i \in DOMAIN rs : rs[i] \in Requests
  BY ElementOfSeq, LenProperties
<1>3. \A i \in DOMAIN rs : /\ new(i).cmd = rs[i].cmd /\ new(i).key = rs[i].key
                           /\ new(i).value = rs[i].value
  BY DEF Pending
<1>4. /\ \A p, q \in D.pending : Rivals(p, q) => p = q
      /\ \A p \in D.pending :
           /\ IsSetting(p) => Configured(D)
           /\ p.cmd = "Handshake" <=> D.state = "Handshaking"
           /\ p.cmd = "Set" => p.value = D.cfg[p.key]
  BY DEF DriverOK
<1>5. \A i, j \in DOMAIN rs : Rivals(new(i), new(j)) => new(i) = new(j)
  <2>1. \A i, j \in DOMAIN rs : rs[i] = rs[j] => new(i) = new(j)
    OBVIOUS
  <2> HIDE DEF new
  <2>2. \A i, j \in DOMAIN rs : Rivals(new(i), new(j)) => Rivals(rs[i], rs[j])
    BY <1>3 DEF Rivals
  <2> QED BY <2>1, <2>2
<1> HIDE DEF E, new
<1>6. ASSUME NEW p \in E.pending, NEW q \in E.pending, Rivals(p, q)
      PROVE  p = q
  <2>1. CASE p \in D.pending /\ q \in D.pending
    BY <1>4, <1>6, <2>1
  <2>2. ASSUME NEW a \in D.pending, NEW i \in DOMAIN rs,
               Rivals(a, new(i)) \/ Rivals(new(i), a)
        PROVE  FALSE
    <3>1. ~Rivals(a, rs[i])
      BY DEF MayAsk
    <3>2. Rivals(a, rs[i])
      BY <1>3, <2>2 DEF Rivals
    <3> QED BY <3>1, <3>2
  <2> QED BY <1>1, <1>5, <1>6, <2>1, <2>2
<1>7. ASSUME NEW p \in E.pending
      PROVE  /\ IsSetting(p) => Configured(E)
             /\ p.cmd = "Handshake" <=> E.state = "Handshaking"
             /\ p.cmd = "Set" => p.value = E.cfg[p.key]
  <2>1. CASE p \in D.pending
    BY <1>1, <1>4, <2>1 DEF Configured
  <2>2. ASSUME NEW i \in DOMAIN rs, p = new(i)
        PROVE  /\ IsSetting(p) => Configured(E)
               /\ p.cmd = "Handshake" <=> E.state = "Handshaking"
               /\ p.cmd = "Set" => p.value = E.cfg[p.key]
    BY <1>1, <1>3, <2>2 DEF MayAsk, IsSetting, Configured
  <2> QED BY <1>1, <2>1, <2>2
<1> QED BY <1>1, <1>6, <1>7 DEF DriverOK, E

-----------------------------------------------------------------------------
(* What the driver's functions make of its members *)

\* Fewer requests are pending, in the same state or one that allows them.
LEMMA FewerOK ==
  ASSUME NEW D, DriverOK(D), NEW E \in DriverType,
         E.pending \subseteq D.pending, E.out = D.out, E.cfg = D.cfg,
         \/ E.state = D.state
         \/ /\ E.state # "Handshaking" /\ (Configured(D) => Configured(E))
            /\ \A p \in E.pending : p.cmd # "Handshake"
  PROVE  DriverOK(E)
BY DEF DriverOK, Configured

LEMMA ReconnectOK ==
  ASSUME NEW D, DriverOK(D)
  PROVE  DriverOK(Reconnect(D)) /\ Reconnect(D).pending = {}
         /\ Reconnect(D).state = "Discovering" /\ Reconnect(D).cfg = D.cfg
         /\ Reconnect(D).out = D.out
<1>1. /\ Reconnect(D).pending = {} /\ Reconnect(D).state = "Discovering"
      /\ Reconnect(D).cfg = D.cfg /\ Reconnect(D).out = D.out
  BY DEF Reconnect, Fresh
<1>2. Reconnect(D) \in DriverType
  BY DEF DriverOK, DriverType, Reconnect, Fresh
<1> QED BY <1>1, <1>2 DEF DriverOK

\* The request for a value, as it is wanted.
LEMMA SetValueEffect ==
  ASSUME NEW D \in DriverType, NEW k \in Keys
  PROVE  /\ SetValue(D, k) \in Requests /\ SetValue(D, k).cmd = "Set"
         /\ SetValue(D, k).key = k /\ SetValue(D, k).value = D.cfg[k]
         /\ IsSetting(SetValue(D, k))
<1>1. /\ SetValue(D, k).cmd = "Set"
      /\ SetValue(D, k).key = k /\ SetValue(D, k).value = D.cfg[k]
  BY DEF SetValue, Request
<1>2. D.cfg \in Configs /\ D.cfg[k] \in Values /\ D.cfg[WorkMode] \in 1 .. 3
  BY ValueFacts DEF DriverType
<1>3. SetValue(D, k) \in RequestType
  BY <1>2 DEF SetValue, Request, RequestType
<1>4. k # ""
  BY ConstantFacts
<1> QED BY <1>1, <1>2, <1>3, <1>4 DEF Requests, Asked, IsSetting

LEMMA GetEffect ==
  ASSUME NEW k \in FlashSet
  PROVE  /\ Request("Get", k, 0) \in Requests /\ Request("Get", k, 0).cmd = "Get"
         /\ Request("Get", k, 0).key = k /\ IsSetting(Request("Get", k, 0))
<1>1. /\ Request("Get", k, 0).cmd = "Get" /\ Request("Get", k, 0).key = k
  BY DEF Request
<1>2. k \in Keys /\ k # "" /\ 0 \in Values
  BY ConstantFacts, ValueFacts
<1>3. Request("Get", k, 0) \in RequestType
  BY <1>2 DEF Request, RequestType
<1> QED BY <1>1, <1>2, <1>3 DEF Requests, Asked, IsSetting

LEMMA SessionEffect ==
  ASSUME NEW c \in SessionCommands
  PROVE  /\ Request(c, "", 0) \in Requests /\ Request(c, "", 0).cmd = c
         /\ Request(c, "", 0).key = "" /\ ~IsSetting(Request(c, "", 0))
<1>1. /\ Request(c, "", 0).cmd = c /\ Request(c, "", 0).key = ""
  BY DEF Request
<1>2. 0 \in Values
  BY ValueFacts
<1>3. Request(c, "", 0) \in RequestType
  BY <1>2 DEF Request, RequestType
<1> QED BY <1>1, <1>3 DEF Requests, Asked, IsSetting

\* A single request.
LEMMA SendOneOK ==
  ASSUME NEW D, DriverOK(D), RepliesOK, NEW r \in Requests, MayAsk(D, r)
  PROVE  DriverOK(SendCommands(D, <<r>>))
<1>1. /\ <<r>> \in Seq(Requests) /\ DOMAIN <<r>> = {1} /\ <<r>>[1] = r
  OBVIOUS
<1>2. /\ \A i \in DOMAIN <<r>> : MayAsk(D, <<r>>[i])
      /\ \A i, j \in DOMAIN <<r>> : Rivals(<<r>>[i], <<r>>[j]) => <<r>>[i] = <<r>>[j]
  BY <1>1
<1> DEFINE rs == <<r>>
<1> HIDE DEF rs
<1> QED BY <1>1, <1>2, SendCommandsOK DEF rs

\* What ConfigureDevice asks for.
ConfigRequests(D) ==
  <<SetValue(D, Coordinate)>>
    \o (IF D.workState # D.cfg[WorkMode] THEN <<SetValue(D, WorkMode)>> ELSE <<>>)
    \o [i \in DOMAIN FlashKeys |-> Request("Get", FlashKeys[i], 0)]

\* The elements of two sequences in one.
LEMMA ElementsOfConcat ==
  ASSUME NEW S, NEW a \in Seq(S), NEW b \in Seq(S)
  PROVE  a \o b \in Seq(S) /\ ToSet(a \o b) = ToSet(a) \cup ToSet(b)
<1> DEFINE c == a \o b
<1>1. /\ c \in Seq(S) /\ Len(c) = Len(a) + Len(b)
      /\ Len(a) \in Nat /\ Len(b) \in Nat
      /\ DOMAIN a = 1 .. Len(a) /\ DOMAIN b = 1 .. Len(b)
      /\ \A i \in 1 .. Len(a) + Len(b) : c[i] =
            IF i <= Len(a) THEN a[i] ELSE b[i - Len(a)]
  BY ConcatProperties, LenProperties
<1> HIDE DEF c
<1>2. DOMAIN c = 1 .. Len(a) + Len(b)
  BY <1>1, LenProperties
<1>3. ASSUME NEW i \in DOMAIN c PROVE c[i] \in ToSet(a) \cup ToSet(b)
  <2>1. CASE i <= Len(a)
    BY <1>1, <1>2, <2>1 DEF ToSet
  <2>2. CASE ~(i <= Len(a))
    <3>1. i - Len(a) \in DOMAIN b /\ c[i] = b[i - Len(a)]
      BY <1>1, <1>2, <2>2
    <3> QED BY <3>1 DEF ToSet
  <2> QED BY <2>1, <2>2
<1>4. ASSUME NEW i \in DOMAIN a PROVE a[i] \in ToSet(c)
  <2>1. i \in DOMAIN c /\ c[i] = a[i]
    BY <1>1, <1>2
  <2> QED BY <2>1 DEF ToSet
<1>5. ASSUME NEW i \in DOMAIN b PROVE b[i] \in ToSet(c)
  <2> DEFINE j == Len(a) + i
  <2>1. j \in 1 .. Len(a) + Len(b) /\ ~(j <= Len(a)) /\ j - Len(a) = i
    BY <1>1
  <2>2. j \in DOMAIN c /\ c[j] = b[i]
    <3> HIDE DEF j
    <3> QED BY <1>1, <1>2, <2>1
  <2> QED BY <2>2 DEF ToSet
<1> QED BY <1>1, <1>3, <1>4, <1>5 DEF ToSet, c

LEMMA ConfigRequestsEffect ==
  ASSUME NEW D \in DriverType
  PROVE  /\ ConfigRequests(D) \in Seq(Requests)
         /\ ToSet(ConfigRequests(D)) =
              ({SetValue(D, Coordinate)}
                 \cup (IF D.workState # D.cfg[WorkMode] THEN {SetValue(D, WorkMode)}
                                                        ELSE {}))
                 \cup {Request("Get", k, 0) : k \in FlashSet}
<1> DEFINE a == <<SetValue(D, Coordinate)>>
           b == IF D.workState # D.cfg[WorkMode] THEN <<SetValue(D, WorkMode)>> ELSE <<>>
           c == [i \in DOMAIN FlashKeys |-> Request("Get", FlashKeys[i], 0)]
<1>1. a \in Seq(Requests) /\ ToSet(a) = {SetValue(D, Coordinate)}
  <2>1. SetValue(D, Coordinate) \in Requests
    BY SetValueEffect, ConstantFacts
  <2>2. a \in Seq(Requests) /\ DOMAIN a = {1} /\ a[1] = SetValue(D, Coordinate)
    BY <2>1
  <2> HIDE DEF a
  <2> QED BY <2>2 DEF ToSet
<1>2. /\ b \in Seq(Requests)
      /\ ToSet(b) = IF D.workState # D.cfg[WorkMode] THEN {SetValue(D, WorkMode)}
                                                     ELSE {}
  <2>1. SetValue(D, WorkMode) \in Requests
    BY SetValueEffect, ConstantFacts
  <2>2. CASE D.workState # D.cfg[WorkMode]
    <3>1. b \in Seq(Requests) /\ DOMAIN b = {1} /\ b[1] = SetValue(D, WorkMode)
      BY <2>1, <2>2
    <3> HIDE DEF b
    <3> QED BY <2>2, <3>1 DEF ToSet
  <2>3. CASE D.workState = D.cfg[WorkMode]
    <3>1. b \in Seq(Requests) /\ DOMAIN b = {}
      BY <2>3
    <3> HIDE DEF b
    <3> QED BY <2>3, <3>1 DEF ToSet
  <2> QED BY <2>2, <2>3
<1>3. c \in Seq(Requests) /\ ToSet(c) = {Request("Get", k, 0) : k \in FlashSet}
  <2> DEFINE n == Len(FlashKeys)
             g(i) == Request("Get", FlashKeys[i], 0)
  <2>1. n \in Nat /\ DOMAIN FlashKeys = 1 .. n
    BY LivoxAssumption, LenProperties
  <2>2. \A i \in 1 .. n : FlashKeys[i] \in FlashSet /\ g(i) \in Requests
    BY <2>1, GetEffect DEF FlashSet
  <2>3. c = [i \in 1 .. n |-> g(i)]
    BY <2>1
  <2>4. c \in Seq(Requests)
    <3> HIDE DEF n, g, c
    <3> QED BY <2>1, <2>2, <2>3
  <2>5. ToSet(c) = {Request("Get", k, 0) : k \in FlashSet}
    BY DEF ToSet, FlashSet
  <2> QED BY <2>4, <2>5
<1>4. ConfigRequests(D) = (a \o b) \o c
  BY DEF ConfigRequests
<1> HIDE DEF a, b, c
<1> DEFINE ab == a \o b
<1>5. ab \in Seq(Requests) /\ ToSet(ab) = ToSet(a) \cup ToSet(b)
  BY <1>1, <1>2, ElementsOfConcat
<1> HIDE DEF ab
<1>6. ab \o c \in Seq(Requests) /\ ToSet(ab \o c) = ToSet(ab) \cup ToSet(c)
  BY <1>3, <1>5, ElementsOfConcat
<1> QED BY <1>1, <1>2, <1>3, <1>4, <1>5, <1>6 DEF ab

\* What it asks for fits a driver that has no settings pending.
LEMMA ConfigRequestsFit ==
  ASSUME NEW R, DriverOK(R), R.state = "Configuring", Settings(R) = {}
  PROVE  LET rs == ConfigRequests(R)
         IN  /\ rs \in Seq(Requests)
             /\ \A i \in DOMAIN rs : MayAsk(R, rs[i]) /\ IsSetting(rs[i])
             /\ \A i, j \in DOMAIN rs : Rivals(rs[i], rs[j]) => rs[i] = rs[j]
             /\ \A i \in DOMAIN rs : rs[i].cmd = "Set" => rs[i].key \notin FlashSet
             /\ \A k \in Formats : \E i \in DOMAIN rs : rs[i].key = k
<1> DEFINE rs == ConfigRequests(R)
<1>1. R \in DriverType /\ R.state = "Configuring"
      /\ \A p \in R.pending : p.key = "" /\ p.cmd # "Handshake"
  BY DEF DriverOK, Settings, IsSetting
<1>6. /\ rs \in Seq(Requests)
      /\ \A i \in DOMAIN rs : \/ rs[i] = SetValue(R, Coordinate)
                              \/ rs[i] = SetValue(R, WorkMode)
                              \/ \E k \in FlashSet : rs[i] = Request("Get", k, 0)
      /\ \E i \in DOMAIN rs : rs[i] = SetValue(R, Coordinate)
      /\ \A k \in FlashSet : \E i \in DOMAIN rs : rs[i] = Request("Get", k, 0)
  <2> DEFINE A == SetValue(R, Coordinate)
             B == SetValue(R, WorkMode)
             G == {Request("Get", k, 0) : k \in FlashSet}
  <2>1. /\ rs \in Seq(Requests)
        /\ ToSet(rs) = ({A} \cup (IF R.workState # R.cfg[WorkMode] THEN {B} ELSE {}))
                         \cup G
    BY <1>1, ConfigRequestsEffect
  <2>2. /\ A \in ToSet(rs) /\ G \subseteq ToSet(rs)
        /\ \A r \in ToSet(rs) : r = A \/ r = B \/ r \in G
    <3> HIDE DEF A, B, G, rs
    <3> QED BY <2>1
  <2>3. /\ \E i \in DOMAIN rs : rs[i] = A
        /\ \A r \in G : \E i \in DOMAIN rs : rs[i] = r
        /\ \A i \in DOMAIN rs : rs[i] \in ToSet(rs)
    <3> HIDE DEF A, B, G, rs
    <3> QED BY <2>2 DEF ToSet
  <2> QED BY <2>1, <2>2, <2>3
<1> HIDE DEF rs
<1>7. ASSUME NEW i \in DOMAIN rs
      PROVE  MayAsk(R, rs[i]) /\ IsSetting(rs[i])
  <2>1. /\ IsSetting(rs[i]) /\ rs[i].cmd # "Handshake"
        /\ rs[i].cmd = "Set" => rs[i].value = R.cfg[rs[i].key]
    <3> DEFINE A == SetValue(R, Coordinate)
               B == SetValue(R, WorkMode)
    <3>0. /\ IsSetting(A) /\ A.cmd = "Set" /\ A.value = R.cfg[A.key]
          /\ IsSetting(B) /\ B.cmd = "Set" /\ B.value = R.cfg[B.key]
      <4>1. Coordinate \in Keys /\ WorkMode \in Keys
        BY ConstantFacts
      <4>2. /\ IsSetting(A) /\ A.cmd = "Set"
            /\ A.key = Coordinate /\ A.value = R.cfg[Coordinate]
        BY <1>1, <4>1, SetValueEffect
      <4>3. /\ IsSetting(B) /\ B.cmd = "Set"
            /\ B.key = WorkMode /\ B.value = R.cfg[WorkMode]
        BY <1>1, <4>1, SetValueEffect
      <4> HIDE DEF A, B
      <4> QED BY <4>2, <4>3
    <3> HIDE DEF A, B
    <3>1. CASE rs[i] = A
      BY <3>0, <3>1
    <3>2. CASE rs[i] = B
      BY <3>0, <3>2
    <3>3. CASE \E k \in FlashSet : rs[i] = Request("Get", k, 0)
      BY <3>3, GetEffect
    <3> QED BY <1>6, <3>1, <3>2, <3>3 DEF A, B
  <2>2. \A p \in R.pending : ~Rivals(p, rs[i])
    BY <1>1, <2>1 DEF IsSetting, Rivals
  <2> QED BY <1>1, <2>1, <2>2 DEF MayAsk, Configured
<1>8. ASSUME NEW i \in DOMAIN rs, NEW j \in DOMAIN rs, Rivals(rs[i], rs[j])
      PROVE  rs[i] = rs[j]
  <2>1. rs[i].key = rs[j].key
    BY <1>8 DEF Rivals
  <2>2. /\ SetValue(R, Coordinate).key = Coordinate
        /\ SetValue(R, WorkMode).key = WorkMode
        /\ \A k \in FlashSet : Request("Get", k, 0).key = k
    <3>1. Coordinate \in Keys /\ WorkMode \in Keys
      BY ConstantFacts
    <3>2. \A k \in FlashSet : Request("Get", k, 0).key = k
      BY GetEffect
    <3> QED BY <1>1, <3>1, <3>2, SetValueEffect
  <2> DEFINE A == SetValue(R, Coordinate)
             B == SetValue(R, WorkMode)
             G(k) == Request("Get", k, 0)
  <2>3. /\ A.key = Coordinate /\ B.key = WorkMode /\ \A k \in FlashSet : G(k).key = k
        /\ rs[i] = A \/ rs[i] = B \/ \E k \in FlashSet : rs[i] = G(k)
        /\ rs[j] = A \/ rs[j] = B \/ \E k \in FlashSet : rs[j] = G(k)
    BY <1>6, <2>2
  <2> HIDE DEF A, B, G
  <2>4. CASE rs[i] = A
    BY <2>1, <2>3, <2>4, ConstantFacts
  <2>5. CASE rs[i] = B
    BY <2>1, <2>3, <2>5, ConstantFacts
  <2>6. CASE \E k \in FlashSet : rs[i] = G(k)
    BY <2>1, <2>3, <2>6, ConstantFacts
  <2> QED BY <2>3, <2>4, <2>5, <2>6
<1>9. \A i \in DOMAIN rs : rs[i].cmd = "Set" => rs[i].key \notin FlashSet
  <2>1. /\ SetValue(R, Coordinate).key = Coordinate
        /\ SetValue(R, WorkMode).key = WorkMode
        /\ \A k \in FlashSet : Request("Get", k, 0).cmd = "Get"
    <3>1. Coordinate \in Keys /\ WorkMode \in Keys
      BY ConstantFacts
    <3>2. \A k \in FlashSet : Request("Get", k, 0).cmd = "Get"
      BY GetEffect
    <3> QED BY <1>1, <3>1, <3>2, SetValueEffect
  <2> DEFINE A == SetValue(R, Coordinate)
             B == SetValue(R, WorkMode)
             G(k) == Request("Get", k, 0)
  <2>2. /\ A.key = Coordinate /\ B.key = WorkMode
        /\ \A k \in FlashSet : G(k).cmd = "Get"
        /\ \A i \in DOMAIN rs : rs[i] = A \/ rs[i] = B \/ \E k \in FlashSet : rs[i] = G(k)
    BY <1>6, <2>1
  <2> HIDE DEF A, B, G
  <2> QED BY <2>2, ConstantFacts
<1>10. \A k \in Formats : \E i \in DOMAIN rs : rs[i].key = k
  <2>1. SetValue(R, Coordinate).key = Coordinate
    BY <1>1, SetValueEffect, ConstantFacts
  <2>2. \A k \in FlashSet : Request("Get", k, 0).key = k
    BY GetEffect
  <2> QED BY <1>6, <2>1, <2>2 DEF Formats
<1> QED BY <1>6, <1>7, <1>8, <1>9, <1>10 DEF rs

\* ConfigureDevice(), after it has reset what was known of the last one.
Reset(D) ==
  [D EXCEPT !.state = "Configuring", !.configFailed = FALSE, !.samplingSent = FALSE]

LEMMA ResetEffect ==
  ASSUME NEW D, DriverOK(D), Settings(D) = {}, D.state # "Handshaking"
  PROVE  LET R == Reset(D)
         IN  /\ DriverOK(R) /\ R.pending = D.pending /\ R.out = D.out /\ R.cfg = D.cfg
             /\ R.state = "Configuring" /\ R.workState = D.workState
             /\ R.firmwareKnown = D.firmwareKnown /\ R.configFailed = FALSE
             /\ R.samplingSent = FALSE /\ Settings(R) = {}
             /\ ConfigRequests(R) = ConfigRequests(D)
<1> DEFINE R == Reset(D)
<1>1. D \in DriverType /\ \A p \in D.pending : p.key = "" /\ p.cmd # "Handshake"
  BY DEF DriverOK, Settings, IsSetting
<1>2. /\ R \in DriverType /\ R.pending = D.pending /\ R.out = D.out /\ R.cfg = D.cfg
      /\ R.state = "Configuring" /\ R.workState = D.workState
      /\ R.firmwareKnown = D.firmwareKnown /\ R.configFailed = FALSE
      /\ R.samplingSent = FALSE
  BY <1>1 DEF Reset, DriverType
<1> HIDE DEF R
<1>3. DriverOK(R)
  BY <1>1, <1>2, FewerOK DEF Configured
<1>4. SetValue(R, Coordinate) = SetValue(D, Coordinate)
      /\ SetValue(R, WorkMode) = SetValue(D, WorkMode)
  BY <1>2 DEF SetValue
<1>5. ConfigRequests(R) = ConfigRequests(D)
  BY <1>2, <1>4 DEF ConfigRequests
<1>6. Settings(R) = {}
  BY <1>2 DEF Settings
<1> QED BY <1>2, <1>3, <1>5, <1>6 DEF R

LEMMA ConfigureDeviceIs ==
  ASSUME NEW D, DriverOK(D), RepliesOK, Settings(D) = {}, D.state # "Handshaking"
  PROVE  ConfigureDevice(D) =
           IF D.cfg \in Unsupported THEN [Reset(D) EXCEPT !.configFailed = TRUE]
                                    ELSE SendCommands(Reset(D), ConfigRequests(D))
<1> DEFINE R == Reset(D)
           rs == ConfigRequests(R)
           S == SendCommands(R, rs)
<1>1. DriverOK(R) /\ R.state = "Configuring" /\ Settings(R) = {}
      /\ rs = ConfigRequests(D)
  BY ResetEffect
<1> HIDE DEF R
<1>2. /\ rs \in Seq(Requests) /\ \A i \in DOMAIN rs : IsSetting(rs[i])
      /\ \E i \in DOMAIN rs : TRUE
  BY <1>1, ConfigRequestsFit DEF Formats
<1> HIDE DEF rs
<1>3. Settings(S) # {}
  <2>1. PICK i \in DOMAIN rs : TRUE
    BY <1>2
  <2> DEFINE p == Pending(NextSequence(R, rs[i]), rs[i])
  <2>2. p \in S.pending
    BY <1>1, <1>2, SendCommandsEffect
  <2>3. p.key = rs[i].key
    BY DEF Pending
  <2>4. IsSetting(p)
    BY <1>2, <2>3 DEF IsSetting
  <2> HIDE DEF S, p
  <2> QED BY <2>2, <2>4 DEF Settings
<1>4. CASE D.cfg \in Unsupported
  BY <1>4 DEF ConfigureDevice, Reset
<1>5. CASE D.cfg \notin Unsupported
  <2>1. FinishConfiguration(S) = S
    BY <1>3 DEF FinishConfiguration
  <2>2. ConfigureDevice(D) = FinishConfiguration(SendCommands(Reset(D), ConfigRequests(D)))
    BY <1>5 DEF ConfigureDevice, ConfigRequests, Reset
  <2>3. SendCommands(Reset(D), ConfigRequests(D)) = S
    BY <1>1 DEF R
  <2> HIDE DEF S
  <2> QED BY <1>5, <2>1, <2>2, <2>3
<1> QED BY <1>4, <1>5

-----------------------------------------------------------------------------
(* What sendCommand() does to what is known of the device *)

\* A write to flash that the device v needs, and none is under way.
Needed(D, v, r) ==
  /\ v.value[r.key] # r.value
  /\ \A j \in DOMAIN D.out : ~Sets(D.out[j], r.key)

\* Requests go behind what is under way: they undo nothing that a pending request
\* or an answer tells, and each is for a setting that is then asked for.
LEMMA SendCommandsSound ==
  ASSUME NEW D, NEW v, Sound(D, replies, v), RepliesOK, NEW rs \in Seq(Requests),
         \A i \in DOMAIN rs : MayAsk(D, rs[i]),
         \A i, j \in DOMAIN rs : Rivals(rs[i], rs[j]) => rs[i] = rs[j],
         \A i \in DOMAIN rs : rs[i].cmd = "Set" /\ rs[i].key \in FlashSet =>
           DOMAIN rs = {1} /\ Needed(D, v, rs[i])
  PROVE  LET E == SendCommands(D, rs)
         IN  /\ Sound(E, replies, v)
             /\ \A k : Applied(D, v, k) => Applied(E, v, k)
             /\ \A i \in DOMAIN rs : Applied(E, v, rs[i].key)
<1> DEFINE E == SendCommands(D, rs)
           seq(i) == NextSequence(D, rs[i])
           new(i) == Pending(seq(i), rs[i])
           dat(i) == Datagram(seq(i), rs[i], FALSE)
           n == Len(D.out)
<1>1. DriverOK(D) /\ Linked(D) /\ Follows(D, replies, v) /\ Firsts(D, v)
  BY DEF Sound
<1>2. /\ E.state = D.state /\ E.cfg = D.cfg /\ E.firmwareKnown = D.firmwareKnown
      /\ D.pending \subseteq E.pending
      /\ \A i \in DOMAIN rs : new(i) \in E.pending
      /\ \A p \in E.pending : p \in D.pending \/ \E i \in DOMAIN rs : p = new(i)
      /\ \A i \in DOMAIN E.out :
           \/ i \in DOMAIN D.out /\ E.out[i] = D.out[i]
           \/ i > n /\ i - n \in DOMAIN rs /\ E.out[i] = dat(i - n)
      /\ E.out \in Seq(Datagrams)
  <2>1. DriverOK(D)
    BY <1>1
  <2>2. E \in DriverType
    BY <2>1, SendCommandsEffect
  <2>3. E.out \in Seq(Datagrams)
    <3> HIDE DEF E
    <3> QED BY <2>2 DEF DriverType
  <2> QED BY <2>1, <2>3, SendCommandsEffect
<1>3. DriverOK(E)
  BY <1>1, SendCommandsOK
<1>4. /\ n \in Nat /\ DOMAIN D.out = 1 .. n
      /\ DOMAIN E.out \subseteq Nat /\ DOMAIN rs \subseteq Nat
  BY <1>1, <1>2, LenProperties DEF DriverOK, DriverType
<1>5. \A i \in DOMAIN rs :
        /\ new(i).seq = seq(i) /\ new(i).cmd = rs[i].cmd
        /\ new(i).key = rs[i].key /\ new(i).value = rs[i].value
        /\ dat(i).seq = seq(i) /\ dat(i).cmd = rs[i].cmd
        /\ dat(i).key = rs[i].key /\ dat(i).value = rs[i].value
  BY DEF Pending, Datagram
<1>6. \A i \in DOMAIN rs :
        /\ \A j \in DOMAIN D.out : ~(D.out[j].seq = seq(i) /\ Alike(D.out[j], rs[i]))
        /\ \A j \in DOMAIN replies :
             ~(replies[j].seq = seq(i) /\ Alike(replies[j], rs[i]))
  BY <1>1, NextSequenceEffect
<1> HIDE DEF E, seq, new, dat, n
<1>7. ASSUME NEW i \in DOMAIN rs
      PROVE  \A j \in DOMAIN rs : Harmless(new(i), dat(j))
  <2> SUFFICES ASSUME NEW j \in DOMAIN rs PROVE Harmless(new(i), dat(j))
    OBVIOUS
  <2>1. rs[i].cmd = "DeviceInfo" => rs[j].cmd # "Handshake"
    BY DEF MayAsk
  <2>2. rs[i].key = rs[j].key /\ rs[j].cmd = "Set" => rs[i] = rs[j]
    <3>1. rs[j].cmd = "Set" => rs[j].key # ""
      <4>1. rs[j] \in Requests
        BY ElementOfSeq, LenProperties
      <4> QED BY <4>1, ConstantFacts DEF Requests, Asked, SessionCommands
    <3> QED BY <3>1 DEF Rivals
  <2> QED BY <1>5, <2>1, <2>2 DEF Harmless, Sets
<1>8. ASSUME NEW p \in D.pending
      PROVE  \A j \in DOMAIN rs : Harmless(p, dat(j))
  <2> SUFFICES ASSUME NEW j \in DOMAIN rs PROVE Harmless(p, dat(j))
    OBVIOUS
  <2>1. p.cmd = "DeviceInfo" => rs[j].cmd # "Handshake"
    BY <1>1 DEF MayAsk, DriverOK
  <2>2. ~(p.key = rs[j].key /\ rs[j].cmd = "Set")
    <3>1. rs[j].cmd = "Set" => rs[j].key # ""
      <4>1. rs[j] \in Requests
        BY ElementOfSeq, LenProperties
      <4> QED BY <4>1, ConstantFacts DEF Requests, Asked, SessionCommands
    <3> QED BY <3>1 DEF MayAsk, Rivals
  <2> QED BY <1>5, <2>1, <2>2 DEF Harmless, Sets
<1>9. Linked(E)
  <2>1. D.firmwareKnown => \A i \in DOMAIN rs : rs[i].cmd # "Handshake"
    BY <1>1 DEF Linked, MayAsk
  <2> QED BY <1>1, <1>2, <1>5, <2>1 DEF Linked, Configured
<1>10. ASSUME NEW p \in D.pending
       PROVE  /\ \A i, j \in DOMAIN E.out :
                   Of(E.out[i], p) /\ i <= j => Harmless(p, E.out[j])
              /\ \A i \in DOMAIN replies : Of(replies[i], p) =>
                   AllHarmless(E, p) /\ Told(p, replies[i], v)
  <2>1. /\ \A i, j \in DOMAIN D.out :
             Of(D.out[i], p) /\ i <= j => Harmless(p, D.out[j])
        /\ \A i \in DOMAIN replies : Of(replies[i], p) =>
             AllHarmless(D, p) /\ Told(p, replies[i], v)
    BY <1>1 DEF Follows
  <2>2. ASSUME NEW i \in DOMAIN E.out, NEW j \in DOMAIN E.out, Of(E.out[i], p), i <= j
        PROVE  Harmless(p, E.out[j])
    <3>1. CASE j \in DOMAIN D.out /\ E.out[j] = D.out[j]
      <4>1. i \in DOMAIN D.out /\ E.out[i] = D.out[i]
        BY <1>2, <1>4, <2>2, <3>1
      <4> QED BY <2>1, <2>2, <3>1, <4>1
    <3>2. CASE j - n \in DOMAIN rs /\ E.out[j] = dat(j - n)
      BY <1>8, <3>2
    <3> QED BY <1>2, <3>1, <3>2
  <2>3. AllHarmless(D, p) => AllHarmless(E, p)
    BY <1>2, <1>8 DEF AllHarmless
  <2> QED BY <2>1, <2>2, <2>3
<1>11. ASSUME NEW k \in DOMAIN rs
       PROVE  /\ \A i, j \in DOMAIN E.out :
                   Of(E.out[i], new(k)) /\ i <= j => Harmless(new(k), E.out[j])
              /\ \A i \in DOMAIN replies : ~Of(replies[i], new(k))
  <2>1. ASSUME NEW i \in DOMAIN E.out, NEW j \in DOMAIN E.out,
               Of(E.out[i], new(k)), i <= j
        PROVE  Harmless(new(k), E.out[j])
    <3>1. ~(i \in DOMAIN D.out /\ E.out[i] = D.out[i])
      BY <1>5, <1>6, <2>1 DEF Of, Alike
    <3>2. i > n
      BY <1>2, <3>1
    <3>3. ~(j \in DOMAIN D.out)
      BY <1>4, <2>1, <3>2
    <3>4. j - n \in DOMAIN rs /\ E.out[j] = dat(j - n)
      BY <1>2, <3>3
    <3> QED BY <1>7, <3>4
  <2>2. \A i \in DOMAIN replies : ~Of(replies[i], new(k))
    BY <1>5, <1>6 DEF Of, Alike
  <2> QED BY <2>1, <2>2
<1>12. Follows(E, replies, v)
  BY <1>2, <1>10, <1>11 DEF Follows
<1>13. Firsts(E, v)
  <2> SUFFICES ASSUME NEW i \in DOMAIN E.out, E.out[i].cmd = "Set",
                      E.out[i].key \in FlashSet, ~E.out[i].again
               PROVE  /\ v.value[E.out[i].key] # E.out[i].value
                      /\ \A j \in DOMAIN E.out : j < i => ~Sets(E.out[j], E.out[i].key)
    BY DEF Firsts
  <2>1. CASE i \in DOMAIN D.out /\ E.out[i] = D.out[i]
    <3>1. /\ v.value[D.out[i].key] # D.out[i].value
          /\ \A j \in DOMAIN D.out : j < i => ~Sets(D.out[j], D.out[i].key)
      BY <1>1, <2>1 DEF Firsts
    <3>2. \A j \in DOMAIN E.out : j < i => j \in DOMAIN D.out /\ E.out[j] = D.out[j]
      BY <1>2, <1>4, <2>1
    <3> QED BY <2>1, <3>1, <3>2
  <2>2. CASE i > n /\ i - n \in DOMAIN rs /\ E.out[i] = dat(i - n)
    <3> DEFINE r == rs[i - n]
    <3>1. /\ r.cmd = "Set" /\ r.key = E.out[i].key /\ r.value = E.out[i].value
      BY <1>5, <2>2
    <3>2. DOMAIN rs = {1} /\ Needed(D, v, r)
      BY <2>2, <3>1
    <3>3. \A j \in DOMAIN E.out : j < i => j \in DOMAIN D.out /\ E.out[j] = D.out[j]
      <4> SUFFICES ASSUME NEW j \in DOMAIN E.out, j < i, j > n, j - n \in DOMAIN rs
                   PROVE  FALSE
        BY <1>2
      <4>1. j - n = 1 /\ i - n = 1
        BY <2>2, <3>2
      <4> QED BY <1>4, <4>1
    <3> HIDE DEF r
    <3> QED BY <3>1, <3>2, <3>3 DEF Needed
  <2> QED BY <1>2, <2>1, <2>2
<1>14. ASSUME NEW k, Applied(D, v, k) PROVE Applied(E, v, k)
  <2>1. Same(D, k) => Same(E, k)
    <3> SUFFICES ASSUME Same(D, k), NEW j \in DOMAIN E.out, Sets(E.out[j], k)
                 PROVE  E.out[j].value = E.cfg[k]
      BY DEF Same
    <3>1. CASE j \in DOMAIN D.out /\ E.out[j] = D.out[j]
      BY <1>2, <3>1 DEF Same
    <3>2. CASE j - n \in DOMAIN rs /\ E.out[j] = dat(j - n)
      BY <1>2, <1>5, <3>2 DEF Sets, MayAsk
    <3> QED BY <1>2, <3>1, <3>2
  <2>2. Has(D, v, k) => Has(E, v, k)
    BY <1>2 DEF Has
  <2> QED BY <1>2, <1>14, <2>1, <2>2 DEF Applied
<1>15. \A i \in DOMAIN rs : Applied(E, v, rs[i].key)
  BY <1>2, <1>5 DEF Applied
<1> QED BY <1>3, <1>9, <1>12, <1>13, <1>14, <1>15 DEF Sound, E

-----------------------------------------------------------------------------
(* What the driver's functions make of what is known of the device *)

\* Requests of the same kinds and numbers, or fewer, and nothing new under way.
LEMMA FewerSound ==
  ASSUME NEW D, NEW v, Sound(D, replies, v), NEW E, DriverOK(E), Linked(E),
         E.out = D.out,
         \A p \in E.pending : \E q \in D.pending :
           p.seq = q.seq /\ p.cmd = q.cmd /\ p.key = q.key /\ p.value = q.value
  PROVE  Sound(E, replies, v)
<1>1. Follows(D, replies, v) /\ Firsts(D, v)
  BY DEF Sound
<1>2. ASSUME NEW p \in E.pending
      PROVE  /\ \A i, j \in DOMAIN E.out :
                  Of(E.out[i], p) /\ i <= j => Harmless(p, E.out[j])
             /\ \A i \in DOMAIN replies : Of(replies[i], p) =>
                  AllHarmless(E, p) /\ Told(p, replies[i], v)
  <2>1. PICK q \in D.pending :
          p.seq = q.seq /\ p.cmd = q.cmd /\ p.key = q.key /\ p.value = q.value
    OBVIOUS
  <2>2. /\ \A i, j \in DOMAIN D.out :
             Of(D.out[i], q) /\ i <= j => Harmless(q, D.out[j])
        /\ \A i \in DOMAIN replies : Of(replies[i], q) =>
             AllHarmless(D, q) /\ Told(q, replies[i], v)
    BY <1>1 DEF Follows
  <2>3. \A m : (Of(m, p) <=> Of(m, q)) /\ (Harmless(p, m) <=> Harmless(q, m))
    BY <2>1 DEF Of, Alike, Harmless
  <2>4. \A m : Told(p, m, v) <=> Told(q, m, v)
    BY <2>1 DEF Told
  <2>5. AllHarmless(E, p) <=> AllHarmless(D, q)
    BY <2>3 DEF AllHarmless
  <2> QED BY <2>2, <2>3, <2>4, <2>5
<1>3. Follows(E, replies, v)
  BY <1>2 DEF Follows
<1>4. Firsts(E, v)
  BY <1>1 DEF Firsts
<1> QED BY <1>3, <1>4 DEF Sound

\* A setting that was applied is, unless its request is no longer pending.
LEMMA StillApplied ==
  ASSUME NEW D, NEW E, NEW v, NEW k, Applied(D, v, k), E.out = D.out, E.cfg = D.cfg,
         (\E p \in D.pending : p.key = k) => \E p \in E.pending : p.key = k
  PROVE  Applied(E, v, k)
BY DEF Applied, Same, Has

LEMMA AllStillApplied ==
  ASSUME NEW D, NEW E, NEW v, AllApplied(D, v), E.state = D.state,
         E.configFailed = D.configFailed, E.samplingSent = D.samplingSent,
         E.cfg = D.cfg,
         \A k \in Formats \cup {Sampling} : Applied(D, v, k) => Applied(E, v, k)
  PROVE  AllApplied(E, v)
BY DEF AllApplied, Configured

\* A single request.
LEMMA SendOneSound ==
  ASSUME NEW D, NEW v, Sound(D, replies, v), RepliesOK, NEW r \in Requests,
         MayAsk(D, r), r.cmd = "Set" /\ r.key \in FlashSet => Needed(D, v, r)
  PROVE  LET E == SendCommands(D, <<r>>)
         IN  /\ Sound(E, replies, v)
             /\ E.state = D.state /\ E.configFailed = D.configFailed
             /\ E.samplingSent = D.samplingSent /\ E.cfg = D.cfg
             /\ \A k : Applied(D, v, k) => Applied(E, v, k)
             /\ Applied(E, v, r.key)
<1> DEFINE rs == <<r>>
           E == SendCommands(D, rs)
<1>1. rs \in Seq(Requests) /\ DOMAIN rs = {1} /\ rs[1] = r
  OBVIOUS
<1> HIDE DEF rs
<1>2. /\ \A i \in DOMAIN rs : MayAsk(D, rs[i])
      /\ \A i, j \in DOMAIN rs : Rivals(rs[i], rs[j]) => rs[i] = rs[j]
      /\ \A i \in DOMAIN rs : rs[i].cmd = "Set" /\ rs[i].key \in FlashSet =>
           DOMAIN rs = {1} /\ Needed(D, v, rs[i])
  BY <1>1
<1>3. /\ Sound(E, replies, v)
      /\ \A k : Applied(D, v, k) => Applied(E, v, k)
      /\ \A i \in DOMAIN rs : Applied(E, v, rs[i].key)
  BY <1>1, <1>2, SendCommandsSound
<1>4. DriverOK(D)
  BY DEF Sound
<1>5. /\ E.state = D.state /\ E.configFailed = D.configFailed
      /\ E.samplingSent = D.samplingSent /\ E.cfg = D.cfg
  BY <1>1, <1>4, SendCommandsEffect
<1> QED BY <1>1, <1>3, <1>5 DEF rs

LEMMA ReconnectSound ==
  ASSUME NEW D, NEW v, Sound(D, replies, v)
  PROVE  Sound(Reconnect(D), replies, v) /\ AllApplied(Reconnect(D), v)
<1> DEFINE R == Reconnect(D)
<1>1. DriverOK(D)
  BY DEF Sound
<1>2. /\ DriverOK(R) /\ R.pending = {} /\ R.state = "Discovering" /\ R.out = D.out
  BY <1>1, ReconnectOK
<1>3. R.firmwareKnown = FALSE
  BY DEF Reconnect, Fresh
<1> HIDE DEF R
<1>4. Linked(R) /\ AllApplied(R, v)
  BY <1>2, <1>3 DEF Linked, AllApplied, Configured
<1>5. Sound(R, replies, v)
  BY <1>2, <1>4, FewerSound
<1> QED BY <1>4, <1>5 DEF R

\* The configuration begins, for a driver that knows the firmware.
LEMMA ConfigureDeviceSound ==
  ASSUME NEW D, NEW v, Sound(D, replies, v), RepliesOK, Settings(D) = {},
         D.state # "Handshaking", D.firmwareKnown
  PROVE  Sound(ConfigureDevice(D), replies, v) /\ AllApplied(ConfigureDevice(D), v)
<1> DEFINE R == Reset(D)
           rs == ConfigRequests(R)
           S == SendCommands(R, rs)
           U == [R EXCEPT !.configFailed = TRUE]
<1>1. DriverOK(D) /\ Linked(D)
  BY DEF Sound
<1>2. /\ DriverOK(R) /\ R.pending = D.pending /\ R.out = D.out /\ R.cfg = D.cfg
      /\ R.state = "Configuring" /\ R.firmwareKnown = D.firmwareKnown
      /\ R.configFailed = FALSE /\ R.samplingSent = FALSE /\ Settings(R) = {}
      /\ rs = ConfigRequests(D)
  BY <1>1, ResetEffect
<1>3. ConfigureDevice(D) = IF D.cfg \in Unsupported THEN U ELSE S
  BY <1>1, <1>2, ConfigureDeviceIs
<1> HIDE DEF R
<1>4. Linked(R)
  BY <1>1, <1>2 DEF Linked
<1>5. Sound(R, replies, v)
  BY <1>2, <1>4, FewerSound
<1>6. /\ U.configFailed = TRUE /\ U.pending = R.pending /\ U.out = R.out
      /\ U.cfg = R.cfg /\ U.state = R.state /\ U.firmwareKnown = R.firmwareKnown
      /\ U \in DriverType
  BY <1>2 DEF DriverOK, DriverType
<1>7. /\ rs \in Seq(Requests)
      /\ \A i \in DOMAIN rs : MayAsk(R, rs[i])
      /\ \A i, j \in DOMAIN rs : Rivals(rs[i], rs[j]) => rs[i] = rs[j]
      /\ \A i \in DOMAIN rs : rs[i].cmd = "Set" => rs[i].key \notin FlashSet
      /\ \A k \in Formats : \E i \in DOMAIN rs : rs[i].key = k
  BY <1>2, ConfigRequestsFit
<1> HIDE DEF rs, U
<1>8. /\ Sound(S, replies, v)
      /\ \A i \in DOMAIN rs : Applied(S, v, rs[i].key)
  BY <1>5, <1>7, SendCommandsSound
<1>9. S.state = "Configuring" /\ S.samplingSent = FALSE
  BY <1>2, <1>7, SendCommandsEffect
<1>10. Sound(U, replies, v) /\ AllApplied(U, v)
  <2>1. DriverOK(U)
    BY <1>2, <1>6, FewerOK
  <2>2. Linked(U)
    BY <1>4, <1>6 DEF Linked, Configured
  <2>3. Sound(U, replies, v)
    BY <1>5, <1>6, <2>1, <2>2, FewerSound
  <2> QED BY <1>6, <2>3 DEF AllApplied
<1>11. AllApplied(S, v)
  <2> HIDE DEF S
  <2>1. \A k \in Formats : Applied(S, v, k)
    BY <1>7, <1>8
  <2> QED BY <1>9, <2>1 DEF AllApplied
<1> QED BY <1>3, <1>8, <1>10, <1>11

LEMMA FinishConfigurationSound ==
  ASSUME NEW D, NEW v, Sound(D, replies, v), RepliesOK, AllApplied(D, v)
  PROVE  /\ Sound(FinishConfiguration(D), replies, v)
         /\ AllApplied(FinishConfiguration(D), v)
<1>1. DriverOK(D) /\ Linked(D) /\ D \in DriverType
  BY DEF Sound, DriverOK
<1>2. CASE D.state # "Configuring" \/ D.configFailed \/ Settings(D) # {}
  BY <1>2 DEF FinishConfiguration
<1>3. CASE ~(D.state # "Configuring" \/ D.configFailed \/ Settings(D) # {})
  <2>1. /\ D.state = "Configuring" /\ D.configFailed = FALSE
        /\ \A p \in D.pending : p.key = "" /\ p.cmd # "Handshake"
    BY <1>1, <1>3 DEF Settings, IsSetting, DriverOK, DriverType
  <2>2. CASE ~D.samplingSent /\ (D.cfg[WorkMode] = 1 \/ D.cfg[Sampling] = 0)
    <3> DEFINE E == [D EXCEPT !.samplingSent = TRUE]
               r == SetValue(D, Sampling)
               F == SendCommands(E, <<r>>)
    <3>1. FinishConfiguration(D) = F
      BY <1>3, <2>2 DEF FinishConfiguration
    <3>2. /\ E.state = D.state /\ E.configFailed = D.configFailed /\ E.cfg = D.cfg
          /\ E.pending = D.pending /\ E.out = D.out
          /\ E.firmwareKnown = D.firmwareKnown /\ E \in DriverType
      BY <1>1 DEF DriverType
    <3>3. /\ r \in Requests /\ r.cmd = "Set" /\ r.key = Sampling
          /\ r.value = D.cfg[Sampling] /\ IsSetting(r)
      BY <1>1, SetValueEffect, ConstantFacts
    <3> HIDE DEF E, r
    <3>4. DriverOK(E)
      BY <1>1, <3>2, FewerOK
    <3>5. Linked(E)
      BY <1>1, <3>2 DEF Linked, Configured
    <3>6. Sound(E, replies, v)
      BY <3>2, <3>4, <3>5, FewerSound
    <3>7. MayAsk(E, r)
      BY <2>1, <3>2, <3>3 DEF MayAsk, Configured, IsSetting, Rivals
    <3>8. ~(r.key \in FlashSet)
      BY <3>3, ConstantFacts
    <3>9. /\ Sound(F, replies, v)
          /\ F.state = E.state /\ F.configFailed = E.configFailed /\ F.cfg = E.cfg
          /\ \A k : Applied(E, v, k) => Applied(F, v, k)
          /\ Applied(F, v, r.key)
      BY <3>3, <3>6, <3>7, <3>8, SendOneSound
    <3> HIDE DEF F
    <3>10. \A k \in Formats : Applied(F, v, k)
      <4> SUFFICES ASSUME NEW k \in Formats PROVE Applied(F, v, k)
        OBVIOUS
      <4>1. Applied(D, v, k)
        BY <2>1 DEF AllApplied, Configured
      <4>2. Applied(E, v, k)
        BY <3>2, <4>1, StillApplied
      <4> QED BY <3>9, <4>2
    <3>11. AllApplied(F, v)
      BY <2>1, <3>2, <3>3, <3>9, <3>10 DEF AllApplied
    <3> QED BY <3>1, <3>9, <3>11
  <2>3. CASE ~(~D.samplingSent /\ (D.cfg[WorkMode] = 1 \/ D.cfg[Sampling] = 0))
    <3> DEFINE E == [D EXCEPT !.samplingSent = TRUE, !.state = "Connected"]
    <3>1. FinishConfiguration(D) = E
      BY <1>3, <2>3 DEF FinishConfiguration
    <3>2. /\ E.state = "Connected" /\ E.configFailed = D.configFailed /\ E.cfg = D.cfg
          /\ E.pending = D.pending /\ E.out = D.out /\ E.samplingSent = TRUE
          /\ E.firmwareKnown = D.firmwareKnown /\ E \in DriverType
      BY <1>1 DEF DriverType
    <3> HIDE DEF E
    <3>3. DriverOK(E)
      BY <1>1, <2>1, <3>2, FewerOK DEF Configured
    <3>4. Linked(E)
      BY <1>1, <2>1, <3>2 DEF Linked, Configured
    <3>5. Sound(E, replies, v)
      BY <3>2, <3>3, <3>4, FewerSound
    <3>6. \A k : Applied(D, v, k) => Applied(E, v, k)
      BY <3>2, StillApplied
    <3>7. AllApplied(E, v)
      BY <2>1, <2>3, <3>2, <3>6 DEF AllApplied, Configured
    <3> QED BY <3>1, <3>5, <3>7
  <2> QED BY <2>2, <2>3
<1> QED BY <1>2, <1>3

LEMMA HandleBroadcastSound ==
  ASSUME NEW D, NEW v, Sound(D, replies, v), RepliesOK, AllApplied(D, v)
  PROVE  /\ Sound(HandleBroadcast(D), replies, v)
         /\ AllApplied(HandleBroadcast(D), v)
<1>1. CASE D.state = "Handshaking"
  BY <1>1 DEF HandleBroadcast
<1>2. CASE D.state # "Handshaking"
  <2> DEFINE R == Reconnect(D)
             E == [R EXCEPT !.state = "Handshaking"]
             r == Request("Handshake", "", 0)
             F == SendCommands(E, <<r>>)
  <2>1. HandleBroadcast(D) = F
    BY <1>2 DEF HandleBroadcast
  <2>2. Sound(R, replies, v) /\ DriverOK(R) /\ R.pending = {} /\ R.firmwareKnown = FALSE
    <3>1. DriverOK(D)
      BY DEF Sound
    <3>2. R.firmwareKnown = FALSE
      BY DEF Reconnect, Fresh
    <3> QED BY <3>1, <3>2, ReconnectSound, ReconnectOK
  <2>3. r \in Requests /\ r.cmd = "Handshake" /\ r.key = "" /\ ~IsSetting(r)
    BY SessionEffect DEF SessionCommands
  <2> HIDE DEF R, r
  <2>4. /\ E.state = "Handshaking" /\ E.pending = {} /\ E.out = R.out
        /\ E.cfg = R.cfg /\ E.firmwareKnown = FALSE /\ E \in DriverType
    BY <2>2 DEF DriverOK, DriverType
  <2> HIDE DEF E
  <2>5. DriverOK(E)
    BY <2>2, <2>4 DEF DriverOK
  <2>6. Linked(E)
    BY <2>4 DEF Linked, Configured
  <2>7. Sound(E, replies, v)
    BY <2>2, <2>4, <2>5, <2>6, FewerSound
  <2>8. MayAsk(E, r)
    BY <2>3, <2>4 DEF MayAsk
  <2>9. Sound(F, replies, v) /\ F.state = E.state
    BY <2>3, <2>7, <2>8, SendOneSound
  <2> HIDE DEF F
  <2>10. AllApplied(F, v)
    BY <2>4, <2>9 DEF AllApplied, Configured
  <2> QED BY <2>1, <2>9, <2>10
<1> QED BY <1>1, <1>2

\* The next heartbeat.
LEMMA HeartbeatSound ==
  ASSUME NEW D, NEW v, Sound(D, replies, v), RepliesOK, AllApplied(D, v)
  PROVE  Sound(Heartbeat(D), replies, v) /\ AllApplied(Heartbeat(D), v)
<1> DEFINE r == Request("Heartbeat", "", 0)
           F == SendCommands(D, <<r>>)
           skip == D.state \in {"Discovering", "Handshaking"}
                     \/ \E p \in D.pending : p.cmd = "Heartbeat"
<1>1. CASE skip
  BY <1>1 DEF Heartbeat
<1>2. CASE ~skip
  <2>1. Heartbeat(D) = F
    BY <1>2 DEF Heartbeat
  <2>2. r \in Requests /\ r.cmd = "Heartbeat" /\ r.key = "" /\ ~IsSetting(r)
    BY SessionEffect DEF SessionCommands
  <2> HIDE DEF r
  <2>3. MayAsk(D, r)
    BY <1>2, <2>2 DEF MayAsk, Rivals
  <2>4. /\ Sound(F, replies, v) /\ F.state = D.state
        /\ F.configFailed = D.configFailed /\ F.samplingSent = D.samplingSent
        /\ F.cfg = D.cfg /\ \A k : Applied(D, v, k) => Applied(F, v, k)
    BY <2>2, <2>3, SendOneSound
  <2> HIDE DEF F
  <2>5. AllApplied(F, v)
    BY <2>4, AllStillApplied
  <2> QED BY <2>1, <2>4, <2>5
<1> QED BY <1>1, <1>2

\* A request is repeated, behind what is under way, or given up.
LEMMA RetryOrGiveUpSound ==
  ASSUME NEW D, NEW v, Sound(D, replies, v), AllApplied(D, v), NEW p \in D.pending
  PROVE  Sound(RetryOrGiveUp(D, p), replies, v) /\ AllApplied(RetryOrGiveUp(D, p), v)
<1>1. DriverOK(D) /\ Linked(D) /\ Follows(D, replies, v) /\ Firsts(D, v)
      /\ D \in DriverType /\ p \in Pendings
  BY DEF Sound, DriverOK, DriverType
<1>2. CASE MayRepeat(p)
  <2> DEFINE q == [p EXCEPT !.attempts = @ + 1]
             m == Datagram(p.seq, p, TRUE)
             E == RetryOrGiveUp(D, p)
             T == Transmit(D.out, <<m>>)
             n == Len(D.out)
  <2>1. /\ q.seq = p.seq /\ q.cmd = p.cmd /\ q.key = p.key /\ q.value = p.value
        /\ m.seq = p.seq /\ m.cmd = p.cmd /\ m.key = p.key /\ m.value = p.value
        /\ m.again = TRUE
    BY <1>1 DEF Datagram, Pendings, PendingType
  <2>2. q \in Pendings
    <3>1. p.attempts \in 1 .. MaxAttempts /\ p.attempts + 1 \in 1 .. MaxAttempts
      <4>1. p.attempts \in 1 .. MaxAttempts
        BY <1>1 DEF Pendings, PendingType
      <4>2. p.attempts < MaxAttempts
        BY <1>2 DEF MayRepeat
      <4> QED BY <4>1, <4>2, Bounds
    <3>2. q \in PendingType
      BY <1>1, <3>1 DEF Pendings, PendingType
    <3>3. q.switching = p.switching
      BY <1>1 DEF Pendings, PendingType
    <3> HIDE DEF q
    <3> QED BY <1>1, <2>1, <3>2, <3>3 DEF Pendings, Asked
  <2>3. m \in Datagrams
    BY <1>1 DEF Pendings, PendingType, Datagrams, DatagramType, Datagram, Asked
  <2>4. /\ E.pending = (D.pending \ {p}) \cup {q} /\ E.out = T
        /\ E.state = D.state /\ E.cfg = D.cfg /\ E.firmwareKnown = D.firmwareKnown
        /\ E.configFailed = D.configFailed /\ E.samplingSent = D.samplingSent
        /\ E.workState = D.workState
    BY <1>1, <1>2 DEF RetryOrGiveUp, DriverType
  <2>5. E = [D EXCEPT !.pending = (D.pending \ {p}) \cup {q}, !.out = T]
    BY <1>1, <1>2 DEF RetryOrGiveUp, DriverType
  <2> HIDE DEF q, m
  <2>6. <<m>> \in Seq(Datagrams) /\ DOMAIN <<m>> = {1} /\ <<m>>[1] = m
    BY <2>3
  <2> DEFINE ms == <<m>>
  <2> HIDE DEF ms
  <2>7. /\ T \in Seq(Datagrams) /\ Len(T) <= Capacity
        /\ n \in Nat /\ DOMAIN D.out = 1 .. n /\ DOMAIN T \subseteq Nat
        /\ \A i \in DOMAIN T : \/ i \in DOMAIN D.out /\ T[i] = D.out[i]
                               \/ i > n /\ T[i] = m
    <3>1. D.out \in Seq(Datagrams) /\ n \in Nat /\ DOMAIN D.out = 1 .. n
      BY <1>1, LenProperties DEF DriverType
    <3>2. ms \in Seq(Datagrams) /\ DOMAIN ms = {1} /\ ms[1] = m /\ T = Transmit(D.out, ms)
      BY <2>6 DEF ms
    <3> HIDE DEF T
    <3>3. /\ T \in Seq(Datagrams) /\ Len(T) <= Capacity
          /\ DOMAIN T = 1 .. Len(T)
          /\ \A i \in DOMAIN T : \/ i \in DOMAIN D.out /\ T[i] = D.out[i]
                                 \/ i > n /\ i - n \in DOMAIN ms /\ T[i] = ms[i - n]
      BY <3>1, <3>2, TransmitEffect
    <3>4. \A i \in DOMAIN T : i - n \in DOMAIN ms => ms[i - n] = m
      BY <3>2
    <3>5. 1 .. Len(T) \subseteq Nat
      OBVIOUS
    <3> QED BY <3>1, <3>3, <3>4, <3>5
  <2> HIDE DEF T, n, E
  <2>8. DriverOK(E)
    <3>1. E \in DriverType
      BY <1>1, <2>2, <2>5, <2>7 DEF DriverType
    <3>2. \A a, b \in E.pending : Rivals(a, b) => a = b
      <4>1. \A a, b \in D.pending : Rivals(a, b) => a = b
        BY <1>1 DEF DriverOK
      <4>2. \A a \in D.pending \ {p} : ~Rivals(a, p) /\ ~Rivals(p, a)
        BY <4>1
      <4>3. \A a : (Rivals(a, q) <=> Rivals(a, p)) /\ (Rivals(q, a) <=> Rivals(p, a))
        BY <2>1 DEF Rivals
      <4> QED BY <2>4, <4>1, <4>2, <4>3
    <3>3. \A a \in E.pending :
            /\ IsSetting(a) => Configured(E)
            /\ a.cmd = "Handshake" <=> E.state = "Handshaking"
            /\ a.cmd = "Set" => a.value = E.cfg[a.key]
      BY <1>1, <2>1, <2>4 DEF DriverOK, IsSetting, Configured
    <3> QED BY <2>4, <2>7, <3>1, <3>2, <3>3 DEF DriverOK
  <2>9. \A a \in D.pending : Harmless(a, m)
    <3> SUFFICES ASSUME NEW a \in D.pending PROVE Harmless(a, m)
      OBVIOUS
    <3>1. a.cmd = "DeviceInfo" => p.cmd # "Handshake"
      BY <1>1 DEF DriverOK
    <3>2. a.key = p.key /\ p.cmd = "Set" => a = p
      <4>1. p.cmd = "Set" => p.key # ""
        BY <1>1, ConstantFacts DEF Pendings, Asked, SessionCommands
      <4> QED BY <1>1, <4>1 DEF DriverOK, Rivals
    <3> QED BY <2>1, <3>1, <3>2 DEF Harmless, Sets
  <2>10. Linked(E)
    BY <1>1, <2>1, <2>4, <2>7 DEF Linked, Configured, DriverOK
  <2>11. ASSUME NEW a \in D.pending
         PROVE  /\ \A i, j \in DOMAIN E.out :
                     Of(E.out[i], a) /\ i <= j => Harmless(a, E.out[j])
                /\ \A i \in DOMAIN replies : Of(replies[i], a) =>
                     AllHarmless(E, a) /\ Told(a, replies[i], v)
    <3>1. /\ \A i, j \in DOMAIN D.out :
               Of(D.out[i], a) /\ i <= j => Harmless(a, D.out[j])
          /\ \A i \in DOMAIN replies : Of(replies[i], a) =>
               AllHarmless(D, a) /\ Told(a, replies[i], v)
      BY <1>1 DEF Follows
    <3>2. ASSUME NEW i \in DOMAIN T, NEW j \in DOMAIN T, Of(T[i], a), i <= j
          PROVE  Harmless(a, T[j])
      <4>1. CASE T[j] = m
        BY <2>9, <4>1
      <4>2. CASE j \in DOMAIN D.out /\ T[j] = D.out[j]
        <5>1. i \in DOMAIN D.out /\ T[i] = D.out[i]
          BY <2>7, <3>2, <4>2
        <5> QED BY <3>1, <3>2, <4>2, <5>1
      <4> QED BY <2>7, <4>1, <4>2
    <3>3. AllHarmless(D, a) => AllHarmless(E, a)
      BY <2>4, <2>7, <2>9 DEF AllHarmless
    <3> QED BY <2>4, <3>1, <3>2, <3>3
  <2>12. /\ \A x : (Of(x, q) <=> Of(x, p)) /\ (Harmless(q, x) <=> Harmless(p, x))
         /\ \A x : Told(q, x, v) <=> Told(p, x, v)
         /\ AllHarmless(E, q) <=> AllHarmless(E, p)
    BY <2>1 DEF Of, Alike, Harmless, Told, AllHarmless
  <2>13. Follows(E, replies, v)
    BY <2>4, <2>11, <2>12 DEF Follows
  <2>14. Firsts(E, v)
    <3> SUFFICES ASSUME NEW i \in DOMAIN T, T[i].cmd = "Set",
                        T[i].key \in FlashSet, ~T[i].again
                 PROVE  /\ v.value[T[i].key] # T[i].value
                        /\ \A j \in DOMAIN T : j < i => ~Sets(T[j], T[i].key)
      BY <2>4 DEF Firsts
    <3>1. i \in DOMAIN D.out /\ T[i] = D.out[i]
      BY <2>1, <2>7
    <3>2. \A j \in DOMAIN T : j < i => j \in DOMAIN D.out /\ T[j] = D.out[j]
      BY <2>7, <3>1
    <3> QED BY <1>1, <3>1, <3>2 DEF Firsts
  <2>15. ASSUME NEW k, Applied(D, v, k) PROVE Applied(E, v, k)
    <3>1. (\E a \in D.pending : a.key = k) => \E a \in E.pending : a.key = k
      BY <2>1, <2>4
    <3>2. Same(D, k) => Same(E, k)
      BY <1>1, <2>1, <2>4, <2>7 DEF Same, Sets, DriverOK
    <3>3. Has(D, v, k) => Has(E, v, k)
      BY <2>4 DEF Has
    <3> QED BY <2>15, <3>1, <3>2, <3>3 DEF Applied
  <2>16. AllApplied(E, v)
    BY <2>4, <2>15, AllStillApplied
  <2> QED BY <2>8, <2>10, <2>13, <2>14, <2>16 DEF Sound, E
<1>3. CASE ~MayRepeat(p) /\ IsSession(p)
  <2>1. RetryOrGiveUp(D, p) = Reconnect(D)
    BY <1>3 DEF RetryOrGiveUp
  <2> QED BY <2>1, ReconnectSound
<1>4. CASE ~MayRepeat(p) /\ ~IsSession(p)
  <2> DEFINE E == [D EXCEPT !.pending = @ \ {p}, !.configFailed = TRUE]
  <2>1. RetryOrGiveUp(D, p) = E
    BY <1>1, <1>4 DEF RetryOrGiveUp, DriverType
  <2>2. /\ E \in DriverType /\ E.pending \subseteq D.pending /\ E.out = D.out
        /\ E.cfg = D.cfg /\ E.state = D.state /\ E.firmwareKnown = D.firmwareKnown
        /\ E.configFailed = TRUE
    BY <1>1 DEF DriverType
  <2> HIDE DEF E
  <2>3. DriverOK(E)
    BY <1>1, <2>2, FewerOK
  <2>4. Linked(E)
    BY <1>1, <2>2 DEF Linked, Configured
  <2>5. Sound(E, replies, v)
    BY <2>2, <2>3, <2>4, FewerSound
  <2>6. AllApplied(E, v)
    BY <2>2 DEF AllApplied
  <2> QED BY <2>1, <2>5, <2>6
<1> QED BY <1>2, <1>3, <1>4

-----------------------------------------------------------------------------
(* Answers *)

\* The request p is no longer pending.
Done(D, p) == [D EXCEPT !.pending = @ \ {p}]

LEMMA DoneSound ==
  ASSUME NEW D, NEW v, Sound(D, replies, v), NEW p \in D.pending
  PROVE  LET E == Done(D, p)
         IN  /\ Sound(E, replies, v) /\ E \in DriverType
             /\ E.pending = D.pending \ {p}
             /\ E.out = D.out /\ E.cfg = D.cfg /\ E.state = D.state
             /\ E.firmwareKnown = D.firmwareKnown /\ E.workState = D.workState
             /\ E.configFailed = D.configFailed /\ E.samplingSent = D.samplingSent
             /\ \A k : k # p.key /\ Applied(D, v, k) => Applied(E, v, k)
             /\ \A q \in E.pending : ~Rivals(q, p)
<1> DEFINE E == Done(D, p)
<1>1. DriverOK(D) /\ Linked(D) /\ D \in DriverType
  BY DEF Sound, DriverOK
<1>2. /\ E.pending = D.pending \ {p}
      /\ E.out = D.out /\ E.cfg = D.cfg /\ E.state = D.state
      /\ E.firmwareKnown = D.firmwareKnown /\ E.workState = D.workState
      /\ E.configFailed = D.configFailed /\ E.samplingSent = D.samplingSent
      /\ E \in DriverType
  BY <1>1 DEF Done, DriverType
<1> HIDE DEF E
<1>3. DriverOK(E)
  BY <1>1, <1>2, FewerOK
<1>4. Linked(E)
  BY <1>1, <1>2 DEF Linked, Configured
<1>5. Sound(E, replies, v)
  BY <1>2, <1>3, <1>4, FewerSound
<1>6. \A k : k # p.key /\ Applied(D, v, k) => Applied(E, v, k)
  BY <1>2, StillApplied
<1>7. \A q \in E.pending : ~Rivals(q, p)
  BY <1>1, <1>2 DEF DriverOK
<1> QED BY <1>2, <1>5, <1>6, <1>7 DEF E

\* A setting of the sorts that may be read back, other than the one just answered.
LEMMA OtherApplied ==
  ASSUME NEW D, NEW E, NEW v, NEW key, AllApplied(D, v), E.state = D.state,
         E.configFailed = D.configFailed, E.samplingSent = D.samplingSent,
         E.cfg = D.cfg,
         \A k : k # key /\ Applied(D, v, k) => Applied(E, v, k),
         key \notin Formats \cup {Sampling} \/ Applied(E, v, key)
  PROVE  AllApplied(E, v)
<1>1. \A k \in Formats \cup {Sampling} : Applied(D, v, k) => Applied(E, v, k)
  OBVIOUS
<1> QED BY <1>1, AllStillApplied

\* What a positive answer tells is true of the device, and stays so.
LEMMA LearnSound ==
  ASSUME NEW D, NEW v, Sound(D, replies, v), RepliesOK, AllApplied(D, v),
         NEW p \in D.pending, p.cmd # "Handshake",
         NEW m \in Replies, m.cmd = p.cmd, m.code = 0,
         AllHarmless(D, p), Told(p, m, v)
  PROVE  LET K == Learn(Done(D, p), p, m.value)
         IN  Sound(K, replies, v) /\ AllApplied(K, v) /\ K.state = D.state
<1> DEFINE E == Done(D, p)
           K == Learn(E, p, m.value)
<1>1. /\ Sound(E, replies, v) /\ E \in DriverType
      /\ E.pending = D.pending \ {p}
      /\ E.out = D.out /\ E.cfg = D.cfg /\ E.state = D.state
      /\ E.firmwareKnown = D.firmwareKnown /\ E.workState = D.workState
      /\ E.configFailed = D.configFailed /\ E.samplingSent = D.samplingSent
      /\ \A k : k # p.key /\ Applied(D, v, k) => Applied(E, v, k)
      /\ \A q \in E.pending : ~Rivals(q, p)
  BY DoneSound
<1> HIDE DEF E
<1>2. /\ DriverOK(D) /\ DriverOK(E) /\ Linked(E) /\ p \in Pendings
      /\ D.state # "Handshaking"
  BY <1>1 DEF Sound, DriverOK, DriverType
<1>3. /\ p.cmd \in SessionCommands => p.key = ""
      /\ p.cmd = "Get" => p.key \in FlashSet
      /\ p.cmd = "Set" => p.key \in Keys
      /\ p.cmd \in {"DeviceInfo", "Heartbeat", "Get", "Set"}
  BY <1>2 DEF Pendings, PendingType, Asked, SessionCommands
<1>4. "" \notin Formats \cup {Sampling} /\ WorkMode \notin Formats \cup {Sampling}
  BY ConstantFacts DEF Formats, Keys
<1>5. CASE p.cmd = "DeviceInfo"
  <2> DEFINE F == [E EXCEPT !.firmwareKnown = TRUE]
  <2>1. K = F
    BY <1>5 DEF Learn
  <2>2. /\ F.pending = E.pending /\ F.out = E.out /\ F.cfg = E.cfg /\ F.state = E.state
        /\ F.configFailed = E.configFailed /\ F.samplingSent = E.samplingSent
        /\ F.firmwareKnown = TRUE /\ F \in DriverType
    BY <1>1 DEF DriverType
  <2> HIDE DEF F
  <2>3. DriverOK(F)
    BY <1>2, <2>2, FewerOK
  <2>4. Linked(F)
    BY <1>1, <1>2, <1>5, <2>2 DEF Linked, AllHarmless, Harmless
  <2>5. Sound(F, replies, v)
    BY <1>1, <2>2, <2>3, <2>4, FewerSound
  <2>6. \A k : k # p.key /\ Applied(D, v, k) => Applied(F, v, k)
    BY <1>1, <2>2, StillApplied
  <2>7. p.key = ""
    BY <1>3, <1>5 DEF SessionCommands
  <2>8. AllApplied(F, v)
    BY <1>1, <1>4, <2>2, <2>6, <2>7, OtherApplied
  <2> QED BY <1>1, <2>1, <2>2, <2>5, <2>8 DEF E
<1>6. CASE p.cmd = "Heartbeat"
  <2> DEFINE F == ObserveWorkState(E, m.value)
  <2>1. K = F
    BY <1>6 DEF Learn
  <2>2. m.value \in 0 .. 3
    BY <1>6 DEF Replies
  <2>3. /\ F.pending \subseteq E.pending /\ F.out = E.out /\ F.cfg = E.cfg
        /\ F.state = E.state /\ F.firmwareKnown = E.firmwareKnown
        /\ F.configFailed = E.configFailed /\ F.samplingSent = E.samplingSent
        /\ F \in DriverType
        /\ \A q \in E.pending : q.switching \/ q \in F.pending
    BY <1>1, <2>2 DEF DriverType, ObserveWorkState
  <2> HIDE DEF F
  <2>4. DriverOK(F)
    BY <1>2, <2>3, FewerOK
  <2>5. Linked(F)
    BY <1>2, <2>3 DEF Linked, Configured
  <2>6. Sound(F, replies, v)
    BY <1>1, <2>3, <2>4, <2>5, FewerSound
  <2>7. \A q \in E.pending : q.switching => q.key = WorkMode
    BY <1>1 DEF DriverType, Pendings
  <2>8. p.key = ""
    BY <1>3, <1>6 DEF SessionCommands
  <2>9. \A k \in Formats \cup {Sampling} : Applied(D, v, k) => Applied(F, v, k)
    <3> SUFFICES ASSUME NEW k \in Formats \cup {Sampling}, Applied(D, v, k)
                 PROVE  Applied(F, v, k)
      OBVIOUS
    <3>1. Applied(E, v, k) /\ k # WorkMode
      BY <1>1, <1>4, <2>8
    <3>2. (\E q \in E.pending : q.key = k) => \E q \in F.pending : q.key = k
      BY <2>3, <2>7, <3>1
    <3> QED BY <2>3, <3>1, <3>2, StillApplied
  <2>10. AllApplied(F, v)
    BY <1>1, <2>3, <2>9, AllStillApplied
  <2> QED BY <1>1, <2>1, <2>3, <2>6, <2>10 DEF E
<1>7. CASE p.cmd = "Get"
  <2>1. K = Correct(E, p, m.value)
    BY <1>7 DEF Learn
  <2>2. /\ p.key \in FlashSet /\ v.value[p.key] = m.value
        /\ \A j \in DOMAIN E.out : ~Sets(E.out[j], p.key)
    BY <1>1, <1>3, <1>7 DEF AllHarmless, Harmless, Told
  <2>3. CASE m.value = E.cfg[p.key]
    <3>1. K = E
      BY <2>1, <2>3 DEF Correct
    <3>2. Applied(E, v, p.key)
      BY <2>2, <2>3 DEF Applied, Same, Has
    <3>3. AllApplied(E, v)
      BY <1>1, <3>2, OtherApplied
    <3> QED BY <1>1, <3>1, <3>3 DEF E
  <2>4. CASE m.value # E.cfg[p.key]
    <3> DEFINE r == SetValue(E, p.key)
               F == SendCommands(E, <<r>>)
    <3>1. K = F
      BY <2>1, <2>4 DEF Correct
    <3>2. /\ r \in Requests /\ r.cmd = "Set" /\ r.key = p.key
          /\ r.value = E.cfg[p.key] /\ IsSetting(r)
      <4>1. p.key \in Keys
        BY <2>2, ConstantFacts
      <4> QED BY <1>1, <4>1, SetValueEffect
    <3> HIDE DEF r
    <3>3. Needed(E, v, r)
      BY <2>2, <2>4, <3>2 DEF Needed
    <3>4. MayAsk(E, r)
      <4>1. Configured(E)
        BY <1>1, <1>2, <3>2 DEF DriverOK, IsSetting, Configured
      <4>2. \A q \in E.pending : ~Rivals(q, r)
        BY <1>1, <3>2 DEF IsSetting, Rivals
      <4> QED BY <1>1, <1>2, <3>2, <4>1, <4>2 DEF MayAsk
    <3>5. /\ Sound(F, replies, v)
          /\ F.state = E.state /\ F.configFailed = E.configFailed
          /\ F.samplingSent = E.samplingSent /\ F.cfg = E.cfg
          /\ \A k : Applied(E, v, k) => Applied(F, v, k)
          /\ Applied(F, v, r.key)
      BY <1>1, <3>2, <3>3, <3>4, SendOneSound
    <3> HIDE DEF F
    <3>6. AllApplied(F, v)
      BY <1>1, <3>2, <3>5, OtherApplied
    <3> QED BY <1>1, <3>1, <3>5, <3>6 DEF E
  <2> QED BY <2>3, <2>4
<1>8. CASE p.cmd = "Set"
  <2>1. K = E
    BY <1>8 DEF Learn
  <2>2. p.key # WorkMode => Applied(E, v, p.key)
    <3>1. p.value = E.cfg[p.key]
      BY <1>1, <1>2, <1>8 DEF DriverOK
    <3> QED BY <1>1, <1>8, <3>1 DEF Applied, Same, Has, AllHarmless, Harmless, Told
  <2>3. AllApplied(E, v)
    BY <1>1, <1>4, <2>2, OtherApplied
  <2> QED BY <1>1, <2>1, <2>3 DEF E
<1> QED BY <1>3, <1>5, <1>6, <1>7, <1>8 DEF E

\* An answer to a pending request: it is taken, refused, or will take time.
LEMMA AcknowledgedSound ==
  ASSUME NEW D, NEW v, Sound(D, replies, v), RepliesOK, AllApplied(D, v),
         NEW p \in D.pending, NEW m \in Replies, Of(m, p),
         AllHarmless(D, p), Told(p, m, v)
  PROVE  Sound(Acknowledged(D, p, m), replies, v) /\ AllApplied(Acknowledged(D, p, m), v)
<1> DEFINE E == Done(D, p)
           K == Learn(E, p, m.value)
<1>1. /\ Sound(E, replies, v) /\ E \in DriverType
      /\ E.pending = D.pending \ {p}
      /\ E.out = D.out /\ E.cfg = D.cfg /\ E.state = D.state
      /\ E.firmwareKnown = D.firmwareKnown /\ E.workState = D.workState
      /\ E.configFailed = D.configFailed /\ E.samplingSent = D.samplingSent
      /\ \A k : k # p.key /\ Applied(D, v, k) => Applied(E, v, k)
      /\ \A q \in E.pending : ~Rivals(q, p)
  BY DoneSound
<1>2. /\ m.cmd = p.cmd /\ m.key = p.key /\ m.code \in 0 .. 2
      /\ m.code = 2 => m.key = WorkMode
  BY DEF Of, Alike, Replies, ReplyType
<1>3. DriverOK(D) /\ DriverOK(E) /\ Linked(E) /\ Linked(D) /\ p \in Pendings
  BY <1>1 DEF Sound, DriverOK, DriverType
<1>4. /\ Acknowledged(D, p, m) =
           CASE p.key = WorkMode /\ m.code = 2 ->
                  [E EXCEPT !.pending = @ \cup {[p EXCEPT !.switching = TRUE]}]
             [] m.code = 1 -> Rejected(E, p)
             [] m.code = 0 /\ p.cmd = "Handshake" ->
                  SendCommands([E EXCEPT !.state = "Initializing"],
                    <<Request("DeviceInfo", "", 0), Request("Heartbeat", "", 0)>>)
             [] OTHER ->
                  IF K.state = "Initializing" /\ K.firmwareKnown
                       /\ K.workState \in 1 .. 3
                  THEN ConfigureDevice(K) ELSE FinishConfiguration(K)
  BY DEF Acknowledged, Done
<1> HIDE DEF E, K
<1>5. CASE m.code = 2
  <2> DEFINE q == [p EXCEPT !.switching = TRUE]
             F == [E EXCEPT !.pending = @ \cup {q}]
  <2>0. p.key = WorkMode
    BY <1>2, <1>5
  <2>1. Acknowledged(D, p, m) = F
    BY <1>4, <1>5, <2>0
  <2>2. /\ q.seq = p.seq /\ q.cmd = p.cmd /\ q.key = p.key /\ q.value = p.value
        /\ q \in Pendings
    BY <1>3, <2>0 DEF Pendings, PendingType, Asked
  <2> HIDE DEF q
  <2>3. /\ F.pending = E.pending \cup {q} /\ F.out = E.out /\ F.cfg = E.cfg
        /\ F.state = E.state /\ F.firmwareKnown = E.firmwareKnown
        /\ F.configFailed = E.configFailed /\ F.samplingSent = E.samplingSent
        /\ F \in DriverType
    BY <1>1, <2>2 DEF DriverType
  <2> HIDE DEF F
  <2>4. DriverOK(F)
    <3>1. \A a, b \in F.pending : Rivals(a, b) => a = b
      <4>1. \A a, b \in E.pending : Rivals(a, b) => a = b
        BY <1>3 DEF DriverOK
      <4>2. \A a \in E.pending : ~Rivals(a, q) /\ ~Rivals(q, a)
        BY <1>1, <2>2 DEF Rivals
      <4> QED BY <2>3, <4>1, <4>2
    <3>2. ASSUME NEW a \in F.pending
          PROVE  /\ IsSetting(a) => Configured(F)
                 /\ a.cmd = "Handshake" <=> F.state = "Handshaking"
                 /\ a.cmd = "Set" => a.value = F.cfg[a.key]
      <4>1. PICK b \in D.pending : a.cmd = b.cmd /\ a.key = b.key /\ a.value = b.value
        BY <1>1, <2>2, <2>3
      <4>2. /\ IsSetting(b) => Configured(D)
            /\ b.cmd = "Handshake" <=> D.state = "Handshaking"
            /\ b.cmd = "Set" => b.value = D.cfg[b.key]
        BY <1>3 DEF DriverOK
      <4> QED BY <1>1, <2>3, <4>1, <4>2 DEF IsSetting, Configured
    <3> QED BY <1>3, <2>3, <3>1, <3>2 DEF DriverOK
  <2>5. Linked(F)
    BY <1>3, <2>3 DEF Linked, Configured
  <2>6. \A a \in F.pending : \E b \in D.pending :
          a.seq = b.seq /\ a.cmd = b.cmd /\ a.key = b.key /\ a.value = b.value
    BY <1>1, <2>2, <2>3
  <2>7. Sound(F, replies, v)
    BY <1>1, <2>3, <2>4, <2>5, <2>6, FewerSound
  <2>8. \A k : k # p.key /\ Applied(D, v, k) => Applied(F, v, k)
    <3>1. \A k : (\E a \in D.pending : a.key = k) => \E a \in F.pending : a.key = k
      BY <1>1, <2>2, <2>3
    <3> QED BY <1>1, <2>3, <3>1, StillApplied
  <2>9. WorkMode \notin Formats \cup {Sampling}
    BY ConstantFacts DEF Formats
  <2>10. AllApplied(F, v)
    BY <1>1, <2>0, <2>3, <2>8, <2>9, OtherApplied
  <2> QED BY <2>1, <2>7, <2>10
<1>6. CASE m.code = 1
  <2>1. Acknowledged(D, p, m) = Rejected(E, p)
    BY <1>4, <1>6
  <2>2. CASE IsSession(p)
    <3>1. Acknowledged(D, p, m) = Reconnect(E)
      BY <2>1, <2>2 DEF Rejected
    <3> QED BY <1>1, <3>1, ReconnectSound
  <2>3. CASE ~IsSession(p)
    <3> DEFINE F == [E EXCEPT !.configFailed = TRUE]
    <3>1. Acknowledged(D, p, m) = F
      BY <2>1, <2>3 DEF Rejected
    <3>2. /\ F.pending = E.pending /\ F.out = E.out /\ F.cfg = E.cfg
          /\ F.state = E.state /\ F.firmwareKnown = E.firmwareKnown
          /\ F.configFailed = TRUE /\ F \in DriverType
      BY <1>1 DEF DriverType
    <3> HIDE DEF F
    <3>3. DriverOK(F)
      BY <1>3, <3>2, FewerOK
    <3>4. Linked(F)
      BY <1>3, <3>2 DEF Linked, Configured
    <3>5. Sound(F, replies, v)
      BY <1>1, <3>2, <3>3, <3>4, FewerSound
    <3>6. AllApplied(F, v)
      BY <3>2 DEF AllApplied
    <3> QED BY <3>1, <3>5, <3>6
  <2> QED BY <2>2, <2>3
<1>7. CASE m.code = 0 /\ p.cmd = "Handshake"
  <2> DEFINE F == [E EXCEPT !.state = "Initializing"]
             a == Request("DeviceInfo", "", 0)
             b == Request("Heartbeat", "", 0)
             rs == <<a, b>>
             G == SendCommands(F, rs)
  <2>1. Acknowledged(D, p, m) = G
    <3>1. ~(p.key = WorkMode /\ m.code = 2) /\ ~(m.code = 1)
      BY <1>7
    <3> HIDE DEF G
    <3> QED BY <1>4, <1>7, <3>1 DEF G
  <2>2. /\ a \in Requests /\ a.cmd = "DeviceInfo" /\ a.key = "" /\ ~IsSetting(a)
        /\ b \in Requests /\ b.cmd = "Heartbeat" /\ b.key = "" /\ ~IsSetting(b)
    BY SessionEffect DEF SessionCommands
  <2> HIDE DEF a, b
  <2>3. E.pending = {}
    <3>1. D.state = "Handshaking" /\ p.key = ""
      BY <1>3, <1>7 DEF DriverOK, Pendings, Asked
    <3>2. \A q \in D.pending : q.cmd = "Handshake" /\ q.key = ""
      BY <1>3, <3>1 DEF DriverOK, DriverType, Pendings, Asked
    <3>3. \A q \in D.pending : Rivals(q, p)
      BY <1>7, <3>1, <3>2 DEF Rivals
    <3> QED BY <1>1, <3>3
  <2>4. /\ F.state = "Initializing" /\ F.pending = {} /\ F.out = E.out
        /\ F.cfg = E.cfg /\ F.firmwareKnown = E.firmwareKnown /\ F \in DriverType
    BY <1>1, <2>3 DEF DriverType
  <2> HIDE DEF F
  <2>5. DriverOK(F)
    BY <1>3, <2>4 DEF DriverOK
  <2>6. Linked(F)
    BY <1>3, <2>4 DEF Linked, Configured
  <2>7. Sound(F, replies, v)
    BY <1>1, <2>4, <2>5, <2>6, FewerSound
  <2>8. rs \in Seq(Requests) /\ DOMAIN rs = 1 .. 2 /\ rs[1] = a /\ rs[2] = b
    <3>1. a \in Requests /\ b \in Requests
      BY <2>2
    <3>2. rs \in Seq(Requests) /\ Len(rs) = 2
      BY ONLY <3>1
    <3>3. rs[1] = a /\ rs[2] = b
      OBVIOUS
    <3> HIDE DEF rs
    <3> QED BY <3>2, <3>3, LenProperties
  <2> HIDE DEF rs
  <2>9. MayAsk(F, a) /\ MayAsk(F, b)
    BY <2>2, <2>4 DEF MayAsk
  <2>10. /\ \A i \in DOMAIN rs : MayAsk(F, rs[i])
         /\ \A i, j \in DOMAIN rs : Rivals(rs[i], rs[j]) => rs[i] = rs[j]
         /\ \A i \in DOMAIN rs : rs[i].cmd # "Set"
    <3>1. \A i \in DOMAIN rs : rs[i] = a \/ rs[i] = b
      <4>1. \A i \in 1 .. 2 : i = 1 \/ i = 2
        OBVIOUS
      <4> QED BY <2>8, <4>1
    <3> QED BY <2>2, <2>9, <3>1 DEF Rivals
  <2>11. Sound(G, replies, v)
    BY <2>7, <2>8, <2>10, SendCommandsSound
  <2>12. G.state = "Initializing"
    BY <2>4, <2>5, <2>8, SendCommandsEffect
  <2> HIDE DEF G
  <2>13. AllApplied(G, v)
    BY <2>12 DEF AllApplied, Configured
  <2> QED BY <2>1, <2>11, <2>13
<1>8. CASE m.code = 0 /\ p.cmd # "Handshake"
  <2>1. Acknowledged(D, p, m) =
          IF K.state = "Initializing" /\ K.firmwareKnown /\ K.workState \in 1 .. 3
          THEN ConfigureDevice(K) ELSE FinishConfiguration(K)
    BY <1>4, <1>8
  <2>2. Sound(K, replies, v) /\ AllApplied(K, v)
    BY <1>2, <1>8, LearnSound DEF E, K
  <2>3. CASE K.state = "Initializing" /\ K.firmwareKnown /\ K.workState \in 1 .. 3
    <3>1. Settings(K) = {}
      BY <2>2, <2>3 DEF Sound, DriverOK, Settings, Configured
    <3>2. Acknowledged(D, p, m) = ConfigureDevice(K)
      BY <2>1, <2>3
    <3> QED BY <2>2, <2>3, <3>1, <3>2, ConfigureDeviceSound
  <2>4. CASE ~(K.state = "Initializing" /\ K.firmwareKnown /\ K.workState \in 1 .. 3)
    <3>1. Acknowledged(D, p, m) = FinishConfiguration(K)
      BY <2>1, <2>4
    <3> QED BY <2>2, <3>1, FinishConfigurationSound
  <2> QED BY <2>3, <2>4
<1> QED BY <1>2, <1>5, <1>6, <1>7, <1>8

\* Whatever answer comes next.
LEMMA HandleCtrlCmdAckSound ==
  ASSUME NEW D, NEW v, Sound(D, replies, v), RepliesOK, AllApplied(D, v),
         replies # <<>>
  PROVE  LET E == HandleCtrlCmdAck(D, Head(replies))
         IN  Sound(E, replies, v) /\ AllApplied(E, v)
<1> DEFINE m == Head(replies)
           found == Answered(D, m)
           p == CHOOSE p \in found : TRUE
<1>1. m \in Replies /\ 1 \in DOMAIN replies /\ m = replies[1]
  <2>1. replies \in Seq(Replies) /\ Len(replies) \in Nat /\ Len(replies) # 0
    BY LenProperties, EmptySeq DEF RepliesOK
  <2>2. 1 \in DOMAIN replies
    BY <2>1, LenProperties
  <2>3. m = replies[1]
    BY <2>1, HeadTailProperties
  <2> QED BY <2>1, <2>2, <2>3, ElementOfSeq
<1> HIDE DEF m
<1>2. CASE found = {}
  BY <1>2 DEF HandleCtrlCmdAck, m
<1>3. CASE found # {}
  <2>1. p \in found
    BY <1>3
  <2>2. HandleCtrlCmdAck(D, m) = Acknowledged(D, p, m)
    BY <1>3 DEF HandleCtrlCmdAck
  <2> HIDE DEF p
  <2>3. p \in D.pending /\ Of(m, p)
    BY <2>1 DEF Answered, Of, Alike
  <2>4. AllHarmless(D, p) /\ Told(p, m, v)
    BY <1>1, <2>3 DEF Sound, Follows
  <2> QED BY <1>1, <2>2, <2>3, <2>4, AcknowledgedSound DEF m
<1> QED BY <1>2, <1>3

-----------------------------------------------------------------------------
(* The console *)

LEMMA ApplyConfigSound ==
  ASSUME NEW D, NEW v, Sound(D, replies, v), RepliesOK, AllApplied(D, v),
         NEW cfg \in Configs
  PROVE  LET E == IF D.state \in {"Configuring", "Connected"}
                  THEN ConfigureDevice([ForgetSettings(D) EXCEPT !.cfg = cfg])
                  ELSE [D EXCEPT !.cfg = cfg]
         IN  Sound(E, replies, v) /\ AllApplied(E, v)
<1>1. DriverOK(D) /\ Linked(D) /\ D \in DriverType
  BY DEF Sound, DriverOK
<1>2. CASE Configured(D)
  <2> DEFINE F == [ForgetSettings(D) EXCEPT !.cfg = cfg]
  <2>1. /\ F \in DriverType /\ F.pending = D.pending \ Settings(D) /\ F.out = D.out
        /\ F.state = D.state /\ F.firmwareKnown = D.firmwareKnown
    BY <1>1 DEF ForgetSettings, DriverType
  <2> HIDE DEF F
  <2>2. \A p \in F.pending : p.key = "" /\ p \in D.pending /\ p.cmd # "Set"
    <3>1. \A p \in F.pending : p \in D.pending /\ p.key = "" /\ p \in Pendings
      BY <1>1, <2>1 DEF Settings, IsSetting, DriverType
    <3> QED BY <3>1, ConstantFacts DEF Pendings, Asked, SessionCommands
  <2>3. DriverOK(F)
    BY <1>1, <2>1, <2>2 DEF DriverOK, IsSetting
  <2>4. Linked(F)
    BY <1>1, <2>1 DEF Linked, Configured
  <2>5. Sound(F, replies, v)
    BY <2>1, <2>3, <2>4, FewerSound
  <2>6. Settings(F) = {} /\ F.state # "Handshaking" /\ F.firmwareKnown
    BY <1>1, <1>2, <2>1, <2>2 DEF Settings, IsSetting, Configured, Linked
  <2>7. Sound(ConfigureDevice(F), replies, v) /\ AllApplied(ConfigureDevice(F), v)
    BY <2>5, <2>6, ConfigureDeviceSound
  <2> QED BY <1>2, <2>7 DEF F, Configured
<1>3. CASE ~Configured(D)
  <2> DEFINE F == [D EXCEPT !.cfg = cfg]
  <2>1. /\ F \in DriverType /\ F.pending = D.pending /\ F.out = D.out
        /\ F.state = D.state /\ F.firmwareKnown = D.firmwareKnown
    BY <1>1 DEF DriverType
  <2> HIDE DEF F
  <2>2. \A p \in D.pending : p.cmd # "Set"
    BY <1>1, <1>3, ConstantFacts
    DEF DriverOK, DriverType, Pendings, Asked, SessionCommands, IsSetting
  <2>3. DriverOK(F)
    BY <1>1, <2>1, <2>2 DEF DriverOK, Configured
  <2>4. Linked(F)
    BY <1>1, <2>1 DEF Linked, Configured
  <2>5. Sound(F, replies, v)
    BY <2>1, <2>3, <2>4, FewerSound
  <2>6. AllApplied(F, v)
    BY <1>3, <2>1 DEF AllApplied, Configured
  <2> QED BY <1>3, <2>5, <2>6 DEF F, Configured
<1> QED BY <1>2, <1>3

-----------------------------------------------------------------------------
(* The LiDAR and the network *)

\* Of what the driver heard, some is no longer on its way.
LEMMA FewerRepliesSound ==
  ASSUME NEW D, NEW v, NEW rs, NEW ts, Sound(D, rs, v),
         \A i \in DOMAIN ts : \E j \in DOMAIN rs : ts[i] = rs[j]
  PROVE  Sound(D, ts, v)
BY DEF Sound, Follows

LEMMA TailIsFewer ==
  ASSUME RepliesOK, replies # <<>>
  PROVE  /\ Tail(replies) \in Seq(Replies) /\ Len(Tail(replies)) <= Capacity
         /\ \A i \in DOMAIN Tail(replies) : \E j \in DOMAIN replies :
              Tail(replies)[i] = replies[j]
<1> DEFINE T == Tail(replies)
<1>1. /\ replies \in Seq(Replies) /\ Len(replies) \in Nat /\ Len(replies) <= Capacity
      /\ DOMAIN replies = 1 .. Len(replies)
  BY LenProperties DEF RepliesOK
<1>2. /\ T \in Seq(Replies) /\ Len(T) = Len(replies) - 1
      /\ \A i \in 1 .. Len(T) : T[i] = replies[i + 1]
  BY <1>1, HeadTailProperties
<1> HIDE DEF T
<1>3. Len(T) \in Nat /\ DOMAIN T = 1 .. Len(T)
  BY <1>2, LenProperties
<1>4. \A i \in DOMAIN T : i + 1 \in DOMAIN replies /\ T[i] = replies[i + 1]
  BY <1>1, <1>2, <1>3
<1>5. Len(T) <= Capacity
  BY <1>1, <1>2, Bounds
<1> QED BY <1>2, <1>4, <1>5 DEF T

\* The first datagram leaves the driver's side.
Popped(D) == [D EXCEPT !.out = Tail(@)]

LEMMA PoppedIs ==
  ASSUME NEW D \in DriverType, Len(D.out) <= Capacity, D.out # <<>>
  PROVE  LET E == Popped(D)
             m == Head(D.out)
         IN  /\ E \in DriverType /\ Len(E.out) <= Capacity
             /\ E.state = D.state /\ E.pending = D.pending
             /\ E.firmwareKnown = D.firmwareKnown /\ E.cfg = D.cfg
             /\ E.configFailed = D.configFailed /\ E.samplingSent = D.samplingSent
             /\ m \in Datagrams /\ 1 \in DOMAIN D.out /\ m = D.out[1]
             /\ DOMAIN E.out \subseteq Nat \ {0}
             /\ \A i \in DOMAIN E.out : i + 1 \in DOMAIN D.out /\ E.out[i] = D.out[i + 1]
<1> DEFINE T == Tail(D.out)
<1>1. /\ D.out \in Seq(Datagrams) /\ Len(D.out) \in Nat /\ Len(D.out) # 0
      /\ DOMAIN D.out = 1 .. Len(D.out)
  BY LenProperties, EmptySeq DEF DriverType
<1>2. /\ T \in Seq(Datagrams) /\ Len(T) = Len(D.out) - 1
      /\ \A i \in 1 .. Len(T) : T[i] = D.out[i + 1]
      /\ Head(D.out) \in Datagrams /\ Head(D.out) = D.out[1]
  BY <1>1, HeadTailProperties
<1>3. 1 \in DOMAIN D.out
  BY <1>1
<1> HIDE DEF T
<1>4. Len(T) \in Nat /\ DOMAIN T = 1 .. Len(T)
  BY <1>2, LenProperties
<1>5. \A i \in DOMAIN T : i + 1 \in DOMAIN D.out /\ T[i] = D.out[i + 1]
  BY <1>1, <1>2, <1>4
<1>6. Len(T) <= Capacity
  BY <1>1, <1>2, Bounds
<1>7. Popped(D) = [D EXCEPT !.out = T]
  BY DEF Popped, T
<1>8. /\ Popped(D) \in DriverType /\ Popped(D).out = T
      /\ Popped(D).state = D.state /\ Popped(D).pending = D.pending
      /\ Popped(D).firmwareKnown = D.firmwareKnown /\ Popped(D).cfg = D.cfg
      /\ Popped(D).configFailed = D.configFailed
      /\ Popped(D).samplingSent = D.samplingSent
  BY <1>2, <1>7 DEF DriverType
<1>9. DOMAIN T \subseteq Nat \ {0}
  BY <1>4
<1> QED BY <1>2, <1>3, <1>5, <1>6, <1>8, <1>9

\* What is known of the datagram m that reaches the device, and of what is behind it.
Reaches(D, m, rs, v) ==
  /\ m \in Datagrams
  /\ D.firmwareKnown => m.cmd # "Handshake"
  /\ \A p \in D.pending : Of(m, p) => AllHarmless(D, p) /\ Harmless(p, m)
  /\ \A p \in D.pending : \A i \in DOMAIN rs : Of(rs[i], p) => Harmless(p, m)
  /\ \A i \in DOMAIN D.out :
       LET f == D.out[i] IN
       f.cmd = "Set" /\ f.key \in FlashSet /\ ~f.again => ~Sets(m, f.key)

LEMMA PoppedSound ==
  ASSUME NEW D, NEW rs, NEW v, Sound(D, rs, v), D.out # <<>>
  PROVE  LET E == Popped(D)
             m == Head(D.out)
         IN  /\ Sound(E, rs, v) /\ Reaches(E, m, rs, v)
             /\ AllApplied(D, v) => AllApplied(E, v)
             /\ \A k : Same(D, k) /\ Sets(m, k) => m.value = D.cfg[k]
             /\ E.cfg = D.cfg /\ E.state = D.state /\ E.pending = D.pending
             /\ E.configFailed = D.configFailed /\ E.samplingSent = D.samplingSent
             /\ \A k : Same(D, k) => Same(E, k)
<1> DEFINE E == Popped(D)
           m == Head(D.out)
<1>1. DriverOK(D) /\ Linked(D) /\ Follows(D, rs, v) /\ Firsts(D, v)
  BY DEF Sound
<1>2. /\ E \in DriverType /\ Len(E.out) <= Capacity
      /\ E.state = D.state /\ E.pending = D.pending
      /\ E.firmwareKnown = D.firmwareKnown /\ E.cfg = D.cfg
      /\ E.configFailed = D.configFailed /\ E.samplingSent = D.samplingSent
      /\ m \in Datagrams /\ 1 \in DOMAIN D.out /\ m = D.out[1]
      /\ DOMAIN E.out \subseteq Nat \ {0}
      /\ \A i \in DOMAIN E.out : i + 1 \in DOMAIN D.out /\ E.out[i] = D.out[i + 1]
  BY <1>1, PoppedIs DEF DriverOK
<1> HIDE DEF E, m
<1>3. DriverOK(E)
  BY <1>1, <1>2 DEF DriverOK, Configured
<1>4. Linked(E)
  BY <1>1, <1>2 DEF Linked, Configured
<1>5. ASSUME NEW p \in D.pending
      PROVE  /\ \A i, j \in DOMAIN E.out :
                  Of(E.out[i], p) /\ i <= j => Harmless(p, E.out[j])
             /\ AllHarmless(D, p) => AllHarmless(E, p) /\ Harmless(p, m)
             /\ Of(m, p) => AllHarmless(E, p) /\ Harmless(p, m)
  <2>1. \A i, j \in DOMAIN D.out : Of(D.out[i], p) /\ i <= j => Harmless(p, D.out[j])
    BY <1>1 DEF Follows
  <2>2. \A i, j \in DOMAIN E.out : i <= j => i + 1 <= j + 1
    BY <1>2
  <2>3. 1 <= 1 /\ \A j \in DOMAIN E.out : 1 <= j + 1
    BY <1>2
  <2>4. \A i, j \in DOMAIN E.out : Of(E.out[i], p) /\ i <= j => Harmless(p, E.out[j])
    BY <1>2, <2>1, <2>2
  <2>5. Of(m, p) => AllHarmless(E, p) /\ Harmless(p, m)
    BY <1>2, <2>1, <2>3 DEF AllHarmless
  <2>6. AllHarmless(D, p) => AllHarmless(E, p) /\ Harmless(p, m)
    BY <1>2 DEF AllHarmless
  <2> QED BY <2>4, <2>5, <2>6
<1>6. Follows(E, rs, v)
  BY <1>1, <1>2, <1>5 DEF Follows
<1>7. /\ Firsts(E, v)
      /\ \A i \in DOMAIN E.out :
           E.out[i].cmd = "Set" /\ E.out[i].key \in FlashSet /\ ~E.out[i].again
             => ~Sets(m, E.out[i].key)
  <2>1. ASSUME NEW i \in DOMAIN E.out, E.out[i].cmd = "Set",
               E.out[i].key \in FlashSet, ~E.out[i].again
        PROVE  /\ v.value[E.out[i].key] # E.out[i].value
               /\ \A j \in DOMAIN E.out : j < i => ~Sets(E.out[j], E.out[i].key)
               /\ ~Sets(m, E.out[i].key)
    <3>1. i + 1 \in DOMAIN D.out /\ E.out[i] = D.out[i + 1]
      BY <1>2
    <3>2. /\ v.value[E.out[i].key] # E.out[i].value
          /\ \A j \in DOMAIN D.out : j < i + 1 => ~Sets(D.out[j], E.out[i].key)
      BY <1>1, <2>1, <3>1 DEF Firsts
    <3>3. 1 < i + 1 /\ \A j \in DOMAIN E.out : j < i => j + 1 < i + 1
      BY <1>2
    <3> QED BY <1>2, <3>2, <3>3
  <2> QED BY <2>1 DEF Firsts
<1>8. Reaches(E, m, rs, v)
  <2>1. D.firmwareKnown => m.cmd # "Handshake"
    BY <1>1, <1>2 DEF Linked
  <2>2. \A p \in D.pending : \A i \in DOMAIN rs : Of(rs[i], p) => Harmless(p, m)
    BY <1>1, <1>5 DEF Follows
  <2> QED BY <1>2, <1>5, <1>7, <2>1, <2>2 DEF Reaches
<1>9. \A k : Same(D, k) => Same(E, k) /\ (Sets(m, k) => m.value = D.cfg[k])
  BY <1>2 DEF Same
<1>10. \A k : Applied(D, v, k) => Applied(E, v, k)
  BY <1>2, <1>9 DEF Applied, Has
<1>11. AllApplied(D, v) => AllApplied(E, v)
  BY <1>2, <1>10, AllStillApplied
<1> QED BY <1>2, <1>3, <1>4, <1>6, <1>7, <1>8, <1>9, <1>11 DEF Sound, E, m

\* The device obeys the datagram, or does not, and may answer it.
LEMMA DeviceObeysSound ==
  ASSUME NEW D, NEW v, NEW w, NEW rs, NEW ts, Sound(D, rs, v), AllApplied(D, v),
         D.out # <<>>, NEW m, m = Head(D.out),
         \A k \in Keys \ {WorkMode} :
           w.value[k] = v.value[k] \/ (Sets(m, k) /\ w.value[k] = m.value),
         w.linked => v.linked \/ m.cmd = "Handshake",
         \A i \in DOMAIN ts : \/ \E j \in DOMAIN rs : ts[i] = rs[j]
                              \/ \A p \in D.pending : Of(ts[i], p) =>
                                   Of(m, p) /\ Told(p, ts[i], w)
  PROVE  Sound(Popped(D), ts, w) /\ AllApplied(Popped(D), w)
<1> DEFINE E == Popped(D)
<1>1. /\ Sound(E, rs, v) /\ Reaches(E, m, rs, v) /\ AllApplied(E, v)
      /\ \A k : Same(D, k) /\ Sets(m, k) => m.value = D.cfg[k]
      /\ E.cfg = D.cfg /\ E.state = D.state /\ E.pending = D.pending
      /\ E.configFailed = D.configFailed /\ E.samplingSent = D.samplingSent
      /\ \A k : Same(D, k) => Same(E, k)
  BY PoppedSound
<1> HIDE DEF E
<1>2. DriverOK(E) /\ Linked(E) /\ Follows(E, rs, v) /\ Firsts(E, v)
  BY <1>1 DEF Sound
<1>3. Configured(E) => (w.linked => v.linked)
  BY <1>1, <1>2 DEF Linked, Reaches
<1>4. ASSUME NEW p \in E.pending, NEW a, Told(p, a, v), Harmless(p, m)
      PROVE  Told(p, a, w)
  <2>1. /\ p.cmd = "Get" => p.key \in FlashSet
        /\ p.cmd = "Set" => p.key \in Keys
        /\ p.cmd \in {"Get", "Set"} => IsSetting(p)
    BY <1>2, ConstantFacts
    DEF DriverOK, DriverType, Pendings, Asked, SessionCommands, IsSetting
  <2>2. CASE p.cmd = "Get"
    <3>1. p.key \in Keys \ {WorkMode}
      BY <2>1, <2>2, ConstantFacts
    <3> QED BY <1>4, <2>2, <3>1 DEF Told, Harmless
  <2>3. CASE p.cmd = "Set" /\ p.key # WorkMode
    <3>1. w.linked => v.linked
      BY <1>2, <1>3, <2>1, <2>3 DEF DriverOK
    <3> QED BY <1>4, <2>1, <2>3, <3>1 DEF Told, Harmless
  <2>4. CASE ~(p.cmd = "Get") /\ ~(p.cmd = "Set" /\ p.key # WorkMode)
    BY <2>4 DEF Told
  <2> QED BY <2>2, <2>3, <2>4
<1>5. Follows(E, ts, w)
  <2> SUFFICES ASSUME NEW p \in E.pending
               PROVE  \A i \in DOMAIN ts : Of(ts[i], p) =>
                        AllHarmless(E, p) /\ Told(p, ts[i], w)
    BY <1>2 DEF Follows
  <2> SUFFICES ASSUME NEW i \in DOMAIN ts, Of(ts[i], p)
               PROVE  AllHarmless(E, p) /\ Told(p, ts[i], w)
    OBVIOUS
  <2>1. ASSUME NEW j \in DOMAIN rs, ts[i] = rs[j]
        PROVE  AllHarmless(E, p) /\ Told(p, ts[i], w)
    <3>1. AllHarmless(E, p) /\ Told(p, ts[i], v)
      BY <1>2, <2>1 DEF Follows
    <3>2. Harmless(p, m)
      BY <1>1, <2>1 DEF Reaches
    <3> QED BY <1>4, <3>1, <3>2
  <2>2. CASE Of(m, p) /\ Told(p, ts[i], w)
    BY <1>1, <2>2 DEF Reaches
  <2> QED BY <1>1, <2>1, <2>2
<1>6. Firsts(E, w)
  <2> SUFFICES ASSUME NEW i \in DOMAIN E.out, E.out[i].cmd = "Set",
                      E.out[i].key \in FlashSet, ~E.out[i].again
               PROVE  /\ w.value[E.out[i].key] # E.out[i].value
                      /\ \A j \in DOMAIN E.out : j < i => ~Sets(E.out[j], E.out[i].key)
    BY DEF Firsts
  <2>1. E.out[i].key \in Keys \ {WorkMode}
    BY ConstantFacts
  <2>2. ~Sets(m, E.out[i].key)
    BY <1>1 DEF Reaches
  <2> QED BY <1>2, <2>1, <2>2 DEF Firsts
<1>7. ASSUME Configured(E), NEW k \in Formats \cup {Sampling}, Applied(D, v, k)
      PROVE  Applied(E, w, k)
  <2>1. k \in Keys \ {WorkMode}
    BY ConstantFacts DEF Formats
  <2>2. Same(D, k) /\ Has(D, v, k) => Same(E, k) /\ Has(E, w, k)
    BY <1>1, <1>3, <1>7, <2>1 DEF Has
  <2> QED BY <1>1, <1>7, <2>2 DEF Applied
<1>8. AllApplied(E, w)
  BY <1>1, <1>7 DEF AllApplied, Configured
<1> QED BY <1>2, <1>5, <1>6, <1>8 DEF Sound, E

\* The device does something of its own, that leaves what is in flash, and all
\* that it was told by its host as long as it has one.
LEMMA DeviceChangesSound ==
  ASSUME NEW D, NEW v, NEW w, NEW rs, Sound(D, rs, v), AllApplied(D, v),
         \A k \in FlashSet : w.value[k] = v.value[k],
         w.linked => v.linked /\ \A k \in Keys \ {WorkMode} : w.value[k] = v.value[k]
  PROVE  Sound(D, rs, w) /\ AllApplied(D, w)
<1>1. DriverOK(D) /\ Linked(D) /\ Follows(D, rs, v) /\ Firsts(D, v)
  BY DEF Sound
<1>2. ASSUME NEW p \in D.pending, NEW a, Told(p, a, v) PROVE Told(p, a, w)
  <2>1. /\ p.cmd = "Get" => p.key \in FlashSet
        /\ p.cmd = "Set" => p.key \in Keys
    BY <1>1, ConstantFacts DEF DriverOK, DriverType, Pendings, Asked, SessionCommands
  <2> QED BY <1>2, <2>1 DEF Told
<1>3. Follows(D, rs, w)
  BY <1>1, <1>2 DEF Follows
<1>4. Firsts(D, w)
  BY <1>1 DEF Firsts
<1>5. \A k \in Formats \cup {Sampling} : Applied(D, v, k) => Applied(D, w, k)
  <2>1. \A k \in Formats \cup {Sampling} : k \in Keys \ {WorkMode}
    BY ConstantFacts DEF Formats
  <2> QED BY <2>1 DEF Applied, Has
<1>6. AllApplied(D, w)
  BY <1>5 DEF AllApplied
<1> QED BY <1>1, <1>3, <1>4, <1>6 DEF Sound

\* An answer of the device goes behind those on their way, or is lost.
LEMMA AnswerEffect ==
  ASSUME RepliesOK, NEW m \in Datagrams, NEW code \in 0 .. 2, NEW value \in Values,
         m.cmd = "Heartbeat" => value \in 0 .. 3, code = 2 => m.key = WorkMode,
         NEW d, Answer(m, d, code, value)
  PROVE  /\ device' = d /\ RepliesOK'
         /\ \A i \in DOMAIN replies' :
              \/ \E j \in DOMAIN replies : replies'[i] = replies[j]
              \/ /\ replies'[i].seq = m.seq /\ replies'[i].cmd = m.cmd
                 /\ replies'[i].key = m.key /\ replies'[i].code = code
                 /\ replies'[i].value = value
<1> DEFINE a == [seq |-> m.seq, cmd |-> m.cmd, key |-> m.key,
                 code |-> code, value |-> value]
           A == Append(replies, a)
<1>1. /\ a \in Replies /\ a.seq = m.seq /\ a.cmd = m.cmd /\ a.key = m.key
      /\ a.code = code /\ a.value = value
  BY DEF Datagrams, DatagramType, Replies, ReplyType
<1>2. /\ replies \in Seq(Replies) /\ Len(replies) \in Nat /\ Len(replies) <= Capacity
      /\ DOMAIN replies = 1 .. Len(replies)
  BY LenProperties DEF RepliesOK
<1>3. /\ device' = d
      /\ \/ replies' = replies
         \/ Len(replies) # Capacity /\ replies' = A
  BY DEF Answer
<1> HIDE DEF a
<1>4. CASE replies' = replies
  BY <1>2, <1>3, <1>4 DEF RepliesOK
<1>5. CASE Len(replies) # Capacity /\ replies' = A
  <2>1. /\ A \in Seq(Replies) /\ Len(A) = Len(replies) + 1
        /\ \A i \in 1 .. Len(replies) : A[i] = replies[i]
        /\ A[Len(replies) + 1] = a
    BY <1>1, <1>2, AppendProperties
  <2> HIDE DEF A
  <2>2. DOMAIN A = 1 .. Len(replies) + 1
    BY <2>1, LenProperties
  <2>3. Len(A) <= Capacity
    <3> DEFINE l == Len(replies)
    <3>1. l \in Nat /\ l <= Capacity /\ l # Capacity /\ Len(A) = l + 1
      BY <1>2, <1>5, <2>1
    <3> HIDE DEF l
    <3> QED BY <3>1, Bounds
  <2>4. \A i \in DOMAIN A : i \in DOMAIN replies \/ i = Len(replies) + 1
    BY <1>2, <2>2
  <2> QED BY <1>1, <1>2, <1>3, <1>5, <2>1, <2>3, <2>4 DEF RepliesOK
<1> QED BY <1>3, <1>4, <1>5

-----------------------------------------------------------------------------
(* The invariant *)

LivoxInv ==
  /\ owner \in {"stopped", "running", "joined"}
  /\ RepliesOK /\ device \in DeviceType
  /\ Sound(drv, replies, device) /\ AllApplied(drv, device)

LEMMA FactoryIsConfig == Factory \in Configs
<1>1. \E cfg \in Configs : cfg \notin Unsupported
  BY LivoxAssumption
<1> QED BY <1>1 DEF Factory

LEMMA PoweredOnType ==
  ASSUME NEW flash, \A k \in FlashSet : flash[k] \in Values
  PROVE  /\ PoweredOn(flash) \in DeviceType /\ PoweredOn(flash).linked = FALSE
         /\ \A k \in FlashSet : PoweredOn(flash).value[k] = flash[k]
<1>1. FlashSet \subseteq Keys \ {WorkMode} /\ 0 \in Values
  BY ConstantFacts, ValueFacts
<1> DEFINE f == [k \in Keys \ {WorkMode} |-> IF k \in FlashSet THEN flash[k] ELSE 0]
<1>2. f \in [Keys \ {WorkMode} -> Values] /\ \A k \in FlashSet : f[k] = flash[k]
  BY <1>1
<1> HIDE DEF f
<1>3. PoweredOn(flash) = [linked |-> FALSE, mode |-> 0, switchTo |-> 0, value |-> f]
  BY DEF PoweredOn, f
<1> QED BY <1>2, <1>3 DEF DeviceType

\* A driver without requests, that knows nothing of a device.
LEMMA FreshSound ==
  ASSUME NEW cfg \in Configs, NEW out \in Seq(Datagrams), Len(out) <= Capacity,
         NEW rs, NEW v, \A D : D.out = out => Firsts(D, v)
  PROVE  Sound(Fresh(cfg, out), rs, v) /\ AllApplied(Fresh(cfg, out), v)
<1> DEFINE F == Fresh(cfg, out)
<1>1. /\ F.state = "Discovering" /\ F.pending = {} /\ F.firmwareKnown = FALSE
      /\ F.out = out /\ F \in DriverType
  BY DEF Fresh, DriverType
<1> HIDE DEF F
<1>2. DriverOK(F) /\ Linked(F) /\ Follows(F, rs, v) /\ Firsts(F, v)
  BY <1>1 DEF DriverOK, Linked, Follows, Configured
<1>3. AllApplied(F, v)
  BY <1>1 DEF AllApplied, Configured
<1> QED BY <1>2, <1>3 DEF Sound, F

LEMMA InitInv == Init => LivoxInv
<1> SUFFICES ASSUME Init PROVE LivoxInv
  OBVIOUS
<1>1. PICK cfg \in Loaded : drv = Fresh(cfg, <<>>)
  BY DEF Init
<1>2. cfg \in Configs
  BY LivoxAssumption
<1>3. /\ replies = <<>> /\ device = PoweredOn(Factory) /\ owner = "stopped"
  BY DEF Init
<1>4. <<>> \in Seq(Datagrams) /\ <<>> \in Seq(Replies) /\ Len(<<>>) <= Capacity
  <2>1. <<>> \in Seq(Datagrams) /\ <<>> \in Seq(Replies) /\ Len(<<>>) = 0
    BY EmptySeq
  <2> QED BY <2>1, Bounds
<1>5. \A D : D.out = <<>> => Firsts(D, device)
  BY DEF Firsts
<1>6. Sound(drv, replies, device) /\ AllApplied(drv, device)
  BY <1>1, <1>2, <1>4, <1>5, FreshSound
<1>7. RepliesOK
  BY <1>3, <1>4 DEF RepliesOK
<1>8. device \in DeviceType
  <2>1. \A k \in FlashSet : Factory[k] \in Values
    BY FactoryIsConfig, ValueFacts, ConstantFacts
  <2> QED BY <1>3, <2>1, PoweredOnType
<1> QED BY <1>3, <1>6, <1>7, <1>8 DEF LivoxInv

\* A step of the program: the device is as it was, and the driver heard some of
\* what is on its way.
LEMMA DriverStepInv ==
  ASSUME LivoxInv, NEW D, drv' = D, device' = device,
         owner' \in {"stopped", "running", "joined"},
         Sound(D, replies, device), AllApplied(D, device),
         \/ replies' = replies
         \/ replies # <<>> /\ replies' = Tail(replies)
         \/ replies' = <<>>
  PROVE  LivoxInv'
<1>1. RepliesOK /\ device \in DeviceType
  BY DEF LivoxInv
<1>2. /\ RepliesOK'
      /\ \A i \in DOMAIN replies' : \E j \in DOMAIN replies : replies'[i] = replies[j]
  <2>1. CASE replies' = replies
    BY <1>1, <2>1 DEF RepliesOK
  <2>2. CASE replies # <<>> /\ replies' = Tail(replies)
    BY <1>1, <2>2, TailIsFewer DEF RepliesOK
  <2>3. CASE replies' = <<>>
    <3>1. <<>> \in Seq(Replies) /\ Len(<<>>) = 0
      BY EmptySeq
    <3>2. Len(<<>>) <= Capacity
      BY <3>1, Bounds
    <3> QED BY <2>3, <3>1, <3>2 DEF RepliesOK
  <2> QED BY <2>1, <2>2, <2>3
<1>3. Sound(D, replies', device)
  BY <1>2, FewerRepliesSound
<1>4. Sound(drv, replies, device)' /\ AllApplied(drv, device)'
  BY <1>3
<1> QED BY <1>1, <1>2, <1>4 DEF LivoxInv

-----------------------------------------------------------------------------
(* The actions *)

LEMMA StartInv == LivoxInv /\ Start => LivoxInv'
<1> SUFFICES ASSUME LivoxInv, Start PROVE LivoxInv'
  OBVIOUS
<1>1. /\ Sound(drv, replies, device) /\ AllApplied(drv, device) /\ DriverOK(drv)
      /\ drv \in DriverType
  BY DEF LivoxInv, Sound, DriverOK
<1>2. /\ device' = device /\ replies' = replies
      /\ owner' \in {"stopped", "running", "joined"}
      /\ drv' = drv \/ drv' = Fresh(drv.cfg, drv.out)
  BY DEF Start, Environment
<1> DEFINE F == Fresh(drv.cfg, drv.out)
<1>3. Sound(F, replies, device) /\ AllApplied(F, device)
  <2>1. /\ drv.cfg \in Configs /\ drv.out \in Seq(Datagrams)
        /\ Len(drv.out) <= Capacity
    BY <1>1 DEF DriverOK, DriverType
  <2>2. \A D : D.out = drv.out => Firsts(D, device)
    BY <1>1 DEF Sound, Firsts
  <2> QED BY <2>1, <2>2, FreshSound
<1> HIDE DEF F
<1>4. CASE drv' = drv
  BY <1>1, <1>2, <1>4, DriverStepInv
<1>5. CASE drv' = F
  BY <1>2, <1>3, <1>5, DriverStepInv
<1> QED BY <1>2, <1>4, <1>5 DEF F

LEMMA CloseSocketsInv == LivoxInv /\ CloseSockets => LivoxInv'
<1> SUFFICES ASSUME LivoxInv, CloseSockets PROVE LivoxInv'
  OBVIOUS
<1>1. /\ Sound(drv, replies, device) /\ DriverOK(drv) /\ Linked(drv)
      /\ drv \in DriverType
  BY DEF LivoxInv, Sound, DriverOK
<1> DEFINE F == [drv EXCEPT !.state = "Discovering", !.pending = {}]
<1>2. /\ device' = device /\ replies' = <<>> /\ owner' = "stopped" /\ drv' = F
  BY DEF CloseSockets
<1>3. /\ F.state = "Discovering" /\ F.pending = {} /\ F.out = drv.out
      /\ F.cfg = drv.cfg /\ F.firmwareKnown = drv.firmwareKnown /\ F \in DriverType
  BY <1>1 DEF DriverType
<1> HIDE DEF F
<1>4. DriverOK(F) /\ Linked(F) /\ AllApplied(F, device)
  BY <1>1, <1>3 DEF DriverOK, Linked, AllApplied, Configured
<1>5. Sound(F, replies, device)
  BY <1>1, <1>3, <1>4, FewerSound
<1> QED BY <1>2, <1>4, <1>5, DriverStepInv

LEMMA ServiceInv ==
  LivoxInv /\ (TimedOut \/ RequestExpired \/ HeartbeatIsDue) => LivoxInv'
<1> SUFFICES ASSUME LivoxInv, TimedOut \/ RequestExpired \/ HeartbeatIsDue
             PROVE  LivoxInv'
  OBVIOUS
<1>1. /\ Sound(drv, replies, device) /\ AllApplied(drv, device) /\ RepliesOK
  BY DEF LivoxInv
<1>2. /\ device' = device /\ replies' = replies
      /\ owner' \in {"stopped", "running", "joined"}
  BY DEF TimedOut, RequestExpired, HeartbeatIsDue, InService, Environment, LivoxInv
<1>3. CASE TimedOut
  <2>1. drv' = Reconnect(drv)
    BY <1>3 DEF TimedOut
  <2> DEFINE D == Reconnect(drv)
  <2>2. Sound(D, replies, device) /\ AllApplied(D, device)
    BY <1>1, ReconnectSound
  <2> HIDE DEF D
  <2> QED BY <1>2, <2>1, <2>2, DriverStepInv DEF D
<1>4. CASE RequestExpired
  <2>1. PICK p \in drv.pending : drv' = RetryOrGiveUp(drv, p)
    BY <1>4 DEF RequestExpired, Expired
  <2> DEFINE D == RetryOrGiveUp(drv, p)
  <2>2. Sound(D, replies, device) /\ AllApplied(D, device)
    BY <1>1, RetryOrGiveUpSound
  <2>3. drv' = D
    BY <2>1
  <2> HIDE DEF D
  <2> QED BY <1>2, <2>2, <2>3, DriverStepInv
<1>5. CASE HeartbeatIsDue
  <2> DEFINE D == Heartbeat(drv)
  <2>1. drv' = D
    BY <1>5 DEF HeartbeatIsDue
  <2>2. Sound(D, replies, device) /\ AllApplied(D, device)
    BY <1>1, HeartbeatSound
  <2> HIDE DEF D
  <2> QED BY <1>2, <2>1, <2>2, DriverStepInv
<1> QED BY <1>3, <1>4, <1>5

LEMMA ReceiveInv == LivoxInv /\ (ReceiveBroadcast \/ Receive) => LivoxInv'
<1> SUFFICES ASSUME LivoxInv, ReceiveBroadcast \/ Receive PROVE LivoxInv'
  OBVIOUS
<1>1. /\ Sound(drv, replies, device) /\ AllApplied(drv, device) /\ RepliesOK
  BY DEF LivoxInv
<1>2. device' = device /\ owner' \in {"stopped", "running", "joined"}
  BY DEF ReceiveBroadcast, Receive, LivoxInv
<1>3. CASE ReceiveBroadcast
  <2> DEFINE D == HandleBroadcast(drv)
  <2>1. drv' = D /\ replies' = replies
    BY <1>3 DEF ReceiveBroadcast
  <2>2. Sound(D, replies, device) /\ AllApplied(D, device)
    BY <1>1, HandleBroadcastSound
  <2> HIDE DEF D
  <2> QED BY <1>2, <2>1, <2>2, DriverStepInv
<1>4. CASE Receive
  <2> DEFINE D == HandleCtrlCmdAck(drv, Head(replies))
  <2>1. drv' = D /\ replies # <<>> /\ replies' = Tail(replies)
    BY <1>4 DEF Receive
  <2>2. Sound(D, replies, device) /\ AllApplied(D, device)
    BY <1>1, <2>1, HandleCtrlCmdAckSound
  <2> HIDE DEF D
  <2> QED BY <1>2, <2>1, <2>2, DriverStepInv
<1> QED BY <1>3, <1>4

LEMMA ApplyConfigInv ==
  ASSUME NEW cfg \in Configs
  PROVE  LivoxInv /\ ApplyConfig(cfg) => LivoxInv'
<1> SUFFICES ASSUME LivoxInv, ApplyConfig(cfg) PROVE LivoxInv'
  OBVIOUS
<1> DEFINE D == IF drv.state \in {"Configuring", "Connected"}
                THEN ConfigureDevice([ForgetSettings(drv) EXCEPT !.cfg = cfg])
                ELSE [drv EXCEPT !.cfg = cfg]
<1>1. /\ Sound(drv, replies, device) /\ AllApplied(drv, device) /\ RepliesOK
  BY DEF LivoxInv
<1>2. /\ device' = device /\ replies' = replies /\ drv' = D
      /\ owner' \in {"stopped", "running", "joined"}
  BY DEF ApplyConfig, Environment, LivoxInv
<1>3. Sound(D, replies, device) /\ AllApplied(D, device)
  BY <1>1, ApplyConfigSound
<1> HIDE DEF D
<1> QED BY <1>2, <1>3, DriverStepInv

\* The device, or the network, takes the first datagram.
LEMMA DeviceReceiveInv == LivoxInv /\ DeviceReceive => LivoxInv'
<1> SUFFICES ASSUME LivoxInv, DeviceReceive PROVE LivoxInv'
  OBVIOUS
<1> DEFINE m == Head(drv.out)
<1>1. /\ Sound(drv, replies, device) /\ AllApplied(drv, device) /\ RepliesOK
      /\ device \in DeviceType /\ drv \in DriverType
  BY DEF LivoxInv, Sound, DriverOK
<1>2. /\ drv.out # <<>> /\ drv' = Popped(drv) /\ owner' = owner
      /\ \/ m.cmd = "Handshake" /\ Answer(m, [device EXCEPT !.linked = TRUE], 0, 0)
         \/ UNCHANGED <<device, replies>>
         \/ m.cmd # "Handshake" /\ Execute(m)
         \/ m.cmd = "Set" /\ Answer(m, device, 1, 0)
  BY DEF DeviceReceive, Popped
<1>3. m \in Datagrams
  BY <1>1, <1>2, PoppedIs DEF Sound, DriverOK
<1>4. /\ m.cmd = "Set" => m.key \in Keys /\ (m.key = WorkMode => m.value \in 1 .. 3)
      /\ m.cmd = "Get" => m.key \in Keys \ {WorkMode}
      /\ m.value \in Values
  BY <1>3, ConstantFacts DEF Datagrams, DatagramType, Asked, SessionCommands
<1> DEFINE Fits(w) ==
             /\ w \in DeviceType
             /\ \A k \in Keys \ {WorkMode} : \/ w.value[k] = device.value[k]
                                             \/ Sets(m, k) /\ w.value[k] = m.value
             /\ w.linked => device.linked \/ m.cmd = "Handshake"
           Tells(w, a) == \A p \in drv.pending : Of(a, p) => Of(m, p) /\ Told(p, a, w)
<1> HIDE DEF m
<1>5. SUFFICES /\ Fits(device') /\ RepliesOK'
               /\ \A i \in DOMAIN replies' :
                    \/ \E j \in DOMAIN replies : replies'[i] = replies[j]
                    \/ Tells(device', replies'[i])
  <2>1. ASSUME Fits(device'),
               \A i \in DOMAIN replies' :
                    \/ \E j \in DOMAIN replies : replies'[i] = replies[j]
                    \/ Tells(device', replies'[i])
        PROVE  /\ Sound(Popped(drv), replies', device')
               /\ AllApplied(Popped(drv), device')
    <3>1. /\ Sound(drv, replies, device) /\ AllApplied(drv, device)
          /\ drv.out # <<>> /\ m = Head(drv.out)
      BY <1>1, <1>2 DEF m
    <3>2. /\ \A k \in Keys \ {WorkMode} : \/ device'.value[k] = device.value[k]
                                          \/ Sets(m, k) /\ device'.value[k] = m.value
          /\ device'.linked => device.linked \/ m.cmd = "Handshake"
      BY <2>1
    <3>3. \A i \in DOMAIN replies' :
            \/ \E j \in DOMAIN replies : replies'[i] = replies[j]
            \/ \A p \in drv.pending : Of(replies'[i], p) =>
                 Of(m, p) /\ Told(p, replies'[i], device')
      BY <2>1
    <3> DEFINE D == drv
               v == device
               w == device'
               rs == replies
               ts == replies'
    <3> HIDE DEF D, v, w, rs, ts
    <3>4. Sound(Popped(D), ts, w) /\ AllApplied(Popped(D), w)
      BY <3>1, <3>2, <3>3, DeviceObeysSound DEF D, v, w, rs, ts
    <3> QED BY <3>4 DEF D, w, ts
  <2>2. owner \in {"stopped", "running", "joined"}
    BY DEF LivoxInv
  <2> QED BY <1>2, <2>1, <2>2 DEF LivoxInv
<1> DEFINE Answered1(code, value) ==
             /\ RepliesOK'
             /\ \A i \in DOMAIN replies' :
                  \/ \E j \in DOMAIN replies : replies'[i] = replies[j]
                  \/ /\ replies'[i].seq = m.seq /\ replies'[i].cmd = m.cmd
                     /\ replies'[i].key = m.key /\ replies'[i].code = code
                     /\ replies'[i].value = value
<1>6. ASSUME NEW code \in 0 .. 2, NEW value \in Values, Answered1(code, value),
             \A p \in drv.pending : \A a :
               p.cmd = m.cmd /\ p.key = m.key /\ a.code = code /\ a.value = value
                 => Told(p, a, device')
      PROVE  \A i \in DOMAIN replies' :
                    \/ \E j \in DOMAIN replies : replies'[i] = replies[j]
                    \/ Tells(device', replies'[i])
  BY <1>6 DEF Of, Alike
<1>7. 0 .. 3 \subseteq Values /\ 0 \in Values /\ 0 \in 0 .. 2
  BY ValueFacts
<1>8. CASE UNCHANGED <<device, replies>>
  BY <1>1, <1>8 DEF RepliesOK
<1>9. CASE m.cmd = "Handshake" /\ Answer(m, [device EXCEPT !.linked = TRUE], 0, 0)
  <2>1. device' = [device EXCEPT !.linked = TRUE] /\ Answered1(0, 0)
    BY <1>1, <1>3, <1>7, <1>9, AnswerEffect
  <2>2. Fits(device')
    BY <1>1, <1>9, <2>1 DEF DeviceType
  <2>3. \A p \in drv.pending : \A a : p.cmd = m.cmd => Told(p, a, device')
    BY <1>9 DEF Told
  <2> HIDE DEF Fits, Tells
  <2> QED BY <1>6, <1>7, <2>1, <2>2, <2>3
<1>10. CASE m.cmd = "Set" /\ Answer(m, device, 1, 0)
  <2>1. device' = device /\ Answered1(1, 0)
    BY <1>1, <1>3, <1>7, <1>10, AnswerEffect
  <2>2. Fits(device')
    BY <1>1, <2>1
  <2>3. \A p \in drv.pending : \A a :
          p.cmd = m.cmd /\ a.code = 1 => Told(p, a, device')
    BY <1>10 DEF Told
  <2> HIDE DEF Fits, Tells
  <2> QED BY <1>6, <1>7, <2>1, <2>2, <2>3
<1>11. CASE Execute(m)
  <2>1. CASE /\ m.cmd \in {"DeviceInfo", "Heartbeat", "Get"}
             /\ Answer(m, device, 0, Tell(m))
    <3> DEFINE t == Tell(m)
    <3>1. /\ t \in Values /\ (m.cmd = "Heartbeat" => t \in 0 .. 3)
          /\ m.cmd = "Get" => t = device.value[m.key]
      BY <1>1, <1>4, <1>7, <2>1 DEF Tell, DeviceType
    <3> HIDE DEF t
    <3>2. device' = device /\ Answered1(0, t)
      BY <1>1, <1>3, <1>7, <2>1, <3>1, AnswerEffect DEF t
    <3>3. Fits(device')
      BY <1>1, <3>2
    <3>4. \A p \in drv.pending : \A a :
            p.cmd = m.cmd /\ p.key = m.key /\ a.value = t => Told(p, a, device')
      BY <2>1, <3>1, <3>2 DEF Told
    <3> HIDE DEF Fits, Tells
    <3> QED BY <1>6, <1>7, <3>1, <3>2, <3>3, <3>4
  <2>2. CASE m.cmd = "Set" /\ m.key = WorkMode /\ SetWorkMode(m)
    <3>1. m.value \in 0 .. 3
      BY <1>4, <2>2
    <3>2. PICK code \in {0, 2} : \E w : /\ Answer(m, w, code, 0)
                                        /\ w \in DeviceType /\ w.value = device.value
                                        /\ w.linked = device.linked
      <4>1. /\ [device EXCEPT !.mode = m.value, !.switchTo = 0] \in DeviceType
            /\ [device EXCEPT !.switchTo = m.value] \in DeviceType
        <5> DEFINE x == m.value
        <5>1. x \in 0 .. 3 /\ 0 \in 0 .. 3
          BY <3>1
        <5> DEFINE T == 0 .. 3
                   V == [Keys \ {WorkMode} -> Values]
        <5>2. /\ x \in T /\ 0 \in T
              /\ device \in [linked : BOOLEAN, mode : T, switchTo : T, value : V]
          BY <1>1, <5>1 DEF DeviceType
        <5> HIDE DEF x, T, V
        <5>3. /\ [device EXCEPT !.mode = x, !.switchTo = 0]
                   \in [linked : BOOLEAN, mode : T, switchTo : T, value : V]
              /\ [device EXCEPT !.switchTo = x]
                   \in [linked : BOOLEAN, mode : T, switchTo : T, value : V]
          BY <5>2
        <5> QED BY <5>3 DEF DeviceType, x, T, V
      <4> QED BY <1>1, <2>2, <4>1 DEF SetWorkMode, DeviceType
    <3>3. PICK w : /\ Answer(m, w, code, 0)
                   /\ w \in DeviceType /\ w.value = device.value
                   /\ w.linked = device.linked
      BY <3>2
    <3>4. device' = w /\ Answered1(code, 0)
      BY <1>1, <1>3, <1>7, <2>2, <3>3, AnswerEffect
    <3>5. Fits(device')
      BY <3>3, <3>4
    <3>6. \A p \in drv.pending : \A a :
            p.cmd = m.cmd /\ p.key = m.key => Told(p, a, device')
      BY <2>2 DEF Told
    <3> HIDE DEF Fits, Tells
    <3> QED BY <1>6, <1>7, <3>4, <3>5, <3>6
  <2>3. CASE /\ m.cmd = "Set" /\ m.key # WorkMode
             /\ Answer(m, [device EXCEPT !.value[m.key] = m.value], 0, 0)
    <3> DEFINE w == [device EXCEPT !.value[m.key] = m.value]
    <3>1. m.key \in Keys \ {WorkMode}
      BY <1>4, <2>3
    <3>2. /\ w \in DeviceType /\ w.linked = device.linked /\ w.value[m.key] = m.value
          /\ \A k \in Keys \ {WorkMode} : k # m.key => w.value[k] = device.value[k]
      BY <1>1, <1>4, <3>1 DEF DeviceType
    <3> HIDE DEF w
    <3>3. device' = w /\ Answered1(0, 0)
      BY <1>1, <1>3, <1>7, <2>3, AnswerEffect DEF w
    <3>4. Fits(device')
      BY <2>3, <3>2, <3>3 DEF Sets
    <3>5. \A i \in DOMAIN replies' :
                    \/ \E j \in DOMAIN replies : replies'[i] = replies[j]
                    \/ Tells(device', replies'[i])
      <4>1. ASSUME NEW p \in drv.pending, Of(m, p), NEW a PROVE Told(p, a, device')
        <5>1. Harmless(p, m)
          BY <1>1, <1>2, <4>1, PoppedSound DEF Reaches, m
        <5>2. p.cmd = "Set" /\ p.key = m.key
          BY <2>3, <4>1 DEF Of, Alike
        <5>3. p.value = m.value
          BY <2>3, <5>1, <5>2 DEF Harmless, Sets
        <5> QED BY <3>2, <3>3, <5>2, <5>3 DEF Told
      <4>2. \A a : a.seq = m.seq /\ a.cmd = m.cmd /\ a.key = m.key => Tells(device', a)
        BY <4>1 DEF Of, Alike
      <4> HIDE DEF Tells
      <4> QED BY <3>3, <4>2
    <3> HIDE DEF Fits, Tells
    <3> QED BY <3>3, <3>4, <3>5
  <2> QED BY <1>11, <2>1, <2>2, <2>3 DEF Execute
<1> QED BY <1>2, <1>8, <1>9, <1>10, <1>11

\* The device starts up, switches, is switched off and on, or loses its host.
LEMMA DeviceStepInv ==
  LivoxInv /\ (DeviceSwitches \/ DeviceUnlinks \/ DeviceRestarts) => LivoxInv'
<1> SUFFICES ASSUME LivoxInv, DeviceSwitches \/ DeviceUnlinks \/ DeviceRestarts
             PROVE  LivoxInv'
  OBVIOUS
<1>1. /\ Sound(drv, replies, device) /\ AllApplied(drv, device) /\ RepliesOK
      /\ device \in DeviceType /\ owner \in {"stopped", "running", "joined"}
  BY DEF LivoxInv
<1>2. /\ owner' = owner /\ drv' = drv /\ replies' = replies
  BY DEF DeviceSwitches, DeviceUnlinks, DeviceRestarts
<1>3. /\ device' \in DeviceType
      /\ \A k \in FlashSet : device'.value[k] = device.value[k]
      /\ device'.linked =>
           device.linked /\ \A k \in Keys \ {WorkMode} : device'.value[k] = device.value[k]
  <2>1. CASE DeviceSwitches
    <3> DEFINE T == 0 .. 3
               V == [Keys \ {WorkMode} -> Values]
               R == [linked : BOOLEAN, mode : T, switchTo : T, value : V]
               x == IF device.mode = 0 THEN 1 ELSE device.switchTo
    <3>1. R = DeviceType /\ 0 \in T /\ 1 \in T
      BY DEF DeviceType
    <3>2. device' = [device EXCEPT !.mode = x, !.switchTo = 0]
      BY <1>1, <2>1 DEF DeviceSwitches, DeviceType
    <3> HIDE DEF T, V
    <3>3. x \in T
      BY <1>1, <3>1
    <3> HIDE DEF x
    <3>4. device' \in R /\ device'.value = device.value /\ device'.linked = device.linked
      BY <1>1, <3>1, <3>2, <3>3
    <3> QED BY <3>1, <3>4
  <2>2. CASE DeviceUnlinks
    BY <1>1, <2>2 DEF DeviceUnlinks, DeviceType
  <2>3. CASE DeviceRestarts
    <3>1. device' = PoweredOn(device.value)
      BY <2>3 DEF DeviceRestarts
    <3>2. \A k \in FlashSet : device.value[k] \in Values
      BY <1>1, ConstantFacts DEF DeviceType
    <3> QED BY <3>1, <3>2, PoweredOnType
  <2> QED BY <2>1, <2>2, <2>3
<1>4. Sound(drv, replies, device') /\ AllApplied(drv, device')
  BY <1>1, <1>3, DeviceChangesSound
<1> QED BY <1>1, <1>2, <1>3, <1>4 DEF LivoxInv, RepliesOK

LEMMA LoseInv == LivoxInv /\ Lose => LivoxInv'
<1> SUFFICES ASSUME LivoxInv, Lose PROVE LivoxInv'
  OBVIOUS
<1>1. /\ Sound(drv, replies, device) /\ AllApplied(drv, device) /\ RepliesOK
  BY DEF LivoxInv
<1>2. device' = device /\ owner' \in {"stopped", "running", "joined"}
  BY DEF Lose, LivoxInv
<1>3. CASE drv.out # <<>> /\ drv' = [drv EXCEPT !.out = Tail(@)] /\ replies' = replies
  <2> DEFINE D == Popped(drv)
  <2>1. Sound(D, replies, device) /\ AllApplied(D, device)
    BY <1>1, <1>3, PoppedSound
  <2>2. drv' = D
    BY <1>3 DEF Popped
  <2> HIDE DEF D
  <2> QED BY <1>2, <1>3, <2>1, <2>2, DriverStepInv
<1>4. CASE replies # <<>> /\ replies' = Tail(replies) /\ drv' = drv
  BY <1>1, <1>2, <1>4, DriverStepInv
<1> QED BY <1>3, <1>4 DEF Lose

LEMMA NextInv == LivoxInv /\ [Next]_vars => LivoxInv'
<1> SUFFICES ASSUME LivoxInv, [Next]_vars PROVE LivoxInv'
  OBVIOUS
<1>1. CASE StopWorker
  BY <1>1 DEF StopWorker, Environment, LivoxInv, RepliesOK
<1>2. CASE DeviceBroadcasts
  BY <1>2 DEF DeviceBroadcasts, LivoxInv, RepliesOK
<1>3. CASE UNCHANGED vars
  BY <1>3 DEF vars, LivoxInv, RepliesOK
<1>4. CASE \E cfg \in Configs : ApplyConfig(cfg)
  BY <1>4, ApplyConfigInv
<1> QED BY <1>1, <1>2, <1>3, <1>4, StartInv, CloseSocketsInv, ServiceInv, ReceiveInv,
           DeviceReceiveInv, DeviceStepInv, LoseInv DEF Next

-----------------------------------------------------------------------------
(* Theorems *)

\* Each call of the driver, and whatever the device and the network do between two,
\* keeps what is pending, under way, answered and in the device consistent.
THEOREM InvariantAlways == Spec => []LivoxInv
<1>1. Init => LivoxInv
  BY InitInv
<1>2. LivoxInv /\ [Next]_vars => LivoxInv'
  BY NextInv
<1> QED BY <1>1, <1>2, PTL DEF Spec

\* The driver's record, the datagrams and the device have values of their types,
\* and a sequence number names one pending request.
THEOREM TypeCorrect == Spec => []TypeOK
<1>1. LivoxInv => TypeOK
  <2> SUFFICES ASSUME LivoxInv PROVE TypeOK
    OBVIOUS
  <2>1. /\ DriverOK(drv) /\ drv \in DriverType /\ RepliesOK /\ device \in DeviceType
        /\ owner \in {"stopped", "running", "joined"}
    BY DEF LivoxInv, Sound, DriverOK
  <2>2. ASSUME NEW p \in drv.pending, NEW q \in drv.pending
        PROVE  /\ p.attempts \in 1 .. MaxAttempts
               /\ p.switching => p.key = WorkMode
               /\ p.seq = q.seq /\ Alike(p, q) => p = q
    <3>1. p \in Pendings
      BY <2>1 DEF DriverType
    <3>2. p.seq = q.seq /\ Alike(p, q) => p = q
      BY <2>1 DEF DriverOK, Rivals, Alike
    <3> QED BY <3>1, <3>2 DEF Pendings, PendingType
  <2>3. /\ drv.state \in {"Discovering", "Handshaking", "Initializing",
                          "Configuring", "Connected"}
        /\ drv.cfg \in Configs /\ drv.workState \in 0 .. 3
        /\ {drv.firmwareKnown, drv.configFailed, drv.samplingSent} \subseteq BOOLEAN
    BY <2>1 DEF DriverType
  <2>4. device.mode \in 0 .. 3 /\ device.switchTo \in 0 .. 3
    BY <2>1 DEF DeviceType
  <2>5. Len(drv.out) <= Capacity /\ Len(replies) <= Capacity
    BY <2>1 DEF DriverOK, RepliesOK
  <2> QED BY <2>1, <2>2, <2>3, <2>4, <2>5 DEF TypeOK
<1> QED BY <1>1, InvariantAlways, PTL

\* Whatever setting is pending carries the value that is wanted now: no answer is
\* taken for a newer value than the one it is for, no repetition writes an older one.
THEOREM PendingIsAlwaysDesired == Spec => []PendingIsDesired
<1>1. LivoxInv => PendingIsDesired
  BY DEF LivoxInv, Sound, DriverOK, PendingIsDesired
<1> QED BY <1>1, InvariantAlways, PTL

\* A configuration that is reported as applied is in the device, whatever was lost,
\* repeated, superseded or refused before.
THEOREM FormatsAreAlwaysApplied == Spec => []FormatsAreApplied
<1>1. LivoxInv => FormatsAreApplied
  <2> SUFFICES ASSUME LivoxInv, ConfigApplied, device.linked
               PROVE  /\ \A k \in Formats : device.value[k] = drv.cfg[k]
                      /\ drv.cfg[WorkMode] = 1 =>
                           device.value[Sampling] = drv.cfg[Sampling]
    BY DEF FormatsAreApplied
  <2>1. AllApplied(drv, device) /\ Configured(drv) /\ ~drv.configFailed
        /\ drv.state = "Connected"
    BY DEF LivoxInv, ConfigApplied, Configured
  <2>2. ASSUME NEW k \in Formats \cup {Sampling}, Applied(drv, device, k)
        PROVE  device.value[k] = drv.cfg[k]
    <3>1. k # ""
      BY ConstantFacts DEF Formats, Sampling
    <3>2. \A p \in drv.pending : p.key # k
      BY <3>1 DEF ConfigApplied, Settings, IsSetting
    <3> QED BY <2>2, <3>2 DEF Applied, Has
  <2> QED BY <2>1, <2>2 DEF AllApplied
<1> QED BY <1>1, InvariantAlways, PTL

\* Settings in flash are not written without need: the first copy of a write that
\* reaches the device finds another value there.
THEOREM FlashWritesAreAlwaysNeeded == Spec => FlashWritesAreNeeded
<1> DEFINE A == \A i \in {1} \cap DOMAIN drv.out :
                  LET m == drv.out[i] IN
                  m.cmd = "Set" /\ m.key \in FlashSet /\ ~m.again /\ device.linked
                    /\ drv'.out = Tail(drv.out) /\ nFaults' = nFaults
                    => device.value[m.key] # m.value
<1>1. LivoxInv /\ [Next]_vars => [A]_vars
  BY DEF LivoxInv, Sound, Firsts
<1> QED BY <1>1, InvariantAlways, PTL DEF Spec, FlashWritesAreNeeded
=============================================================================
