--------------------------- MODULE TransportProofs ---------------------------
(***************************************************************************)
(* Proofs about Transport, for packets of any length, any number of        *)
(* packets, connections, closes and stops.                                 *)
(***************************************************************************)
EXTENDS Transport, SequenceTheorems, FiniteSetTheorems, TLAPS

-----------------------------------------------------------------------------
(* The inductive invariant *)

\* What a worker remembers of a connection is not from the future, and an error
\* it is about to act on is one of the connection that stands or of an older one.
ConnInv ==
  /\ ioOpen => generation # 0
  /\ writeGen <= generation
  /\ readGen <= generation
  /\ wpc \in {"send", "close", "next"} => writeGen = generation
  /\ wpc = "close" => broken
  /\ rpc # "loop" => readGen # 0
  /\ rpc = "close" /\ readGen = generation => broken

\* The packet the writer took up last.
TakenUp == IF pending = 0 THEN cursor ELSE pending

\* Of the packets after a, b is the first one that has not been missed.
NextIs(a, b) ==
  /\ a < b
  /\ b <= nAdded
  /\ b \notin missed
  /\ \A p \in Packets : a < p /\ p < b => p \in missed

\* The pending packet is the next one to send after the cursor, and the writer's
\* list goes on from there; what was missed had left the ring.
QueueInv ==
  /\ pending = 0 => iWrite = 0
  /\ pending # 0 => NextIs(cursor, pending)
  /\ cursor <= nAdded
  /\ vBp # <<>> => NextIs(TakenUp, vBp[1])
  /\ \A k \in 1 .. Len(vBp) :
       vBp[k] = vBp[1] + (k - 1) /\ vBp[k] <= nAdded /\ vBp[k] \notin missed
  /\ \A p \in missed : p + Capacity <= nAdded
  /\ wpc = "next" => pending = 0
  /\ iWrite = PacketLen => wpc = "send"

\* The offset tells the last byte that was written on a connection.
OffsetIsOn(w) ==
  IF iWrite > 0 THEN w # <<>> /\ w[Len(w)] = <<pending, iWrite>>
  ELSE w # <<>> => w[Len(w)][2] = PacketLen /\ w[Len(w)][1] <= cursor

WireInv ==
  /\ iWrite > 0 => writeGen # 0
  /\ \A g \in Generations : g > generation => wire[g] = <<>>
  /\ generation # 0 =>
       IF writeGen = generation THEN OffsetIsOn(wire[generation])
       ELSE wire[generation] = <<>>

\* CursorIsTruthful without its cardinality.
TruthInv ==
  \A p \in Packets :
    /\ \A x, y \in Completions(p) : x = y
    /\ p <= cursor => (Completions(p) # {} <=> p \notin missed)
    /\ p > cursor /\ Completions(p) # {} => p = pending /\ iWrite = PacketLen

IInv ==
  /\ TypeOK
  /\ ConnInv
  /\ QueueInv
  /\ WireInv
  /\ WholePackets
  /\ TruthInv

LEMMA InitIInv == Init => IInv
<1> SUFFICES ASSUME Init PROVE IInv
  OBVIOUS
<1> USE TransportAssumption DEF Init
<1>1. TypeOK
  <2>1. <<>> \in Seq(Bytes) /\ <<>> \in Seq(Packets) /\ <<>> \in Seq(Generations)
    OBVIOUS
  <2>2. wire \in [Generations -> Seq(Bytes)]
    BY <2>1
  <2>3. /\ ioOpen \in BOOLEAN /\ broken \in BOOLEAN /\ bRun \in BOOLEAN
        /\ fetched \in BOOLEAN /\ wpc \in WriterPCs /\ rpc \in ReaderPCs
    BY DEF WriterPCs, ReaderPCs
  <2>4. /\ generation \in 0 .. MaxGenerations /\ writeGen \in 0 .. MaxGenerations
        /\ readGen \in 0 .. MaxGenerations /\ iWrite \in 0 .. PacketLen
        /\ pending \in 0 .. MaxPackets /\ cursor \in 0 .. MaxPackets
        /\ nAdded \in 0 .. MaxPackets
        /\ nCloses \in 0 .. MaxCloses /\ nStops \in 0 .. MaxStops
    OBVIOUS
  <2>5. vBp \in Seq(Packets) /\ received \in Seq(Generations) /\ missed \subseteq Packets
    BY <2>1
  <2> QED BY ONLY <2>2, <2>3, <2>4, <2>5 DEF TypeOK
<1>2. ConnInv /\ QueueInv /\ WireInv
  BY DEF ConnInv, QueueInv, NextIs, TakenUp, WireInv, Generations
<1>3. WholePackets
  BY DEF WholePackets, Generations
<1>4. TruthInv
  <2>1. \A p \in Packets : Completions(p) = {}
    BY DEF Completions, Generations
  <2> QED BY <2>1 DEF TruthInv, Packets
<1> QED BY <1>1, <1>2, <1>3, <1>4 DEF IInv

-----------------------------------------------------------------------------
(* Connections *)

LEMMA ConnStep == IInv /\ [Next]_vars => ConnInv'
<1> SUFFICES ASSUME IInv, [Next]_vars PROVE ConnInv'
  OBVIOUS
<1>1. /\ ConnInv
      /\ ioOpen \in BOOLEAN /\ generation \in Nat /\ readGen \in Nat /\ writeGen \in Nat
      /\ wpc \in WriterPCs /\ rpc \in ReaderPCs /\ broken \in BOOLEAN
  BY TransportAssumption DEF IInv, TypeOK
<1> USE <1>1 DEF ConnInv, connVars, writerVars, readerVars, envVars, history,
           WriterPCs, ReaderPCs
<1>2. CASE WriterLoop
  BY <1>2 DEF WriterLoop
<1>3. CASE WriterOpen \/ WriterOpenFails
  BY <1>3 DEF WriterOpen, WriterOpenFails
<1>4. CASE WriterPackets
  BY <1>4 DEF WriterPackets
<1>5. CASE WriterSend
  BY <1>5 DEF WriterSend, Sending
<1>6. CASE WriterError
  BY <1>6 DEF WriterError, Sending
<1>7. CASE WriterClose
  BY <1>7 DEF WriterClose, CloseConnection, LeaveWritePackets
<1>8. CASE WriterYields
  BY <1>8 DEF WriterYields, LeaveWritePackets, Sending
<1>9. CASE WriterComplete \/ WriterFetch
  BY <1>9 DEF WriterComplete, WriterFetch
<1>10. CASE WriterNext
  BY <1>10 DEF WriterNext, LeaveWritePackets
<1>11. CASE ReaderRecv
  BY <1>11 DEF ReaderRecv
<1>12. CASE ReaderData \/ ReaderClose
  BY <1>12 DEF ReaderData, ReaderClose, CloseConnection
<1>13. CASE Break \/ AddPacket \/ Close \/ Stop \/ Start
  BY <1>13 DEF Break, AddPacket, Close, CloseConnection, Stop, Start
<1>14. CASE UNCHANGED vars
  BY <1>14 DEF vars
<1> QED BY <1>2, <1>3, <1>4, <1>5, <1>6, <1>7, <1>8, <1>9, <1>10, <1>11, <1>12,
           <1>13, <1>14 DEF Next, WriterStep, ReaderStep

-----------------------------------------------------------------------------
(* The order of packets *)

LEMMA QueueStep == IInv /\ [Next]_vars => QueueInv'
<1> SUFFICES ASSUME IInv, [Next]_vars PROVE QueueInv'
  OBVIOUS
<1>1. /\ QueueInv
      /\ cursor \in Nat /\ pending \in Nat /\ nAdded \in Nat /\ iWrite \in Nat
      /\ iWrite <= PacketLen /\ PacketLen \in Nat \ {0}
      /\ vBp \in Seq(Packets) /\ Len(vBp) \in Nat
      /\ Capacity \in Nat \ {0} /\ missed \subseteq Packets /\ Packets \subseteq Nat
  BY TransportAssumption DEF IInv, TypeOK, Packets
<1>2. TakenUp \in Nat /\ \A k \in 1 .. Len(vBp) : vBp[k] \in Nat
  <2>1. \A k \in 1 .. Len(vBp) : vBp[k] \in Packets
    BY <1>1
  <2> QED BY <1>1, <2>1 DEF TakenUp
<1>3. vBp # <<>> => Len(vBp) > 0 /\ vBp[1] \in Nat
  BY <1>1, <1>2
<1>4. ASSUME UNCHANGED <<cursor, pending, missed>>, vBp' = vBp \/ vBp' = <<>>,
             nAdded' \in Nat, nAdded' >= nAdded,
             iWrite' = iWrite \/ iWrite' = 0,
             wpc' = "next" => wpc = "next",
             iWrite' = PacketLen => wpc' = "send",
             pending = 0 => iWrite' = 0
      PROVE  QueueInv'
  <2>1. ASSUME NEW a \in Nat, NEW b \in Nat, NextIs(a, b)
        PROVE  a < b /\ b <= nAdded' /\ b \notin missed'
               /\ \A p \in Packets : a < p /\ p < b => p \in missed'
    BY <1>1, <1>4, <2>1 DEF NextIs
  <2>2. pending' # 0 => NextIs(cursor, pending)'
    BY <1>1, <1>4, <2>1 DEF NextIs, QueueInv
  <2>3. TakenUp' = TakenUp
    BY <1>4 DEF TakenUp
  <2>4. vBp' = vBp => (vBp # <<>> => NextIs(TakenUp, vBp[1])')
    BY <1>1, <1>2, <1>3, <1>4, <2>1, <2>3 DEF NextIs, QueueInv
  <2>5. \A p \in missed' : p + Capacity <= nAdded'
    <3>1. ASSUME NEW p \in missed
          PROVE  p + Capacity <= nAdded'
      <4>1. p \in Nat /\ p + Capacity <= nAdded
        BY <1>1 DEF QueueInv
      <4>2. nAdded \in Nat /\ Capacity \in Nat /\ nAdded' \in Nat /\ nAdded' >= nAdded
        BY <1>1, <1>4
      <4> QED BY ONLY <4>1, <4>2
    <3> QED BY <1>4, <3>1
  <2>6. \A k \in 1 .. Len(vBp') : vBp'[k] = vBp'[1] + (k - 1) /\ vBp'[k] <= nAdded'
                                  /\ vBp'[k] \notin missed'
    <3>1. CASE vBp' = vBp
      BY <1>1, <1>2, <1>4, <3>1 DEF QueueInv
    <3>2. CASE vBp' = <<>>
      BY <3>2
    <3> QED BY <1>4, <3>1, <3>2
  <2>7. vBp' # <<>> => NextIs(TakenUp, vBp[1])'
    BY <1>4, <2>4
  <2>8. /\ pending' = 0 => iWrite' = 0
        /\ cursor' <= nAdded'
        /\ wpc' = "next" => pending' = 0
        /\ iWrite' = PacketLen => wpc' = "send"
    <3>1. cursor <= nAdded /\ (wpc = "next" => pending = 0)
      BY <1>1 DEF QueueInv
    <3> QED BY <1>1, <1>4, <3>1
  <2> QED BY ONLY <2>2, <2>5, <2>6, <2>7, <2>8 DEF QueueInv
<1> USE DEF connVars, writerVars, readerVars, envVars, history
<1>5. CASE WriterLoop \/ WriterOpen \/ WriterOpenFails
  BY <1>1, <1>4, <1>5 DEF WriterLoop, WriterOpen, WriterOpenFails, QueueInv
<1>6. CASE WriterPackets
  <2>1. iWrite # PacketLen
    BY <1>1, <1>6 DEF WriterPackets, QueueInv
  <2> QED BY <1>1, <1>4, <1>6, <2>1 DEF WriterPackets, QueueInv
<1>7. CASE WriterSend
  <2>1. /\ pending # 0 /\ iWrite' \in Nat /\ wpc = "send"
        /\ UNCHANGED <<cursor, pending, vBp, nAdded, wpc, missed>>
    BY <1>1, <1>7 DEF WriterSend, Sending, Size
  <2> QED BY <1>1, <2>1 DEF QueueInv, NextIs, TakenUp
<1>8. CASE WriterError \/ WriterClose \/ WriterYields
  <2>1. iWrite < PacketLen
    BY <1>1, <1>8 DEF WriterError, WriterClose, WriterYields, QueueInv, Sending, Size
  <2>2. /\ UNCHANGED <<cursor, pending, iWrite, nAdded, missed>>
        /\ vBp' = vBp \/ vBp' = <<>>
        /\ wpc' # "next"
    BY <1>8 DEF WriterError, WriterClose, WriterYields, LeaveWritePackets
  <2> QED BY <1>1, <1>4, <2>1, <2>2 DEF QueueInv
<1>9. CASE WriterComplete
  <2>1. /\ pending' = 0 /\ iWrite' = 0 /\ wpc' = "next"
        /\ UNCHANGED <<vBp, nAdded, missed>>
    BY <1>9 DEF WriterComplete
  <2>2. cursor' = TakenUp /\ TakenUp' = TakenUp
    BY <1>1, <1>9, <2>1 DEF WriterComplete, QueueInv, NextIs, TakenUp
  <2>3. TakenUp <= nAdded
    BY <1>1 DEF QueueInv, NextIs, TakenUp
  <2>4. vBp # <<>> => NextIs(TakenUp, vBp[1])'
    BY <1>1, <2>1, <2>2 DEF QueueInv, NextIs
  <2> QED BY <1>1, <2>1, <2>2, <2>3, <2>4 DEF QueueInv
<1>10. CASE WriterFetch
  <2>1. /\ pending = 0 /\ wpc = "next" /\ cursor <= nAdded
        /\ UNCHANGED <<cursor, pending, iWrite, nAdded, wpc>>
        /\ vBp' = [k \in 1 .. nAdded - Behind |-> Behind + k]
        /\ missed' = missed \cup (cursor + 1 .. Behind)
    BY <1>1, <1>10 DEF WriterFetch, QueueInv
  <2>2. /\ Behind \in Nat /\ cursor <= Behind /\ Behind <= nAdded
        /\ nAdded - Capacity <= Behind
        /\ Behind > cursor => Behind = nAdded - Capacity
    BY <1>1, <2>1 DEF Behind
  <2>3. TakenUp' = cursor
    BY <2>1 DEF TakenUp
  <2> HIDE DEF Behind
  <2>4. Len(vBp') = nAdded - Behind
    BY <1>1, <2>1, <2>2
  <2>5. \A p \in missed' : p <= Behind /\ p + Capacity <= nAdded
    BY <1>1, <2>1, <2>2 DEF QueueInv
  <2>6. \A k \in 1 .. Len(vBp') : vBp'[k] = Behind + k
    BY <2>1, <2>4
  <2>7. ASSUME NEW k \in 1 .. Len(vBp')
        PROVE  vBp'[k] = vBp'[1] + (k - 1) /\ vBp'[k] <= nAdded /\ vBp'[k] \notin missed'
    <3>1. 1 \in 1 .. Len(vBp') /\ k \in Nat /\ k > 0 /\ k <= nAdded - Behind
      BY <1>1, <2>2, <2>4
    <3>2. vBp'[k] = Behind + k /\ vBp'[1] = Behind + 1
      BY <2>6, <3>1
    <3> QED BY <1>1, <2>2, <2>5, <3>1, <3>2
  <2>8. vBp' # <<>> => NextIs(TakenUp, vBp[1])'
    <3>1. SUFFICES ASSUME vBp' # <<>>
                   PROVE  NextIs(cursor, vBp[1])'
      BY <2>1, <2>3
    <3>2. Behind < nAdded
      BY <1>1, <2>1, <2>2, <2>4, <3>1
    <3>3. vBp'[1] = Behind + 1
      BY <1>1, <2>2, <2>4, <2>6, <3>2
    <3>4. \A p \in Packets : cursor < p /\ p < Behind + 1 => p \in missed'
      BY <1>1, <2>1, <2>2
    <3>5. Behind + 1 \notin missed'
      BY <2>2, <2>5
    <3> QED BY <1>1, <2>1, <2>2, <3>2, <3>3, <3>4, <3>5 DEF NextIs
  <2> QED BY <1>1, <2>1, <2>5, <2>7, <2>8 DEF QueueInv
<1>11. CASE WriterNext /\ vBp = <<>>
  BY <1>1, <1>4, <1>11 DEF WriterNext, LeaveWritePackets, QueueInv
<1>12. CASE WriterNext /\ vBp # <<>>
  <2>1. /\ pending = 0 /\ iWrite = 0
        /\ pending' = Head(vBp) /\ vBp' = Tail(vBp) /\ wpc' = "send"
        /\ UNCHANGED <<iWrite, cursor, nAdded, missed>>
    BY <1>1, <1>12 DEF WriterNext, QueueInv
  <2>2. /\ Head(vBp) = vBp[1]
        /\ Len(Tail(vBp)) = Len(vBp) - 1
        /\ \A k \in 1 .. Len(Tail(vBp)) : Tail(vBp)[k] = vBp[k + 1]
    BY <1>1, <1>12, HeadTailProperties
  <2>3. NextIs(cursor, vBp[1])
    BY <1>1, <1>12, <2>1 DEF QueueInv, TakenUp
  <2>4. pending' = vBp[1] /\ pending' # 0 /\ TakenUp' = vBp[1]
    BY <1>1, <1>3, <1>12, <2>1, <2>2, <2>3 DEF NextIs, TakenUp
  <2>5. NextIs(cursor, pending)'
    BY <2>1, <2>3, <2>4 DEF NextIs
  <2>6. ASSUME NEW k \in 1 .. Len(vBp')
        PROVE  vBp'[k] = vBp[1] + k /\ vBp'[k] <= nAdded /\ vBp'[k] \notin missed
    <3>1. k \in 1 .. Len(Tail(vBp)) /\ k + 1 \in 1 .. Len(vBp) /\ (k + 1) - 1 = k
      BY <1>1, <1>3, <1>12, <2>1, <2>2
    <3>2. vBp'[k] = vBp[k + 1]
      BY <2>1, <2>2, <3>1
    <3>3. vBp[k + 1] = vBp[1] + ((k + 1) - 1) /\ vBp[k + 1] <= nAdded
          /\ vBp[k + 1] \notin missed
      BY <1>1, <3>1 DEF QueueInv
    <3> QED BY <3>1, <3>2, <3>3
  <2>7. vBp' # <<>> => 1 \in 1 .. Len(vBp') /\ vBp'[1] = vBp[1] + 1
    BY <1>1, <1>3, <1>12, <2>1, <2>2, <2>6
  <2>8. vBp' # <<>> => NextIs(TakenUp, vBp[1])'
    BY <1>1, <1>3, <1>12, <2>1, <2>4, <2>6, <2>7 DEF NextIs
  <2>9. \A k \in 1 .. Len(vBp') : vBp'[k] = vBp'[1] + (k - 1) /\ vBp'[k] <= nAdded
                                  /\ vBp'[k] \notin missed
    <3>1. SUFFICES ASSUME NEW k \in 1 .. Len(vBp')
                   PROVE  vBp'[k] = vBp'[1] + (k - 1)
      BY <2>6
    <3>2. vBp' # <<>> /\ k \in Nat
      OBVIOUS
    <3> QED BY <1>3, <1>12, <2>6, <2>7, <3>2
  <2> QED BY <1>1, <2>1, <2>4, <2>5, <2>8, <2>9 DEF QueueInv
<1>13. CASE ReaderStep
  BY <1>1, <1>4, <1>13 DEF ReaderStep, ReaderRecv, ReaderData, ReaderClose, QueueInv
<1>14. CASE Break \/ AddPacket \/ Close \/ Stop \/ Start
  BY <1>1, <1>4, <1>14 DEF Break, AddPacket, Close, Stop, Start, QueueInv
<1>15. CASE UNCHANGED vars
  BY <1>1, <1>4, <1>15 DEF vars, QueueInv
<1> QED BY <1>5, <1>6, <1>7, <1>8, <1>9, <1>10, <1>11, <1>12, <1>13, <1>14, <1>15
        DEF Next, WriterStep

-----------------------------------------------------------------------------
(* What goes out on the wire *)

\* What a send does: some of the bytes left are added to those of the current
\* connection, from where the offset says.
LEMMA SendEffect ==
  ASSUME IInv, WriterSend
  PROVE  /\ generation \in Generations
         /\ writeGen = generation
         /\ pending \in Packets
         /\ cursor < pending
         /\ \E n \in 1 .. PacketLen - iWrite :
              LET w == wire[generation]
                  v == wire'[generation]
              IN /\ iWrite' = iWrite + n
                 /\ v \in Seq(Bytes)
                 /\ Len(v) = Len(w) + n
                 /\ \A i \in 1 .. Len(w) : v[i] = w[i]
                 /\ \A k \in 1 .. n : v[Len(w) + k] = <<pending, iWrite + k>>
         /\ wire' \in [Generations -> Seq(Bytes)]
         /\ \A g \in Generations : g # generation => wire'[g] = wire[g]
<1> USE TransportAssumption
<1>1. /\ generation \in 0 .. MaxGenerations
      /\ pending \in 0 .. MaxPackets
      /\ cursor \in Nat
      /\ iWrite \in Nat
      /\ wire \in [Generations -> Seq(Bytes)]
  BY DEF IInv, TypeOK
<1>2. generation \in Generations /\ writeGen = generation
  BY <1>1 DEF WriterSend, IInv, ConnInv, Generations
<1>3. pending # 0 /\ Size(pending) = PacketLen
  BY <1>1 DEF WriterSend, Sending, Size
<1>4. pending \in Packets /\ cursor < pending
  BY <1>1, <1>3 DEF Packets, IInv, QueueInv, NextIs
<1>5. PICK n \in 1 .. PacketLen - iWrite :
        /\ iWrite' = iWrite + n
        /\ wire' = [wire EXCEPT ![generation] =
                      @ \o [k \in 1 .. n |-> <<pending, iWrite + k>>]]
  BY <1>3 DEF WriterSend
<1> DEFINE w == wire[generation]
           bytes == [k \in 1 .. n |-> <<pending, iWrite + k>>]
<1>6. bytes \in Seq(Bytes) /\ Len(bytes) = n
  <2>1. n \in Nat
    BY <1>1
  <2>2. \A k \in 1 .. n : <<pending, iWrite + k>> \in Bytes
    BY <1>1, <1>4 DEF Bytes
  <2>3. bytes \in [1 .. n -> Bytes]
    BY <2>2
  <2>4. bytes \in Seq(Bytes)
    <3> HIDE DEF bytes
    <3> QED BY <2>1, <2>3, SeqDef
  <2> QED BY <2>1, <2>4
<1>7. w \in Seq(Bytes) /\ Len(w) \in Nat
  BY <1>1, <1>2
<1>8. wire'[generation] = w \o bytes
  BY <1>1, <1>2, <1>5
<1>9. \A k \in 1 .. n : bytes[k] = <<pending, iWrite + k>>
  OBVIOUS
<1> HIDE DEF w, bytes
<1>10. /\ w \o bytes \in Seq(Bytes)
       /\ Len(w \o bytes) = Len(w) + n
       /\ \A i \in 1 .. Len(w) + n :
            (w \o bytes)[i] = IF i <= Len(w) THEN w[i] ELSE bytes[i - Len(w)]
  BY <1>6, <1>7, ConcatProperties
<1>11. \A i \in 1 .. Len(w) : (w \o bytes)[i] = w[i]
  BY <1>7, <1>10
<1>12. \A k \in 1 .. n : (w \o bytes)[Len(w) + k] = <<pending, iWrite + k>>
  <2>1. ASSUME NEW k \in 1 .. n
        PROVE  /\ Len(w) + k \in 1 .. Len(w) + n
               /\ ~(Len(w) + k <= Len(w))
               /\ Len(w) + k - Len(w) = k
    BY <1>7
  <2> QED BY <1>9, <1>10, <2>1
<1>13. wire' = [wire EXCEPT ![generation] = w \o bytes]
  BY <1>5 DEF w, bytes
<1>14. /\ wire' \in [Generations -> Seq(Bytes)]
       /\ \A g \in Generations : g # generation => wire'[g] = wire[g]
  BY <1>1, <1>10, <1>13
<1> QED BY <1>2, <1>4, <1>5, <1>8, <1>10, <1>11, <1>12, <1>14 DEF w

\* Only a send changes the wire.
LEMMA OthersLeaveTheWire ==
  ASSUME [Next]_vars, ~WriterSend
  PROVE  UNCHANGED wire
<1> USE DEF connVars, writerVars, readerVars, envVars, history
<1>1. CASE WriterStep
  BY <1>1 DEF WriterStep, WriterLoop, WriterOpen, WriterPackets, WriterError,
              WriterClose, WriterComplete, WriterFetch, WriterNext
<1>2. CASE WriterOpenFails \/ WriterYields
  BY <1>2 DEF WriterOpenFails, WriterYields
<1>3. CASE ReaderStep
  BY <1>3 DEF ReaderStep, ReaderRecv, ReaderData, ReaderClose
<1>4. CASE Break \/ AddPacket \/ Close \/ Stop \/ Start
  BY <1>4 DEF Break, AddPacket, Close, Stop, Start
<1>5. CASE UNCHANGED vars
  BY <1>5 DEF vars
<1> QED BY <1>1, <1>2, <1>3, <1>4, <1>5 DEF Next

LEMMA WireStep == IInv /\ [Next]_vars => WireInv'
<1> SUFFICES ASSUME IInv, [Next]_vars PROVE WireInv'
  OBVIOUS
<1>1. /\ WireInv /\ ConnInv /\ QueueInv
      /\ generation \in 0 .. MaxGenerations
      /\ writeGen \in 0 .. MaxGenerations
      /\ cursor \in Nat /\ pending \in Nat /\ iWrite \in Nat
      /\ wire \in [Generations -> Seq(Bytes)]
      /\ PacketLen \in Nat \ {0}
  BY TransportAssumption DEF IInv, TypeOK
<1> USE DEF connVars, writerVars, readerVars, envVars, history
<1>2. ASSUME UNCHANGED <<generation, writeGen, iWrite, cursor, wire>>,
             pending' = pending \/ iWrite = 0
      PROVE  WireInv'
  BY <1>1, <1>2 DEF WireInv, OffsetIsOn
<1>3. CASE WriterSend
  <2>1. /\ generation \in Generations /\ writeGen = generation
        /\ \A g \in Generations : g # generation => wire'[g] = wire[g]
    BY <1>3, SendEffect
  <2>2. PICK n \in 1 .. PacketLen - iWrite :
          /\ iWrite' = iWrite + n
          /\ wire'[generation] \in Seq(Bytes)
          /\ Len(wire'[generation]) = Len(wire[generation]) + n
          /\ \A k \in 1 .. n :
               wire'[generation][Len(wire[generation]) + k] = <<pending, iWrite + k>>
    BY <1>3, SendEffect
  <2>3. UNCHANGED <<generation, writeGen, pending, cursor>>
    BY <1>3 DEF WriterSend
  <2>4. Len(wire[generation]) \in Nat /\ n \in Nat /\ n > 0 /\ n \in 1 .. n
    BY <1>1, <2>1
  <2>5. wire'[generation] # <<>>
    BY <2>2, <2>4
  <2>6. OffsetIsOn(wire[generation])'
    BY <1>1, <2>2, <2>3, <2>4, <2>5 DEF OffsetIsOn
  <2>7. \A g \in Generations : g > generation => wire'[g] = <<>>
    BY <1>1, <2>1 DEF WireInv, Generations
  <2> QED BY <1>1, <2>1, <2>3, <2>6, <2>7 DEF WireInv, Generations
<1>4. CASE WriterOpen
  <2>1. CASE UNCHANGED generation
    <3>1. UNCHANGED <<writeGen, iWrite, cursor, wire, pending>>
      BY <1>4 DEF WriterOpen
    <3> QED BY <1>2, <2>1, <3>1
  <2>2. CASE generation' = generation + 1
    <3>1. UNCHANGED <<writeGen, iWrite, cursor, wire, pending>>
      BY <1>4 DEF WriterOpen
    <3>2. generation + 1 \in Generations
      BY <1>1, <1>4, <2>2, TransportAssumption DEF WriterOpen, Generations
    <3>3. wire[generation + 1] = <<>> /\ writeGen # generation + 1
      BY <1>1, <3>2 DEF WireInv, ConnInv
    <3>4. \A g \in Generations : g > generation' => wire'[g] = <<>>
      BY <1>1, <2>2, <3>1 DEF WireInv, Generations
    <3> QED BY <1>1, <2>2, <3>1, <3>3, <3>4 DEF WireInv
  <2> QED BY <1>4, <2>1, <2>2 DEF WriterOpen
<1>5. CASE WriterPackets
  <2>1. /\ writeGen' = generation
        /\ iWrite' = IF writeGen # generation THEN 0 ELSE iWrite
        /\ UNCHANGED <<generation, pending, cursor, wire>>
    BY <1>5 DEF WriterPackets
  <2>2. CASE writeGen = generation
    BY <1>2, <2>1, <2>2
  <2>3. CASE writeGen # generation
    BY <1>1, <2>1, <2>3 DEF WireInv, OffsetIsOn
  <2> QED BY <2>2, <2>3
<1>6. CASE WriterComplete
  <2>1. /\ cursor' = IF pending > cursor THEN pending ELSE cursor
        /\ pending' = 0 /\ iWrite' = 0 /\ iWrite >= Size(pending)
        /\ UNCHANGED <<generation, writeGen, wire>>
        /\ writeGen = generation
    BY <1>1, <1>6 DEF WriterComplete, ConnInv
  <2>2. CASE pending = 0
    BY <1>1, <1>2, <2>1, <2>2 DEF QueueInv
  <2>3. CASE pending # 0
    <3>1. iWrite = PacketLen /\ cursor' = pending
      BY <1>1, <2>1, <2>3 DEF Size, IInv, TypeOK, QueueInv, NextIs
    <3>2. OffsetIsOn(wire[generation]) /\ generation # 0
      BY <1>1, <2>1, <3>1 DEF WireInv
    <3>3. wire[generation][Len(wire[generation])] = <<pending, PacketLen>>
      BY <1>1, <3>1, <3>2 DEF OffsetIsOn
    <3>4. OffsetIsOn(wire[generation])'
      BY <1>1, <2>1, <3>1, <3>3 DEF OffsetIsOn
    <3> QED BY <1>1, <2>1, <3>2, <3>4 DEF WireInv
  <2> QED BY <2>2, <2>3
<1>7. CASE WriterLoop \/ WriterOpenFails \/ WriterError \/ WriterFetch
  BY <1>2, <1>7 DEF WriterLoop, WriterOpenFails, WriterError, WriterFetch
<1>8. CASE WriterClose \/ WriterYields
  BY <1>2, <1>8 DEF WriterClose, WriterYields, LeaveWritePackets, CloseConnection
<1>9. CASE WriterNext
  <2>1. iWrite = 0
    BY <1>1, <1>9 DEF WriterNext, QueueInv
  <2>2. UNCHANGED <<generation, writeGen, iWrite, cursor, wire>>
    BY <1>9 DEF WriterNext, LeaveWritePackets
  <2> QED BY <1>2, <2>1, <2>2
<1>10. CASE ReaderStep
  BY <1>2, <1>10 DEF ReaderStep, ReaderRecv, ReaderData, ReaderClose, CloseConnection
<1>11. CASE Break \/ AddPacket \/ Close \/ Stop \/ Start
  BY <1>2, <1>11 DEF Break, AddPacket, Close, CloseConnection, Stop, Start
<1>12. CASE UNCHANGED vars
  BY <1>2, <1>12 DEF vars
<1> QED BY <1>3, <1>4, <1>5, <1>6, <1>7, <1>8, <1>9, <1>10, <1>11, <1>12
        DEF Next, WriterStep

\* A byte that is sent continues its packet, or begins the next one after the
\* last byte of an earlier one.
LEMMA WholeStep == IInv /\ [Next]_vars => WholePackets'
<1> SUFFICES ASSUME IInv, [Next]_vars PROVE WholePackets'
  OBVIOUS
<1>1. CASE ~WriterSend
  BY <1>1, OthersLeaveTheWire DEF IInv, WholePackets
<1>2. CASE WriterSend
  <2> DEFINE w == wire[generation]
             v == wire'[generation]
  <2>1. /\ generation \in Generations /\ writeGen = generation
        /\ cursor < pending
        /\ \A g \in Generations : g # generation => wire'[g] = wire[g]
    BY <1>2, SendEffect
  <2>2. PICK n \in 1 .. PacketLen - iWrite :
          /\ v \in Seq(Bytes)
          /\ Len(v) = Len(w) + n
          /\ \A i \in 1 .. Len(w) : v[i] = w[i]
          /\ \A k \in 1 .. n : v[Len(w) + k] = <<pending, iWrite + k>>
    BY <1>2, SendEffect
  <2>3. /\ w \in Seq(Bytes) /\ Len(w) \in Nat /\ iWrite \in Nat
        /\ cursor \in Nat /\ pending \in Nat /\ n \in Nat
    BY <2>1, TransportAssumption DEF IInv, TypeOK
  <2>4. OffsetIsOn(w)
    BY <2>1 DEF IInv, WireInv, Generations
  <2> HIDE DEF w, v
  <2>5. ASSUME NEW i \in 1 .. Len(v)
        PROVE  IF v[i][2] > 1 THEN i > 1 /\ v[i - 1] = <<v[i][1], v[i][2] - 1>>
               ELSE i = 1 \/ (v[i - 1][2] = PacketLen /\ v[i - 1][1] < v[i][1])
    <3>1. CASE i <= Len(w)
      <4>1. i \in 1 .. Len(w) /\ (i = 1 \/ i - 1 \in 1 .. Len(w))
        BY <2>3, <3>1
      <4>2. v[i] = w[i] /\ (i = 1 \/ v[i - 1] = w[i - 1])
        BY <2>2, <4>1
      <4>3. IF w[i][2] > 1 THEN i > 1 /\ w[i - 1] = <<w[i][1], w[i][2] - 1>>
            ELSE i = 1 \/ (w[i - 1][2] = PacketLen /\ w[i - 1][1] < w[i][1])
        BY <2>1, <4>1 DEF IInv, WholePackets, w
      <4> QED BY <4>1, <4>2, <4>3
    <3>2. CASE i = Len(w) + 1
      <4>1. v[i] = <<pending, iWrite + 1>> /\ 1 \in 1 .. n
        <5>1. 1 \in 1 .. n
          BY <2>3
        <5> QED BY <2>2, <3>2, <5>1
      <4>2. w # <<>> => Len(w) \in 1 .. Len(w) /\ v[i - 1] = w[Len(w)]
        <5>1. w # <<>> => Len(w) \in 1 .. Len(w)
          BY <2>3
        <5> QED BY <2>2, <2>3, <3>2, <5>1
      <4>3. w = <<>> => i = 1
        BY <2>3, <3>2
      <4>4. CASE iWrite > 0
        <5>1. w # <<>> /\ w[Len(w)] = <<pending, iWrite>>
          BY <2>4, <4>4 DEF OffsetIsOn
        <5>2. v[i][1] = pending /\ v[i][2] = iWrite + 1 /\ v[i][2] - 1 = iWrite
          BY <2>3, <4>1
        <5>3. i > 1
          BY <2>3, <3>2, <4>2, <5>1
        <5> QED BY <2>3, <4>2, <4>4, <5>1, <5>2, <5>3
      <4>5. CASE iWrite = 0
        <5>1. v[i][1] = pending /\ v[i][2] = 1
          BY <4>1, <4>5
        <5>2. w # <<>> => w[Len(w)][2] = PacketLen /\ w[Len(w)][1] <= cursor
          BY <2>4, <4>5 DEF OffsetIsOn
        <5>3. w # <<>> => w[Len(w)][1] \in Nat
          BY <2>3, <4>2, TransportAssumption DEF Bytes, Packets
        <5> QED BY <2>1, <2>3, <4>2, <4>3, <5>1, <5>2, <5>3
      <4> QED BY <2>3, <4>4, <4>5
    <3>3. CASE i > Len(w) + 1
      <4>1. PICK k \in 2 .. n : i = Len(w) + k
        <5>1. i - Len(w) \in 2 .. n /\ i = Len(w) + (i - Len(w))
          BY <2>2, <2>3, <3>3
        <5> QED BY <5>1
      <4>2. k \in 1 .. n /\ k - 1 \in 1 .. n /\ i - 1 = Len(w) + (k - 1)
        BY <2>3, <4>1
      <4>3. v[i] = <<pending, iWrite + k>> /\ v[i - 1] = <<pending, iWrite + (k - 1)>>
        BY <2>2, <4>1, <4>2
      <4>4. iWrite + k > 1 /\ iWrite + (k - 1) = iWrite + k - 1 /\ i > 1
        BY <2>3, <3>3, <4>1
      <4>5. v[i][1] = pending /\ v[i][2] = iWrite + k
        BY <4>3
      <4>6. <<v[i][1], v[i][2] - 1>> = <<pending, iWrite + (k - 1)>>
        <5>1. v[i][2] - 1 = iWrite + (k - 1)
          BY <2>3, <4>1, <4>5
        <5> QED BY <4>5, <5>1
      <4> QED BY <4>3, <4>4, <4>5, <4>6
    <3> QED BY <2>2, <2>3, <3>1, <3>2, <3>3
  <2>6. ASSUME NEW g \in Generations, NEW i \in 1 .. Len(wire'[g])
        PROVE  LET b == wire'[g][i] IN
                 IF b[2] > 1 THEN i > 1 /\ wire'[g][i - 1] = <<b[1], b[2] - 1>>
                 ELSE i = 1 \/ (wire'[g][i - 1][2] = PacketLen
                                /\ wire'[g][i - 1][1] < b[1])
    <3>1. CASE g = generation
      BY <2>5, <3>1 DEF v
    <3>2. CASE g # generation
      BY <2>1, <3>2 DEF IInv, WholePackets
    <3> QED BY <3>1, <3>2
  <2> QED BY <2>6 DEF WholePackets
<1> QED BY <1>1, <1>2

-----------------------------------------------------------------------------
(* What the cursor tells *)

LEMMA PlaceOfACompletion ==
  ASSUME NEW p
  PROVE  \A x : x \in Completions(p) <=>
           \E g \in Generations : \E i \in 1 .. Len(wire[g]) :
             x = <<g, i>> /\ wire[g][i] = <<p, PacketLen>>
BY DEF Completions

\* A send completes the pending packet when it reaches its last byte, and no
\* other packet.
LEMMA SendCompletes ==
  ASSUME IInv, WriterSend, NEW p \in Packets
  PROVE  Completions(p)' =
           IF p = pending /\ iWrite' = PacketLen
           THEN Completions(p) \cup {<<generation, Len(wire'[generation])>>}
           ELSE Completions(p)
<1> DEFINE w == wire[generation]
           v == wire'[generation]
           new == <<generation, Len(v)>>
<1>1. /\ generation \in Generations
      /\ \A g \in Generations : g # generation => wire'[g] = wire[g]
  BY SendEffect
<1>2. PICK n \in 1 .. PacketLen - iWrite :
        /\ iWrite' = iWrite + n
        /\ Len(v) = Len(w) + n
        /\ \A i \in 1 .. Len(w) : v[i] = w[i]
        /\ \A k \in 1 .. n : v[Len(w) + k] = <<pending, iWrite + k>>
  BY SendEffect
<1>3. /\ Len(w) \in Nat /\ iWrite \in Nat /\ n \in Nat /\ n > 0
      /\ PacketLen \in Nat /\ iWrite + n <= PacketLen
  BY <1>1, TransportAssumption DEF IInv, TypeOK
<1> HIDE DEF w, v
<1>4. ASSUME NEW i \in 1 .. Len(v)
      PROVE  v[i] = <<p, PacketLen>> <=>
               \/ i \in 1 .. Len(w) /\ w[i] = <<p, PacketLen>>
               \/ i = Len(v) /\ p = pending /\ iWrite' = PacketLen
  <2>1. CASE i \in 1 .. Len(w)
    BY <1>2, <1>3, <2>1
  <2>2. CASE i > Len(w)
    <3>1. i - Len(w) \in 1 .. n /\ i = Len(w) + (i - Len(w))
      BY <1>2, <1>3, <2>2
    <3>2. PICK k \in 1 .. n : i = Len(w) + k
      BY <3>1
    <3>3. v[i] = <<pending, iWrite + k>>
      BY <1>2, <3>2
    <3>4. iWrite + k = PacketLen <=> i = Len(v) /\ iWrite' = PacketLen
      BY <1>2, <1>3, <3>2
    <3>5. i \notin 1 .. Len(w)
      BY <1>3, <2>2
    <3> QED BY <3>3, <3>4, <3>5
  <2> QED BY <1>2, <1>3, <2>1, <2>2
<1>5. Len(v) \in 1 .. Len(v) /\ 1 .. Len(w) \subseteq 1 .. Len(v)
  BY <1>2, <1>3
<1>6. ASSUME NEW x
      PROVE  x \in Completions(p)' <=>
               x \in Completions(p) \/ (x = new /\ p = pending /\ iWrite' = PacketLen)
  <2>1. x \in Completions(p)' <=>
          \E g \in Generations : \E i \in 1 .. Len(wire'[g]) :
            x = <<g, i>> /\ wire'[g][i] = <<p, PacketLen>>
    BY DEF Completions
  <2>2. x \in Completions(p) <=>
          \E g \in Generations : \E i \in 1 .. Len(wire[g]) :
            x = <<g, i>> /\ wire[g][i] = <<p, PacketLen>>
    BY PlaceOfACompletion
  <2>3. ASSUME x \in Completions(p)'
        PROVE  x \in Completions(p) \/ (x = new /\ p = pending /\ iWrite' = PacketLen)
    <3>0. PICK g \in Generations : \E i \in 1 .. Len(wire'[g]) :
            x = <<g, i>> /\ wire'[g][i] = <<p, PacketLen>>
      BY <2>1, <2>3
    <3>1. PICK i \in 1 .. Len(wire'[g]) : x = <<g, i>> /\ wire'[g][i] = <<p, PacketLen>>
      BY <3>0
    <3>2. CASE g = generation
      <4>1. i \in 1 .. Len(v) /\ v[i] = <<p, PacketLen>>
        BY <3>1, <3>2 DEF v
      <4>2. CASE i \in 1 .. Len(w) /\ w[i] = <<p, PacketLen>>
        BY <1>1, <2>2, <3>1, <3>2, <4>2 DEF w
      <4>3. CASE i = Len(v) /\ p = pending /\ iWrite' = PacketLen
        BY <3>1, <3>2, <4>3
      <4> QED BY <1>4, <4>1, <4>2, <4>3
    <3>3. CASE g # generation
      BY <1>1, <2>2, <3>1, <3>3
    <3> QED BY <3>2, <3>3
  <2>4. ASSUME x \in Completions(p)
        PROVE  x \in Completions(p)'
    <3>0. PICK g \in Generations : \E i \in 1 .. Len(wire[g]) :
            x = <<g, i>> /\ wire[g][i] = <<p, PacketLen>>
      BY <2>2, <2>4
    <3>1. PICK i \in 1 .. Len(wire[g]) : x = <<g, i>> /\ wire[g][i] = <<p, PacketLen>>
      BY <3>0
    <3>2. CASE g = generation
      <4>1. i \in 1 .. Len(w) /\ w[i] = <<p, PacketLen>>
        BY <3>1, <3>2 DEF w
      <4>2. i \in 1 .. Len(v) /\ v[i] = <<p, PacketLen>>
        BY <1>4, <1>5, <4>1
      <4> QED BY <1>1, <2>1, <3>1, <3>2, <4>2 DEF v
    <3>3. CASE g # generation
      BY <1>1, <2>1, <3>1, <3>3
    <3> QED BY <3>2, <3>3
  <2>5. ASSUME x = new, p = pending, iWrite' = PacketLen
        PROVE  x \in Completions(p)'
    <3>1. v[Len(v)] = <<p, PacketLen>>
      BY <1>4, <1>5, <2>5
    <3> QED BY <1>1, <1>5, <2>1, <2>5, <3>1 DEF v
  <2> QED BY <2>3, <2>4, <2>5
<1>7. new = <<generation, Len(wire'[generation])>>
  BY DEF v
<1> HIDE DEF new
<1> QED BY <1>6, <1>7

LEMMA TruthStep == IInv /\ [Next]_vars => TruthInv'
<1> SUFFICES ASSUME IInv, [Next]_vars PROVE TruthInv'
  OBVIOUS
<1>1. /\ TruthInv /\ QueueInv /\ WireInv /\ ConnInv
      /\ cursor \in Nat /\ pending \in Nat /\ iWrite \in Nat /\ iWrite <= PacketLen
      /\ PacketLen \in Nat \ {0}
      /\ Packets \subseteq Nat \ {0}
  BY TransportAssumption DEF IInv, TypeOK, Packets
<1> USE DEF connVars, writerVars, readerVars, envVars, history
<1>2. CASE WriterSend
  <2>1. /\ pending \in Packets /\ cursor < pending /\ cursor' = cursor
        /\ pending' = pending /\ missed' = missed /\ iWrite < PacketLen
    BY <1>1, <1>2, SendEffect DEF WriterSend, Sending, Size
  <2>2. ASSUME NEW p \in Packets, p = pending /\ iWrite' = PacketLen
        PROVE  Completions(p)' = {<<generation, Len(wire'[generation])>>}
    <3>1. Completions(p) = {}
      BY <1>1, <2>1, <2>2 DEF TruthInv
    <3> QED BY <1>2, <2>2, <3>1, SendCompletes
  <2>3. ASSUME NEW p \in Packets, ~(p = pending /\ iWrite' = PacketLen)
        PROVE  Completions(p)' = Completions(p)
    BY <1>2, <2>3, SendCompletes
  <2>4. ASSUME NEW p \in Packets
        PROVE  /\ \A x, y \in Completions(p)' : x = y
               /\ p <= cursor' => (Completions(p)' # {} <=> p \notin missed')
               /\ p > cursor' /\ Completions(p)' # {} =>
                    p = pending' /\ iWrite' = PacketLen
    <3>1. CASE p = pending /\ iWrite' = PacketLen
      BY <1>1, <2>1, <2>2, <3>1
    <3>2. CASE ~(p = pending /\ iWrite' = PacketLen)
      BY <1>1, <2>1, <2>3, <3>2 DEF TruthInv
    <3> QED BY <3>1, <3>2
  <2> QED BY <2>4 DEF TruthInv
<1>3. ASSUME ~WriterSend
      PROVE  \A p \in Packets : Completions(p)' = Completions(p)
  BY <1>3, OthersLeaveTheWire DEF Completions
<1>4. ASSUME ~WriterSend, cursor' = cursor,
             \A p \in Packets : p <= cursor => (p \in missed' <=> p \in missed),
             iWrite = PacketLen => pending' = pending /\ iWrite' = iWrite
      PROVE  TruthInv'
  BY <1>1, <1>3, <1>4 DEF TruthInv
<1>5. CASE ~WriterSend /\ WriterComplete
  <2>1. /\ cursor' = IF pending > cursor THEN pending ELSE cursor
        /\ pending' = 0 /\ iWrite' = 0 /\ iWrite >= Size(pending)
        /\ wpc = "send" /\ writeGen = generation
        /\ UNCHANGED <<generation, writeGen, wire, missed>>
    BY <1>1, <1>5 DEF WriterComplete, ConnInv
  <2>2. CASE pending = 0
    BY <1>1, <1>4, <1>5, <2>1, <2>2 DEF QueueInv
  <2>3. CASE pending # 0
    <3>1. /\ iWrite = PacketLen /\ cursor' = pending /\ cursor < pending
          /\ pending \in Packets /\ pending \notin missed
          /\ \A p \in Packets : cursor < p /\ p < pending => p \in missed
      BY <1>1, <2>1, <2>3, TransportAssumption
         DEF Size, QueueInv, NextIs, IInv, TypeOK, Packets
    <3>2. generation \in Generations /\ OffsetIsOn(wire[generation])
      BY <1>1, <2>1, <3>1, TransportAssumption
         DEF WireInv, IInv, TypeOK, Generations
    <3>3. /\ wire[generation][Len(wire[generation])] = <<pending, PacketLen>>
          /\ wire[generation] # <<>> /\ wire[generation] \in Seq(Bytes)
      BY <1>1, <3>1, <3>2 DEF OffsetIsOn, IInv, TypeOK
    <3>4. Len(wire[generation]) \in 1 .. Len(wire[generation])
      BY <3>3
    <3>5. Completions(pending) # {}
      <4>1. <<generation, Len(wire[generation])>> \in Completions(pending)
        BY <3>2, <3>3, <3>4, PlaceOfACompletion
      <4> QED BY <4>1
    <3>6. ASSUME NEW p \in Packets
          PROVE  /\ \A x, y \in Completions(p) : x = y
                 /\ p <= cursor' => (Completions(p) # {} <=> p \notin missed)
                 /\ ~(p > cursor' /\ Completions(p) # {})
      BY <1>1, <3>1, <3>5 DEF TruthInv
    <3> QED BY <1>3, <1>5, <2>1, <3>6 DEF TruthInv
  <2> QED BY <2>2, <2>3
<1>6. CASE ~WriterSend /\ (WriterLoop \/ WriterOpen \/ WriterOpenFails \/ WriterError)
  BY <1>4, <1>6 DEF WriterLoop, WriterOpen, WriterOpenFails, WriterError
<1>13. CASE ~WriterSend /\ WriterFetch
  <2>1. \A p \in Packets : p <= cursor => (p \in missed' <=> p \in missed)
    <3>1. \A p \in cursor + 1 .. Behind : p > cursor
      BY <1>1
    <3> QED BY <1>1, <1>13, <3>1 DEF WriterFetch
  <2> QED BY <1>4, <1>13, <2>1 DEF WriterFetch
<1>7. CASE ~WriterSend /\ WriterPackets
  <2>1. iWrite # PacketLen /\ cursor' = cursor /\ missed' = missed
    BY <1>1, <1>7 DEF WriterPackets, QueueInv
  <2> QED BY <1>4, <1>7, <2>1
<1>8. CASE ~WriterSend /\ (WriterClose \/ WriterYields)
  BY <1>4, <1>8 DEF WriterClose, WriterYields, LeaveWritePackets
<1>9. CASE ~WriterSend /\ WriterNext
  <2>1. iWrite # PacketLen /\ cursor' = cursor /\ missed' = missed
    BY <1>1, <1>9 DEF WriterNext, QueueInv, LeaveWritePackets
  <2> QED BY <1>4, <1>9, <2>1
<1>10. CASE ~WriterSend /\ ReaderStep
  BY <1>4, <1>10 DEF ReaderStep, ReaderRecv, ReaderData, ReaderClose
<1>11. CASE ~WriterSend /\ (Break \/ AddPacket \/ Close \/ Stop \/ Start)
  BY <1>4, <1>11 DEF Break, AddPacket, Close, Stop, Start
<1>12. CASE ~WriterSend /\ UNCHANGED vars
  BY <1>4, <1>12 DEF vars
<1> QED BY <1>2, <1>5, <1>6, <1>7, <1>8, <1>9, <1>10, <1>11, <1>12, <1>13
        DEF Next, WriterStep

-----------------------------------------------------------------------------
(* Types *)

\* Offsets, cursors and generations stay within their bounds.
LEMMA TypeStep == IInv /\ [Next]_vars => TypeOK'
<1> SUFFICES ASSUME IInv, [Next]_vars PROVE TypeOK'
  OBVIOUS
<1>1. /\ TypeOK /\ ConnInv /\ QueueInv
      /\ MaxPackets \in Nat /\ MaxGenerations \in Nat /\ PacketLen \in Nat \ {0}
      /\ MaxCloses \in Nat /\ MaxStops \in Nat
  BY TransportAssumption DEF IInv
<1> USE DEF connVars, writerVars, readerVars, envVars, history, WriterPCs,
           ReaderPCs
<1>2. <<>> \in Seq(Packets)
  OBVIOUS
<1>3. CASE WriterLoop \/ WriterOpen \/ WriterOpenFails
  <2>1. CASE WriterLoop \/ WriterOpenFails
    BY <1>1, <2>1 DEF TypeOK, WriterLoop, WriterOpenFails
  <2>2. CASE WriterOpen
    <3>1. generation' \in 0 .. MaxGenerations
      BY <1>1, <2>2 DEF TypeOK, WriterOpen
    <3>2. ioOpen' \in BOOLEAN /\ broken' \in BOOLEAN /\ wpc' = "packets"
      BY <1>1, <2>2 DEF TypeOK, WriterOpen
    <3>3. UNCHANGED <<writeGen, iWrite, pending, fetched, vBp, cursor, readerVars,
                      envVars, history>>
      BY <2>2 DEF WriterOpen
    <3> QED BY <1>1, <3>1, <3>2, <3>3 DEF TypeOK
  <2> QED BY <1>3, <2>1, <2>2
<1>4. CASE WriterPackets \/ WriterError
  <2>1. CASE WriterPackets
    BY <1>1, <2>1 DEF TypeOK, WriterPackets
  <2>2. CASE WriterError
    BY <1>1, <2>2 DEF TypeOK, WriterError
  <2> QED BY <1>4, <2>1, <2>2
<1>5. CASE WriterSend
  <2>1. wire' \in [Generations -> Seq(Bytes)]
    BY <1>5, SendEffect
  <2>2. iWrite' \in 0 .. PacketLen
    <3>1. PICK n \in 1 .. PacketLen - iWrite : iWrite' = iWrite + n
      BY <1>5, SendEffect
    <3>2. iWrite \in Nat
      BY <1>1 DEF TypeOK
    <3> QED BY <1>1, <3>1, <3>2
  <2>3. UNCHANGED <<connVars, wpc, writeGen, pending, fetched, vBp, cursor,
                    readerVars, envVars, missed>>
    BY <1>5 DEF WriterSend
  <2> QED BY <1>1, <2>1, <2>2, <2>3 DEF TypeOK
<1>6. CASE WriterClose \/ WriterYields
  BY <1>1, <1>2, <1>6 DEF TypeOK, WriterClose, WriterYields, LeaveWritePackets,
                          CloseConnection
<1>7. CASE WriterComplete
  BY <1>1, <1>7 DEF TypeOK, WriterComplete
<1>8. CASE WriterFetch
  <2>1. /\ cursor \in 0 .. MaxPackets /\ nAdded \in 0 .. MaxPackets
        /\ cursor <= nAdded
    BY <1>1 DEF TypeOK, QueueInv
  <2>2. Behind \in Nat /\ Behind <= nAdded
    BY <2>1, TransportAssumption DEF Behind
  <2> DEFINE n == nAdded - Behind
             new == [k \in 1 .. n |-> Behind + k]
  <2>3. n \in Nat
    BY <2>1, <2>2
  <2>4. \A k \in 1 .. n : Behind + k \in Packets
    BY <1>1, <2>1, <2>2 DEF Packets
  <2>5. new \in [1 .. n -> Packets]
    BY <2>4
  <2>6. new \in Seq(Packets)
    <3> HIDE DEF new, n
    <3> QED BY <2>3, <2>5, SeqDef
  <2>7. vBp' \in Seq(Packets)
    BY <1>8, <2>6 DEF WriterFetch
  <2>8. missed' \subseteq Packets
    <3>1. cursor + 1 .. Behind \subseteq Packets
      BY <1>1, <2>1, <2>2 DEF Packets
    <3> QED BY <1>1, <1>8, <3>1 DEF WriterFetch, TypeOK
  <2>9. fetched' = TRUE
        /\ UNCHANGED <<connVars, wpc, writeGen, iWrite, pending, cursor,
                       readerVars, envVars, wire>>
    BY <1>8 DEF WriterFetch
  <2> QED BY <1>1, <2>7, <2>8, <2>9 DEF TypeOK
<1>9. CASE WriterNext
  <2>1. UNCHANGED <<connVars, readerVars, envVars, history>>
    BY <1>9 DEF WriterNext
  <2>2. CASE vBp = <<>>
    BY <1>1, <1>2, <1>9, <2>1, <2>2 DEF TypeOK, WriterNext, LeaveWritePackets
  <2>3. CASE vBp # <<>>
    <3>1. Head(vBp) \in Packets /\ Tail(vBp) \in Seq(Packets)
      BY <1>1, <2>3, HeadTailProperties DEF TypeOK
    <3>2. pending' \in 0 .. MaxPackets /\ vBp' \in Seq(Packets)
      BY <1>1, <1>9, <2>3, <3>1 DEF WriterNext, Packets
    <3>3. wpc' = "send" /\ UNCHANGED <<writeGen, iWrite, fetched, cursor>>
      BY <1>9, <2>3 DEF WriterNext
    <3> QED BY <1>1, <2>1, <3>2, <3>3 DEF TypeOK
  <2> QED BY <2>2, <2>3
<1>10. CASE ReaderRecv \/ ReaderClose
  BY <1>1, <1>10 DEF TypeOK, ReaderRecv, ReaderClose, CloseConnection
<1>11. CASE ReaderData
  <2>1. readGen \in Generations
    BY <1>1, <1>11 DEF TypeOK, ConnInv, ReaderData, Generations
  <2>2. received' \in Seq(Generations)
    <3>1. received \in Seq(Generations) /\ received' = Append(received, readGen)
      BY <1>1, <1>11 DEF TypeOK, ReaderData
    <3> QED BY <2>1, <3>1
  <2>3. rpc' = "loop" /\ UNCHANGED <<connVars, writerVars, envVars, history, readGen>>
    BY <1>11 DEF ReaderData
  <2> QED BY <1>1, <2>2, <2>3 DEF TypeOK
<1>12. CASE Break \/ AddPacket \/ Close
  <2>1. CASE Break
    BY <1>1, <2>1 DEF TypeOK, Break
  <2>2. CASE AddPacket
    <3>1. nAdded' \in 0 .. MaxPackets
      BY <1>1, <2>2 DEF TypeOK, AddPacket
    <3>2. UNCHANGED <<connVars, writerVars, readerVars, bRun, nCloses, nStops, history>>
      BY <2>2 DEF AddPacket
    <3> QED BY <1>1, <3>1, <3>2 DEF TypeOK
  <2>3. CASE Close
    <3>1. nCloses' \in 0 .. MaxCloses
      BY <1>1, <2>3 DEF TypeOK, Close
    <3>2. /\ ioOpen' \in BOOLEAN
          /\ UNCHANGED <<generation, broken, writerVars, readerVars, bRun, nAdded,
                         nStops, history>>
      BY <2>3 DEF Close, CloseConnection
    <3> QED BY <1>1, <3>1, <3>2 DEF TypeOK
  <2> QED BY <1>12, <2>1, <2>2, <2>3
<1>13. CASE Stop \/ Start
  <2>1. nStops' \in 0 .. MaxStops /\ bRun' \in BOOLEAN
    <3>1. nStops \in 0 .. MaxStops
      BY <1>1 DEF TypeOK
    <3>2. CASE Stop
      <4>1. nStops < MaxStops /\ nStops' = nStops + 1 /\ bRun' = FALSE
        BY <3>2 DEF Stop
      <4>2. MaxStops \in Nat
        BY <1>1
      <4>3. nStops + 1 \in 0 .. MaxStops
        BY <3>1, <4>1, <4>2
      <4> QED BY <4>1, <4>3
    <3>3. CASE Start
      BY <3>1, <3>3 DEF Start
    <3> QED BY <1>13, <3>2, <3>3
  <2>2. UNCHANGED <<connVars, writerVars, readerVars, nAdded, nCloses, history>>
    BY <1>13 DEF Stop, Start
  <2> QED BY <1>1, <2>1, <2>2 DEF TypeOK
<1>14. CASE UNCHANGED vars
  BY <1>1, <1>14 DEF TypeOK, vars
<1> QED BY <1>3, <1>4, <1>5, <1>6, <1>7, <1>8, <1>9, <1>10, <1>11, <1>12, <1>13,
           <1>14 DEF Next, WriterStep, ReaderStep

LEMMA Invariance == Spec => []IInv
<1>1. IInv /\ [Next]_vars => IInv'
  BY TypeStep, ConnStep, QueueStep, WireStep, WholeStep, TruthStep DEF IInv
<1> QED BY <1>1, InitIInv, PTL DEF Spec

-----------------------------------------------------------------------------
(* Theorems *)

\* The descriptors, offsets, cursors and histories of a transport, for every
\* value of the constants (_TCPclient.cpp, _SerialPort.cpp, _IObase.cpp).
THEOREM TypeCorrect == Spec => []TypeOK
<1>1. IInv => TypeOK
  BY DEF IInv
<1> QED BY <1>1, Invariance, PTL

\* writePending and the generation of writePackets: whatever fails, is closed,
\* stopped or reopened, a peer sees packets from their first byte, in order, and
\* only the last one on a connection may be cut off.
THEOREM PacketsAreAlwaysWhole == Spec => []WholePackets
<1>1. IInv => WholePackets
  BY DEF IInv
<1> QED BY <1>1, Invariance, PTL

\* m_tLastBpStreamIn moves with the last byte of a packet: what is behind it was
\* written completely and once, over all connections, or was overwritten in the
\* ring before get() and not written at all; and nothing else was written.
THEOREM CursorIsAlwaysTruthful == Spec => []CursorIsTruthful
<1>1. IInv => CursorIsTruthful
  <2> SUFFICES ASSUME IInv, NEW p \in Packets
               PROVE  /\ Cardinality(Completions(p)) <= 1
                      /\ p <= cursor => (Completions(p) # {} <=> p \notin missed)
                      /\ p > cursor /\ Completions(p) # {} =>
                           p = pending /\ iWrite = PacketLen
    BY DEF CursorIsTruthful, IInv, QueueInv
  <2>1. \A x, y \in Completions(p) : x = y
    BY DEF IInv, TruthInv
  <2>2. CASE Completions(p) = {}
    <3>1. Cardinality(Completions(p)) = 0
      BY <2>2, FS_EmptySet
    <3> QED BY <3>1 DEF IInv, TruthInv
  <2>3. CASE Completions(p) # {}
    <3>1. PICK x : Completions(p) = {x}
      BY <2>1, <2>3
    <3>2. Cardinality(Completions(p)) = 1
      BY <3>1, FS_Singleton
    <3> QED BY <3>2 DEF IInv, TruthInv
  <2> QED BY <2>2, <2>3
<1> QED BY <1>1, Invariance, PTL

\* closeConnection(generation): an error that a worker found on an older
\* connection does not close the one that was opened since.
THEOREM OnlyBrokenIsEverClosed == Spec => OnlyBrokenIsClosed
<1>1. IInv /\ [Next]_vars => [ioOpen /\ ~ioOpen' => broken \/ nCloses' > nCloses]_vars
  <2> SUFFICES ASSUME IInv, [Next]_vars, ioOpen, ~ioOpen'
               PROVE  broken \/ nCloses' > nCloses
    OBVIOUS
  <2> USE DEF connVars, writerVars, readerVars, envVars, history
  <2>1. ConnInv /\ nCloses \in Nat
    BY TransportAssumption DEF IInv, TypeOK
  <2>2. CASE WriterClose
    BY <2>1, <2>2 DEF WriterClose, ConnInv
  <2>3. CASE ReaderClose
    BY <2>1, <2>3 DEF ReaderClose, CloseConnection, ConnInv
  <2>4. CASE Close
    BY <2>1, <2>4 DEF Close
  <2>5. CASE WriterLoop \/ WriterOpen \/ WriterPackets \/ WriterSend \/ WriterError
    BY <2>1, <2>5 DEF WriterLoop, WriterOpen, WriterPackets, WriterSend, WriterError
  <2>6. CASE WriterComplete \/ WriterFetch \/ WriterNext \/ WriterOpenFails \/ WriterYields
    BY <2>1, <2>6 DEF WriterComplete, WriterFetch, WriterNext, WriterOpenFails,
                      WriterYields
  <2>7. CASE ReaderRecv \/ ReaderData \/ Break \/ AddPacket \/ Stop \/ Start
    BY <2>1, <2>7 DEF ReaderRecv, ReaderData, Break, AddPacket, Stop, Start
  <2>8. CASE UNCHANGED vars
    BY <2>1, <2>8 DEF vars
  <2> QED BY <2>2, <2>3, <2>4, <2>5, <2>6, <2>7, <2>8
          DEF Next, WriterStep, ReaderStep
<1> QED BY <1>1, Invariance, PTL DEF Spec, OnlyBrokenIsClosed
=============================================================================
