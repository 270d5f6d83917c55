------------------------------ MODULE Transport ------------------------------
(***************************************************************************)
(* A byte transport with its two workers (src/IO/_TCPclient.cpp over       *)
(* src/IO/_IObase.cpp; _SerialPort.cpp has the same structure).  The       *)
(* writer owns reconnection and the pending packet; the reader detects     *)
(* errors on its own.  Both reach the connection under a shared mutex:     *)
(* every critical section is one step, and whatever a worker remembers     *)
(* between two of them can be out of date.                                 *)
(*                                                                         *)
(* Packet n is the n-th packet added to BytePacketStreamIn and n is its    *)
(* time stamp; it has PacketLen bytes.  The stream keeps the last Capacity *)
(* of its packets (DataObjStream): what the writer has not fetched by then *)
(* is overwritten and cannot be sent.                                      *)
(***************************************************************************)
EXTENDS Integers, FiniteSets, Sequences

CONSTANTS
  PacketLen,       \* bytes in a packet
  Capacity,        \* m_nPacket, elements of BytePacketStreamIn's ring
  MaxPackets,      \* bound: packets to send
  MaxGenerations,  \* bound: connections opened
  MaxCloses,       \* bound: calls of close() by others
  MaxStops,        \* bound: calls of stop()
  MaxReads         \* bound: chunks received

ASSUME TransportAssumption ==
  /\ PacketLen \in Nat \ {0}
  /\ Capacity \in Nat \ {0}
  /\ MaxPackets \in Nat
  /\ MaxGenerations \in Nat
  /\ MaxCloses \in Nat
  /\ MaxStops \in Nat
  /\ MaxReads \in Nat

VARIABLES
  ioOpen,      \* m_ioStatus = io_opened, and the socket is valid
  generation,  \* m_connectionGeneration
  broken,      \* the connection has failed and its calls may say so
  bRun,        \* m_pT->bRun() and m_pTr->bRun()
  wpc,         \* where the writer is
  writeGen,    \* m_writeConnectionGeneration
  iWrite,      \* m_iWrite, bytes of the pending packet already written
  pending,     \* m_bpWrite, 0 when there is none
  fetched,     \* the writer has called get() in this writePackets
  vBp,         \* the packets it got and has not taken up yet
  cursor,      \* m_tLastBpStreamIn
  rpc,         \* where the reader is
  readGen,     \* the generation the reader remembers
  nAdded,      \* packets added to BytePacketStreamIn
  wire,        \* history: for each generation, the bytes written, in order
  missed,      \* history: packets overwritten before the writer's get()
  received,    \* history: the generation of each chunk put in BytePacketStreamOut
  nCloses,     \* bound counters
  nStops

writerVars == <<wpc, writeGen, iWrite, pending, fetched, vBp, cursor>>
readerVars == <<rpc, readGen, received>>
connVars == <<ioOpen, generation, broken>>
envVars == <<bRun, nAdded, nCloses, nStops>>
history == <<wire, missed>>
vars == <<connVars, writerVars, readerVars, envVars, history>>

Generations == 1 .. MaxGenerations
Packets == 1 .. MaxPackets
Size(p) == IF p = 0 THEN 0 ELSE PacketLen

Init ==
  /\ ioOpen = FALSE
  /\ generation = 0
  /\ broken = FALSE
  /\ bRun = TRUE
  /\ wpc = "loop"
  /\ writeGen = 0
  /\ iWrite = 0
  /\ pending = 0
  /\ fetched = FALSE
  /\ vBp = <<>>
  /\ cursor = 0
  /\ rpc = "loop"
  /\ readGen = 0
  /\ nAdded = 0
  /\ wire = [g \in Generations |-> <<>>]
  /\ missed = {}
  /\ received = <<>>
  /\ nCloses = 0
  /\ nStops = 0

-----------------------------------------------------------------------------
(* Mutants: plausible mistakes in _TCPclient and _SerialPort *)

\* closeConnection does not compare generations.
CloseConnectionAny(g) ==
  /\ ioOpen' = FALSE
  /\ UNCHANGED <<generation, broken>>

\* A reconnection does not restart the pending packet.
WriterPacketsKeepsOffset ==
  /\ wpc = "packets"
  /\ writeGen' = generation
  /\ wpc' = "send"
  /\ UNCHANGED <<connVars, iWrite, pending, fetched, vBp, cursor, readerVars,
                 envVars, history>>

\* The cursor moves when a packet is taken up, not when it is complete.
WriterNextMovesCursor ==
  /\ wpc = "next"
  /\ fetched
  /\ IF vBp = <<>>
     THEN /\ wpc' = "loop"
          /\ fetched' = FALSE
          /\ UNCHANGED <<vBp, pending, cursor>>
     ELSE /\ pending' = Head(vBp)
          /\ cursor' = Head(vBp)
          /\ vBp' = Tail(vBp)
          /\ wpc' = "send"
          /\ UNCHANGED fetched
  /\ UNCHANGED <<connVars, writeGen, iWrite, readerVars, envVars, history>>

\* send() is told the length of the packet, not what is left of it.
WriterSendWholeLength ==
  /\ wpc = "send"
  /\ iWrite < Size(pending)
  /\ bRun
  /\ ioOpen
  /\ writeGen = generation
  /\ \E n \in 1 .. Size(pending) :
       /\ iWrite' = iWrite + n
       /\ wire' = [wire EXCEPT ![generation] =
                     @ \o [k \in 1 .. n |-> <<pending, iWrite + k>>]]
  /\ UNCHANGED <<connVars, wpc, writeGen, pending, fetched, vBp, cursor,
                 readerVars, envVars, missed>>

\* The writer looks at the status once and never reconnects a closed transport.
WriterLoopForgetsOpen ==
  /\ wpc = "loop"
  /\ bRun
  /\ wpc' = IF ioOpen \/ generation > 0 THEN "packets" ELSE "open"
  /\ UNCHANGED <<connVars, writeGen, iWrite, pending, fetched, vBp, cursor,
                 readerVars, envVars, history>>

-----------------------------------------------------------------------------
(* The connection *)

\* closeConnection(generation): an error of an older connection is ignored.
CloseConnection(g) ==
  /\ ioOpen' = (ioOpen /\ g # 0 /\ g # generation)
  /\ UNCHANGED <<generation, broken>>

\* The peer or the line fails (bound: the last connection does not).
Break ==
  /\ ioOpen
  /\ ~broken
  /\ generation < MaxGenerations
  /\ broken' = TRUE
  /\ UNCHANGED <<ioOpen, generation, writerVars, readerVars, envVars, history>>

-----------------------------------------------------------------------------
(* The writer: _IObase::updateW, writePackets, writePending *)

\* The head of updateW, with a look at the status outside the mutex.
WriterLoop ==
  /\ wpc = "loop"
  /\ bRun
  /\ wpc' = IF ioOpen THEN "packets" ELSE "open"
  /\ UNCHANGED <<connVars, writeGen, iWrite, pending, fetched, vBp, cursor,
                 readerVars, envVars, history>>

\* open() connects, or finds the connection open, or fails and is retried
\* after a sleep.
WriterOpen ==
  /\ wpc = "open"
  /\ \/ /\ ~ioOpen
        /\ generation < MaxGenerations
        /\ ioOpen' = TRUE
        /\ generation' = generation + 1
        /\ broken' = FALSE
        /\ wpc' = "packets"
     \/ /\ ioOpen
        /\ wpc' = "packets"
        /\ UNCHANGED connVars
  /\ UNCHANGED <<writeGen, iWrite, pending, fetched, vBp, cursor, readerVars,
                 envVars, history>>

WriterOpenFails ==
  /\ wpc = "open"
  /\ ~ioOpen
  /\ wpc' = "loop"
  /\ UNCHANGED <<connVars, writeGen, iWrite, pending, fetched, vBp, cursor,
                 readerVars, envVars, history>>

\* writePackets: a reconnection restarts the pending packet.
WriterPackets ==
  /\ wpc = "packets"
  /\ writeGen' = generation
  /\ iWrite' = IF writeGen # generation THEN 0 ELSE iWrite
  /\ wpc' = "send"
  /\ UNCHANGED <<connVars, pending, fetched, vBp, cursor, readerVars, envVars,
                 history>>

\* writePackets returns: what it had fetched and not taken up is forgotten.
LeaveWritePackets ==
  /\ wpc' = "loop"
  /\ fetched' = FALSE
  /\ vBp' = <<>>
  /\ UNCHANGED <<writeGen, iWrite, pending, cursor>>

Sending == wpc = "send" /\ iWrite < Size(pending)

\* writePending gives up for now: stopped, closed, reconnected or would block.
WriterYields ==
  /\ Sending
  /\ LeaveWritePackets
  /\ UNCHANGED <<connVars, readerVars, envVars, history>>

\* send() under the shared lock takes some of the remaining bytes.
WriterSend ==
  /\ Sending
  /\ bRun
  /\ ioOpen
  /\ writeGen = generation
  /\ \E n \in 1 .. Size(pending) - iWrite :
       /\ iWrite' = iWrite + n
       /\ wire' = [wire EXCEPT ![generation] =
                     @ \o [k \in 1 .. n |-> <<pending, iWrite + k>>]]
  /\ UNCHANGED <<connVars, wpc, writeGen, pending, fetched, vBp, cursor,
                 readerVars, envVars, missed>>

\* send() fails; the connection is closed in a later critical section.
WriterError ==
  /\ Sending
  /\ bRun
  /\ ioOpen
  /\ writeGen = generation
  /\ broken
  /\ wpc' = "close"
  /\ UNCHANGED <<connVars, writeGen, iWrite, pending, fetched, vBp, cursor,
                 readerVars, envVars, history>>

WriterClose ==
  /\ wpc = "close"
  /\ CloseConnection(writeGen)
  /\ LeaveWritePackets
  /\ UNCHANGED <<readerVars, envVars, history>>

\* The pending packet is complete: only now the cursor moves past it.
WriterComplete ==
  /\ wpc = "send"
  /\ iWrite >= Size(pending)
  /\ cursor' = IF pending > cursor THEN pending ELSE cursor
  /\ pending' = 0
  /\ iWrite' = 0
  /\ wpc' = "next"
  /\ UNCHANGED <<connVars, writeGen, fetched, vBp, readerVars, envVars, history>>

\* The last packet that get() does not return: the reader is past it, or it has
\* been overwritten.
Behind == IF nAdded > cursor + Capacity THEN nAdded - Capacity ELSE cursor

\* get() of what is newer than the cursor and still in the ring, once in a
\* writePackets.
WriterFetch ==
  /\ wpc = "next"
  /\ ~fetched
  /\ fetched' = TRUE
  /\ vBp' = [k \in 1 .. nAdded - Behind |-> Behind + k]
  /\ missed' = missed \cup (cursor + 1 .. Behind)
  /\ UNCHANGED <<connVars, wpc, writeGen, iWrite, pending, cursor, readerVars,
                 envVars, wire>>

WriterNext ==
  /\ wpc = "next"
  /\ fetched
  /\ IF vBp = <<>>
     THEN LeaveWritePackets
     ELSE /\ pending' = Head(vBp)
          /\ vBp' = Tail(vBp)
          /\ wpc' = "send"
          /\ UNCHANGED <<writeGen, iWrite, fetched, cursor>>
  /\ UNCHANGED <<connVars, readerVars, envVars, history>>

WriterStep ==
  \/ WriterLoop \/ WriterOpen \/ WriterPackets \/ WriterSend \/ WriterError
  \/ WriterClose \/ WriterComplete \/ WriterFetch \/ WriterNext

-----------------------------------------------------------------------------
(* The reader: _IObase::updateR, readPackets *)

\* recv() under the shared lock: data, nothing yet, or a failure.
ReaderRecv ==
  /\ rpc = "loop"
  /\ bRun
  /\ ioOpen
  /\ readGen' = generation
  /\ \/ ~broken /\ Len(received) < MaxReads /\ rpc' = "data"
     \/ broken /\ rpc' = "close"
  /\ UNCHANGED <<connVars, writerVars, envVars, history, received>>

ReaderData ==
  /\ rpc = "data"
  /\ received' = Append(received, readGen)
  /\ rpc' = "loop"
  /\ UNCHANGED <<connVars, writerVars, envVars, history, readGen>>

ReaderClose ==
  /\ rpc = "close"
  /\ CloseConnection(readGen)
  /\ rpc' = "loop"
  /\ UNCHANGED <<writerVars, envVars, history, readGen, received>>

ReaderStep == ReaderRecv \/ ReaderData \/ ReaderClose

-----------------------------------------------------------------------------
(* The others *)

\* A producer adds a packet to BytePacketStreamIn.
AddPacket ==
  /\ nAdded < MaxPackets
  /\ nAdded' = nAdded + 1
  /\ UNCHANGED <<connVars, writerVars, readerVars, bRun, nCloses, nStops, history>>

\* close() by another thread: generation 0 closes whatever is open.
Close ==
  /\ generation < MaxGenerations
  /\ nCloses < MaxCloses
  /\ nCloses' = nCloses + 1
  /\ CloseConnection(0)
  /\ UNCHANGED <<writerVars, readerVars, bRun, nAdded, nStops, history>>

\* stop(), and start() once both workers have returned.
Stop ==
  /\ bRun
  /\ nStops < MaxStops
  /\ nStops' = nStops + 1
  /\ bRun' = FALSE
  /\ UNCHANGED <<connVars, writerVars, readerVars, nAdded, nCloses, history>>

Start ==
  /\ ~bRun
  /\ wpc = "loop"
  /\ rpc = "loop"
  /\ bRun' = TRUE
  /\ UNCHANGED <<connVars, writerVars, readerVars, nAdded, nCloses, nStops, history>>

Next ==
  \/ WriterStep \/ WriterOpenFails \/ WriterYields
  \/ ReaderStep
  \/ Break \/ AddPacket \/ Close \/ Stop \/ Start

\* The workers are scheduled; a stopped worker returns; a peer that can be
\* reached is reached in the end, and a send that may be retried for ever
\* without blocking takes a byte in the end.
Fairness ==
  /\ WF_vars(WriterStep)
  /\ SF_vars(WriterOpen)
  /\ SF_vars(WriterSend)
  /\ WF_vars(~bRun /\ WriterYields)
  /\ WF_vars(~ioOpen /\ WriterYields)
  /\ WF_vars(writeGen # generation /\ WriterYields)
  /\ WF_vars(~ioOpen /\ WriterOpenFails)
  /\ WF_vars(ReaderStep)

Spec == Init /\ [][Next]_vars
FairSpec == Spec /\ Fairness

-----------------------------------------------------------------------------
(* Properties *)

WriterPCs == {"loop", "open", "packets", "send", "close", "next"}
ReaderPCs == {"loop", "data", "close"}
Bytes == Packets \X (1 .. PacketLen)

\* Descriptors, offsets and cursors hold values of their types.
TypeOK ==
  /\ ioOpen \in BOOLEAN
  /\ generation \in 0 .. MaxGenerations
  /\ broken \in BOOLEAN
  /\ bRun \in BOOLEAN
  /\ wpc \in WriterPCs
  /\ writeGen \in 0 .. MaxGenerations
  /\ iWrite \in 0 .. PacketLen
  /\ pending \in 0 .. MaxPackets
  /\ fetched \in BOOLEAN
  /\ vBp \in Seq(Packets)
  /\ cursor \in 0 .. MaxPackets
  /\ rpc \in ReaderPCs
  /\ readGen \in 0 .. MaxGenerations
  /\ nAdded \in 0 .. MaxPackets
  /\ wire \in [Generations -> Seq(Bytes)]
  /\ missed \subseteq Packets
  /\ received \in Seq(Generations)
  /\ nCloses \in 0 .. MaxCloses
  /\ nStops \in 0 .. MaxStops

\* An error of an old connection never closes a new one: whichever worker
\* closes, the connection it closes has failed; only close() closes a good one.
OnlyBrokenIsClosed ==
  [][ioOpen /\ ~ioOpen' => broken \/ nCloses' > nCloses]_vars

\* On each connection the peer sees whole packets from their first byte, one
\* after the other in increasing order; only the last one may be cut off.  A
\* packet interrupted by a reconnection starts over on the new connection.
WholePackets ==
  \A g \in Generations : \A i \in 1 .. Len(wire[g]) :
    LET b == wire[g][i] IN
      IF b[2] > 1 THEN i > 1 /\ wire[g][i - 1] = <<b[1], b[2] - 1>>
      ELSE i = 1 \/ /\ wire[g][i - 1][2] = PacketLen
                    /\ wire[g][i - 1][1] < b[1]

\* Where the last byte of p was written: a connection and a place on it.
Completions(p) ==
  UNION {{<<g, i>> : i \in {j \in 1 .. Len(wire[g]) : wire[g][j] = <<p, PacketLen>>}}
           : g \in Generations}

\* The cursor tells what was sent: a packet behind it was written completely,
\* unless it had been overwritten in the ring when the writer asked for it, and
\* one ahead of it not yet, unless it is the pending one; and no packet is
\* written completely twice, over all connections.
CursorIsTruthful ==
  /\ \A p \in Packets :
       /\ Cardinality(Completions(p)) <= 1
       /\ p <= cursor => (Completions(p) # {} <=> p \notin missed)
       /\ p > cursor /\ Completions(p) # {} => p = pending /\ iWrite = PacketLen
  /\ \A p \in missed : p + Capacity <= nAdded

\* Every packet that the ring keeps long enough is written in the end, whatever
\* fails on the way, unless the workers are stopped for good: the writer finds
\* out about a connection that either worker has closed, opens another and
\* starts the pending packet over; and it comes to know what it has missed.
RetainedPacketsAreSent ==
  <>[]bRun =>
    \A p \in Packets : (p <= nAdded) ~> (Completions(p) # {} \/ p \in missed)
=============================================================================
