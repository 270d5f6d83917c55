------------------------ MODULE WebSocketServerProofs ------------------------
(***************************************************************************)
(* What WebSocketServer guarantees for any number of servers, connections, *)
(* messages and packets, and any length of the ring the packets are kept   *)
(* in: nothing outlives stop(), a pause lets no message in, stamps never   *)
(* decrease (invariant IInv); packets are sent once and in order, and none *)
(* is passed over but those overwritten (SInv, which rests on IInv).       *)
(***************************************************************************)
EXTENDS WebSocketServer, TLAPS, SequenceTheorems

ClientPCs == {"none", "opening", "cbOpen", "idle", "lock", "waiting", "time",
              "add", "cbClose", "ended"}

OwnerPCs == {"new", "starting", "run", "pausing", "paused", "resumed",
             "resuming", "stop", "stopFlag", "stopWriter", "drain", "join",
             "stopped"}
WriterPCs == {"none", "pass", "packet", "send", "ended"}

\* The types the proofs need.
ServerType ==
  /\ pServer \in Servers \cup {NoOne}
  /\ ctl \in [Servers -> OwnerPCs]
  /\ token \in [Servers -> Nat]
  /\ lastToken \in Nat
  /\ stopping \in [Servers -> BOOLEAN]
  /\ readPaused \in [Servers -> BOOLEAN]
  /\ readMutex \in [Servers -> Clients \cup {NoOne}]
  /\ vClient = [s \in Servers |-> vClient[s]]
  /\ output \in [Servers -> Seq(Nat)]
  /\ wpc \in [Servers -> WriterPCs]
  /\ conn \in [Clients -> {"none", "open", "gone"}]
  /\ context \in [Clients -> Nat]
  /\ cpc \in [Clients -> ClientPCs]
  /\ inside \in [Clients -> Servers \cup {NoOne}]
  /\ stamp \in [Clients -> Nat]
  /\ clock \in Nat

\* A thread is in a callback of some server exactly where its program counter
\* says so, and never before its connection exists.
InsideInv ==
  \A c \in Clients :
    /\ (inside[c] = NoOne) <=> cpc[c] \in {"none", "opening", "idle", "ended"}
    /\ conn[c] = "none" => cpc[c] = "none"

\* Who adds a message holds the read mutex, of a server that is not paused.
HoldInv ==
  \A c \in Clients : cpc[c] \in {"time", "add"} =>
    readMutex[inside[c]] = c /\ ~readPaused[inside[c]]

\* Only a server between its start and its drain can be called back.
TargetInv ==
  pServer # NoOne => ctl[pServer] \notin {"new", "join", "stopped"}

\* No stamp of the stream is newer than the one in hand that goes to it.
StampInv ==
  /\ \A s \in Servers : \A i \in 1 .. Len(output[s]) : output[s][i] <= clock
  /\ \A c \in Clients : cpc[c] = "add" =>
       /\ stamp[c] <= clock
       /\ \A i \in 1 .. Len(output[inside[c]]) : output[inside[c]][i] <= stamp[c]

IInv ==
  /\ ServerType
  /\ InsideInv
  /\ HoldInv
  /\ TargetInv
  /\ StampInv
  /\ NothingOutlivesStop
  /\ StampsNeverDecrease
-----------------------------------------------------------------------------
LEMMA InitIInv == Init => IInv
<1> SUFFICES ASSUME Init PROVE IInv
  OBVIOUS
<1> USE ServerAssumption DEF Init
<1>1. ServerType
  BY DEF ServerType, ClientPCs, OwnerPCs, WriterPCs
<1>2. InsideInv /\ HoldInv /\ TargetInv
  BY DEF InsideInv, HoldInv, TargetInv
<1>3. \A s \in Servers : Len(output[s]) = 0
  OBVIOUS
<1>4. StampInv /\ StampsNeverDecrease
  BY <1>3 DEF StampInv, StampsNeverDecrease
<1>5. NothingOutlivesStop
  BY DEF NothingOutlivesStop
<1> QED BY <1>1, <1>2, <1>4, <1>5 DEF IInv

\* The writer changes only its own variables.
LEMMA WriterFrame ==
  ASSUME ServerType, NEW s \in Servers, Writer(s)
  PROVE  /\ UNCHANGED <<globalVars, ownerVars, clientVars, sharedVars>>
         /\ wpc' \in [Servers -> WriterPCs]
         /\ wpc[s] \notin {"none", "ended"}
         /\ \A q \in Servers : q # s => wpc'[q] = wpc[q]
<1> USE DEF ServerType, WriterPCs, globalVars, ownerVars, clientVars, sharedVars
<1>1. CASE Pass(s)
  BY <1>1 DEF Pass
<1>2. CASE End(s)
  BY <1>2 DEF End
<1>3. CASE PassEnds(s)
  BY <1>3 DEF PassEnds
<1>4. CASE SendFront(s)
  BY <1>4 DEF SendFront
<1>5. CASE Broadcast(s)
  BY <1>5 DEF Broadcast
<1>6. CASE \E c \in Clients : SendTo(s, c)
  BY <1>6 DEF SendTo
<1>7. CASE SendNext(s)
  BY <1>7 DEF SendNext
<1> QED BY <1>1, <1>2, <1>3, <1>4, <1>5, <1>6, <1>7 DEF Writer

\* What cbMessage does when it looks at the flags: it waits, or takes the mutex
\* of a server that is not paused, or leaves.
LockEffect(c) ==
  /\ inside[c] \in Servers
  /\ cpc[c] = "lock"
  /\ readMutex[inside[c]] = NoOne
  /\ UNCHANGED <<globalVars, ownerVars, writerVars, conn, context, stamp,
                 nMessages, vClient, ioOpen, output, clock>>
  /\ \/ /\ cpc' = [cpc EXCEPT ![c] = "waiting"]
        /\ UNCHANGED <<readMutex, inside>>
     \/ /\ ~readPaused[inside[c]]
        /\ readMutex' = [readMutex EXCEPT ![inside[c]] = c]
        /\ cpc' = [cpc EXCEPT ![c] = "time"]
        /\ UNCHANGED inside
     \/ /\ inside' = [inside EXCEPT ![c] = NoOne]
        /\ cpc' = [cpc EXCEPT ![c] = "idle"]
        /\ UNCHANGED readMutex

LEMMA LockFrame ==
  ASSUME ServerType, InsideInv, NEW c \in Clients, Lock(c)
  PROVE  LockEffect(c)
<1>1. cpc[c] = "lock" /\ readMutex[inside[c]] = NoOne
  BY DEF Lock
<1>2. inside[c] \in Servers
  BY <1>1 DEF InsideInv, ServerType
<1>3. UNCHANGED <<globalVars, ownerVars, writerVars, conn, context, stamp,
                  nMessages, vClient, ioOpen, output, clock>>
  BY DEF Lock
<1>4. CASE readPaused[inside[c]] /\ ~stopping[inside[c]]
  BY <1>1, <1>2, <1>3, <1>4 DEF Lock, LockEffect
<1>5. CASE stopping[inside[c]]
  BY <1>1, <1>2, <1>3, <1>5 DEF Lock, Leave, LockEffect
<1>6. CASE ~readPaused[inside[c]]
  BY <1>1, <1>2, <1>3, <1>6 DEF Lock, Leave, LockEffect
<1> QED BY <1>4, <1>5, <1>6

LEMMA TypeStep == IInv /\ [Next]_vars => ServerType'
<1> SUFFICES ASSUME IInv, [Next]_vars PROVE ServerType'
  OBVIOUS
<1> USE ServerAssumption
    DEF IInv, ServerType, ClientPCs, OwnerPCs, WriterPCs,
        globalVars, ownerVars, writerVars, clientVars, sharedVars
<1>1. CASE UNCHANGED vars
  BY <1>1 DEF vars
<1>2. ASSUME NEW s \in Servers, Owner(s) PROVE ServerType'
  <2>1. CASE Start(s)
    BY <2>1 DEF Start, NoCallbackRuns
  <2>2. CASE StartWorkers(s)
    BY <2>2 DEF StartWorkers
  <2>3. CASE StartFails(s)
    BY <2>3 DEF StartFails
  <2>4. CASE Pause(s)
    BY <2>4 DEF Pause
  <2>5. CASE PauseWorkers(s)
    BY <2>5 DEF PauseWorkers
  <2>6. CASE Resume(s)
    BY <2>6 DEF Resume
  <2>7. CASE ResumeWorkers(s)
    BY <2>7 DEF ResumeWorkers
  <2>8. CASE Stop(s)
    BY <2>8 DEF Stop
  <2>9. CASE StopWriter(s)
    BY <2>9 DEF StopWriter
  <2>10. CASE Drain(s)
    BY <2>10 DEF Drain, NoCallbackRuns
  <2>11. CASE StopEnds(s)
    BY <2>11 DEF StopEnds
  <2>12. CASE LoadConfig(s)
    BY <2>12 DEF LoadConfig
  <2>13. CASE ResumeNotify(s)
    BY <2>13 DEF ResumeNotify, NotifyAll
  <2>14. CASE StopNotify(s)
    BY <2>14 DEF StopNotify, NotifyAll
  <2> QED BY <1>2, <2>1, <2>2, <2>3, <2>4, <2>5, <2>6, <2>7, <2>8, <2>9, <2>10,
             <2>11, <2>12, <2>13, <2>14 DEF Owner
<1>3. ASSUME NEW s \in Servers, Writer(s) PROVE ServerType'
  <2>1. /\ UNCHANGED <<globalVars, ownerVars, clientVars, sharedVars>>
        /\ wpc' \in [Servers -> WriterPCs]
    BY <1>3, WriterFrame
  <2> QED BY <2>1
<1>4. ASSUME NEW c \in Clients, NEW s \in Servers, Connect(c, s) PROVE ServerType'
  BY <1>4 DEF Connect
<1>5. ASSUME NEW c \in Clients, Disconnect(c) PROVE ServerType'
  BY <1>5 DEF Disconnect
<1>6. ASSUME NEW c \in Clients, EnterMessage(c) PROVE ServerType'
  BY <1>6 DEF EnterMessage, Enter, Target
<1>7. ASSUME NEW c \in Clients, Callback(c) PROVE ServerType'
  <2>1. CASE EnterOpen(c)
    BY <2>1 DEF EnterOpen, Enter, Target
  <2>2. CASE EnterClose(c)
    BY <2>2 DEF EnterClose, Enter, Target
  <2>3. CASE CbOpen(c)
    <3>1. inside[c] \in Servers
      BY <2>3 DEF CbOpen, InsideInv
    <3> QED BY <2>3, <3>1 DEF CbOpen, Leave
  <2>4. CASE CbClose(c)
    <3>1. inside[c] \in Servers
      BY <2>4 DEF CbClose, InsideInv
    <3> QED BY <2>4, <3>1 DEF CbClose, Leave
  <2>5. CASE Lock(c)
    <3>1. LockEffect(c)
      BY <2>5, LockFrame
    <3>2. /\ cpc' \in [Clients -> ClientPCs]
          /\ inside' \in [Clients -> Servers \cup {NoOne}]
          /\ readMutex' \in [Servers -> Clients \cup {NoOne}]
      <4>1. CASE /\ cpc' = [cpc EXCEPT ![c] = "waiting"]
                 /\ UNCHANGED <<readMutex, inside>>
        BY <4>1
      <4>2. CASE /\ readMutex' = [readMutex EXCEPT ![inside[c]] = c]
                 /\ cpc' = [cpc EXCEPT ![c] = "time"]
                 /\ UNCHANGED inside
        BY <4>2
      <4>3. CASE /\ inside' = [inside EXCEPT ![c] = NoOne]
                 /\ cpc' = [cpc EXCEPT ![c] = "idle"]
                 /\ UNCHANGED readMutex
        BY <4>3
      <4> QED BY <3>1, <4>1, <4>2, <4>3 DEF LockEffect
    <3>3. UNCHANGED <<pServer, ctl, token, lastToken, stopping, readPaused,
                      vClient, output, wpc, conn, context, stamp, clock>>
      BY <3>1 DEF LockEffect
    <3> QED BY <3>2, <3>3
  <2>6. CASE Time(c)
    BY <2>6 DEF Time
  <2>7. CASE Add(c)
    <3>1. inside[c] \in Servers
      BY <2>7 DEF Add, InsideInv
    <3>2. output' \in [Servers -> Seq(Nat)]
      <4>1. Append(output[inside[c]], stamp[c]) \in Seq(Nat)
        BY <3>1
      <4> QED BY <2>7, <3>1, <4>1 DEF Add
    <3> QED BY <2>7, <3>1, <3>2 DEF Add, Leave
  <2> QED BY <1>7, <2>1, <2>2, <2>3, <2>4, <2>5, <2>6, <2>7 DEF Callback
<1> QED BY <1>1, <1>2, <1>3, <1>4, <1>5, <1>6, <1>7 DEF Next

LEMMA InsideStep == IInv /\ [Next]_vars => InsideInv'
<1> SUFFICES ASSUME IInv, [Next]_vars PROVE InsideInv'
  OBVIOUS
<1> USE ServerAssumption
    DEF IInv, ServerType, ClientPCs, InsideInv,
        globalVars, ownerVars, writerVars, clientVars, sharedVars
<1>1. CASE UNCHANGED vars
  BY <1>1 DEF vars
<1>2. ASSUME NEW s \in Servers, Owner(s) PROVE InsideInv'
  <2>1. CASE Start(s)
    BY <2>1 DEF Start, NoCallbackRuns
  <2>2. CASE StartWorkers(s)
    BY <2>2 DEF StartWorkers
  <2>3. CASE StartFails(s)
    BY <2>3 DEF StartFails
  <2>4. CASE Pause(s)
    BY <2>4 DEF Pause
  <2>5. CASE PauseWorkers(s)
    BY <2>5 DEF PauseWorkers
  <2>6. CASE Resume(s)
    BY <2>6 DEF Resume
  <2>7. CASE ResumeWorkers(s)
    BY <2>7 DEF ResumeWorkers
  <2>8. CASE Stop(s)
    BY <2>8 DEF Stop
  <2>9. CASE StopWriter(s)
    BY <2>9 DEF StopWriter
  <2>10. CASE Drain(s)
    BY <2>10 DEF Drain, NoCallbackRuns
  <2>11. CASE StopEnds(s)
    BY <2>11 DEF StopEnds
  <2>12. CASE LoadConfig(s)
    BY <2>12 DEF LoadConfig
  <2>13. CASE ResumeNotify(s)
    BY <2>13 DEF ResumeNotify, NotifyAll
  <2>14. CASE StopNotify(s)
    BY <2>14 DEF StopNotify, NotifyAll
  <2> QED BY <1>2, <2>1, <2>2, <2>3, <2>4, <2>5, <2>6, <2>7, <2>8, <2>9, <2>10,
             <2>11, <2>12, <2>13, <2>14 DEF Owner
<1>3. ASSUME NEW s \in Servers, Writer(s) PROVE InsideInv'
  <2>1. UNCHANGED <<globalVars, ownerVars, clientVars, sharedVars>>
    BY <1>3, WriterFrame
  <2> QED BY <2>1
<1>4. ASSUME NEW c \in Clients, NEW s \in Servers, Connect(c, s) PROVE InsideInv'
  BY <1>4 DEF Connect
<1>5. ASSUME NEW c \in Clients, Disconnect(c) PROVE InsideInv'
  BY <1>5 DEF Disconnect
<1>6. ASSUME NEW c \in Clients, EnterMessage(c) PROVE InsideInv'
  BY <1>6 DEF EnterMessage, Enter, Target
<1>7. ASSUME NEW c \in Clients, Callback(c) PROVE InsideInv'
  <2>1. CASE EnterOpen(c)
    BY <2>1 DEF EnterOpen, Enter, Target
  <2>2. CASE EnterClose(c)
    BY <2>2 DEF EnterClose, Enter, Target
  <2>3. CASE CbOpen(c)
    BY <2>3 DEF CbOpen, Leave
  <2>4. CASE CbClose(c)
    BY <2>4 DEF CbClose, Leave
  <2>5. CASE Lock(c)
    <3>1. LockEffect(c)
      BY <2>5, LockFrame
    <3> QED BY <3>1 DEF LockEffect
  <2>6. CASE Time(c)
    BY <2>6 DEF Time
  <2>7. CASE Add(c)
    BY <2>7 DEF Add, Leave
  <2> QED BY <1>7, <2>1, <2>2, <2>3, <2>4, <2>5, <2>6, <2>7 DEF Callback
<1> QED BY <1>1, <1>2, <1>3, <1>4, <1>5, <1>6, <1>7 DEF Next

LEMMA HoldStep == IInv /\ [Next]_vars => HoldInv'
<1> SUFFICES ASSUME IInv, [Next]_vars PROVE HoldInv'
  OBVIOUS
<1> USE ServerAssumption
    DEF IInv, ServerType, InsideInv, HoldInv,
        globalVars, ownerVars, writerVars, clientVars, sharedVars
<1>1. CASE UNCHANGED vars
  BY <1>1 DEF vars
<1>2. ASSUME NEW s \in Servers, Owner(s) PROVE HoldInv'
  <2>1. CASE Start(s)
    BY <2>1 DEF Start, NoCallbackRuns
  <2>2. CASE StartWorkers(s)
    BY <2>2 DEF StartWorkers
  <2>3. CASE StartFails(s)
    BY <2>3 DEF StartFails
  <2>4. CASE Pause(s)
    BY <2>4 DEF Pause
  <2>5. CASE PauseWorkers(s)
    BY <2>5 DEF PauseWorkers
  <2>6. CASE Resume(s)
    BY <2>6 DEF Resume
  <2>7. CASE ResumeWorkers(s)
    BY <2>7 DEF ResumeWorkers
  <2>8. CASE Stop(s)
    BY <2>8 DEF Stop
  <2>9. CASE StopWriter(s)
    BY <2>9 DEF StopWriter
  <2>10. CASE Drain(s)
    BY <2>10 DEF Drain, NoCallbackRuns
  <2>11. CASE StopEnds(s)
    BY <2>11 DEF StopEnds
  <2>12. CASE LoadConfig(s)
    BY <2>12 DEF LoadConfig
  <2>13. CASE ResumeNotify(s)
    BY <2>13 DEF ResumeNotify, NotifyAll
  <2>14. CASE StopNotify(s)
    BY <2>14 DEF StopNotify, NotifyAll
  <2> QED BY <1>2, <2>1, <2>2, <2>3, <2>4, <2>5, <2>6, <2>7, <2>8, <2>9, <2>10,
             <2>11, <2>12, <2>13, <2>14 DEF Owner
<1>3. ASSUME NEW s \in Servers, Writer(s) PROVE HoldInv'
  <2>1. UNCHANGED <<globalVars, ownerVars, clientVars, sharedVars>>
    BY <1>3, WriterFrame
  <2> QED BY <2>1
<1>4. ASSUME NEW c \in Clients, NEW s \in Servers, Connect(c, s) PROVE HoldInv'
  BY <1>4 DEF Connect
<1>5. ASSUME NEW c \in Clients, Disconnect(c) PROVE HoldInv'
  BY <1>5 DEF Disconnect
<1>6. ASSUME NEW c \in Clients, EnterMessage(c) PROVE HoldInv'
  BY <1>6 DEF EnterMessage, Enter, Target
<1>7. ASSUME NEW c \in Clients, Callback(c) PROVE HoldInv'
  <2>1. CASE EnterOpen(c)
    BY <2>1 DEF EnterOpen, Enter, Target
  <2>2. CASE EnterClose(c)
    BY <2>2 DEF EnterClose, Enter, Target
  <2>3. CASE CbOpen(c)
    BY <2>3 DEF CbOpen, Leave
  <2>4. CASE CbClose(c)
    BY <2>4 DEF CbClose, Leave
  <2>5. CASE Lock(c)
    <3>1. LockEffect(c)
      BY <2>5, LockFrame
    <3>2. ASSUME NEW d \in Clients, cpc'[d] \in {"time", "add"}
          PROVE  readMutex'[inside'[d]] = d /\ ~readPaused'[inside'[d]]
      <4>1. CASE d = c
        BY <3>1, <3>2, <4>1 DEF LockEffect
      <4>2. CASE d # c
        <5>1. cpc[d] \in {"time", "add"} /\ inside'[d] = inside[d]
          BY <3>1, <3>2, <4>2 DEF LockEffect
        <5>2. readMutex[inside[d]] = d /\ d # NoOne /\ inside[d] # inside[c]
          BY <3>1, <5>1 DEF LockEffect
        <5>3. readMutex'[inside[d]] = readMutex[inside[d]]
          <6>1. inside[d] \in Servers
            BY <5>1
          <6>2. readMutex' \in {readMutex, [readMutex EXCEPT ![inside[c]] = c]}
            BY <3>1 DEF LockEffect
          <6> QED BY <5>2, <6>1, <6>2
        <5>4. readPaused' = readPaused
          BY <3>1 DEF LockEffect
        <5>5. ~readPaused[inside[d]]
          BY <5>1
        <5> QED BY <5>1, <5>2, <5>3, <5>4, <5>5
      <4> QED BY <4>1, <4>2
    <3> QED BY <3>2
  <2>6. CASE Time(c)
    BY <2>6 DEF Time
  <2>7. CASE Add(c)
    BY <2>7 DEF Add, Leave
  <2> QED BY <1>7, <2>1, <2>2, <2>3, <2>4, <2>5, <2>6, <2>7 DEF Callback
<1> QED BY <1>1, <1>2, <1>3, <1>4, <1>5, <1>6, <1>7 DEF Next

LEMMA TargetStep == IInv /\ [Next]_vars => TargetInv'
<1> SUFFICES ASSUME IInv, [Next]_vars PROVE TargetInv'
  OBVIOUS
<1> USE ServerAssumption
    DEF IInv, ServerType, TargetInv,
        globalVars, ownerVars, writerVars, clientVars, sharedVars
<1>1. CASE UNCHANGED vars
  BY <1>1 DEF vars
<1>2. ASSUME NEW s \in Servers, Owner(s) PROVE TargetInv'
  <2>1. CASE Start(s)
    BY <2>1 DEF Start, NoCallbackRuns
  <2>2. CASE StartWorkers(s)
    BY <2>2 DEF StartWorkers
  <2>3. CASE StartFails(s)
    BY <2>3 DEF StartFails
  <2>4. CASE Pause(s)
    BY <2>4 DEF Pause
  <2>5. CASE PauseWorkers(s)
    BY <2>5 DEF PauseWorkers
  <2>6. CASE Resume(s)
    BY <2>6 DEF Resume
  <2>7. CASE ResumeWorkers(s)
    BY <2>7 DEF ResumeWorkers
  <2>8. CASE Stop(s)
    BY <2>8 DEF Stop
  <2>9. CASE StopWriter(s)
    BY <2>9 DEF StopWriter
  <2>10. CASE Drain(s)
    BY <2>10 DEF Drain, NoCallbackRuns
  <2>11. CASE StopEnds(s)
    BY <2>11 DEF StopEnds
  <2>12. CASE LoadConfig(s)
    BY <2>12 DEF LoadConfig
  <2>13. CASE ResumeNotify(s)
    BY <2>13 DEF ResumeNotify, NotifyAll
  <2>14. CASE StopNotify(s)
    BY <2>14 DEF StopNotify, NotifyAll
  <2> QED BY <1>2, <2>1, <2>2, <2>3, <2>4, <2>5, <2>6, <2>7, <2>8, <2>9, <2>10,
             <2>11, <2>12, <2>13, <2>14 DEF Owner
<1>3. ASSUME NEW s \in Servers, Writer(s) PROVE TargetInv'
  <2>1. UNCHANGED <<globalVars, ownerVars, clientVars, sharedVars>>
    BY <1>3, WriterFrame
  <2> QED BY <2>1
<1>4. ASSUME NEW c \in Clients, NEW s \in Servers, Connect(c, s) PROVE TargetInv'
  BY <1>4 DEF Connect
<1>5. ASSUME NEW c \in Clients, Disconnect(c) PROVE TargetInv'
  BY <1>5 DEF Disconnect
<1>6. ASSUME NEW c \in Clients, EnterMessage(c) PROVE TargetInv'
  BY <1>6 DEF EnterMessage, Enter, Target
<1>7. ASSUME NEW c \in Clients, Callback(c) PROVE TargetInv'
  <2>1. CASE EnterOpen(c)
    BY <2>1 DEF EnterOpen, Enter, Target
  <2>2. CASE EnterClose(c)
    BY <2>2 DEF EnterClose, Enter, Target
  <2>3. CASE CbOpen(c)
    BY <2>3 DEF CbOpen, Leave
  <2>4. CASE CbClose(c)
    BY <2>4 DEF CbClose, Leave
  <2>5. CASE Lock(c)
    <3>1. LockEffect(c)
      BY <2>5, LockFrame
    <3> QED BY <3>1 DEF LockEffect
  <2>6. CASE Time(c)
    BY <2>6 DEF Time
  <2>7. CASE Add(c)
    BY <2>7 DEF Add, Leave
  <2> QED BY <1>7, <2>1, <2>2, <2>3, <2>4, <2>5, <2>6, <2>7 DEF Callback
<1> QED BY <1>1, <1>2, <1>3, <1>4, <1>5, <1>6, <1>7 DEF Next

\* A stamp is no older than all that was stamped before it.
LEMMA TimeStampStep ==
  ASSUME ServerType, InsideInv, StampInv, StampsNeverDecrease,
         NEW c \in Clients, Time(c)
  PROVE  (StampInv /\ StampsNeverDecrease)'
<1>1. /\ clock' \in {clock, clock + 1}
      /\ stamp' = [stamp EXCEPT ![c] = clock']
      /\ cpc' = [cpc EXCEPT ![c] = "add"]
      /\ inside' = inside /\ output' = output
      /\ cpc[c] = "time"
  BY DEF Time
<1>2. /\ clock \in Nat
      /\ stamp \in [Clients -> Nat]
      /\ cpc \in [Clients -> ClientPCs]
      /\ output \in [Servers -> Seq(Nat)]
      /\ inside \in [Clients -> Servers \cup {NoOne}]
  BY DEF ServerType
<1>3. ASSUME NEW d \in Servers, NEW i \in 1 .. Len(output[d])
      PROVE  output[d][i] \in Nat /\ output[d][i] <= clock
  BY <1>2 DEF StampInv
<1>4. ASSUME NEW d \in Clients, cpc'[d] = "add"
      PROVE  /\ stamp'[d] <= clock'
             /\ \A i \in 1 .. Len(output[inside[d]]) :
                  output[inside[d]][i] <= stamp'[d]
  <2>1. CASE d = c
    <3>1. inside[c] \in Servers
      BY <1>1, <1>2 DEF InsideInv
    <3>2. stamp'[c] = clock' /\ clock <= clock'
      BY <1>1, <1>2
    <3> QED BY <1>1, <1>2, <1>3, <2>1, <3>1, <3>2
  <2>2. CASE d # c
    <3>1. cpc[d] = "add" /\ stamp'[d] = stamp[d]
      BY <1>1, <1>2, <1>4, <2>2
    <3>2. /\ stamp[d] \in Nat /\ stamp[d] <= clock
          /\ \A i \in 1 .. Len(output[inside[d]]) :
               output[inside[d]][i] <= stamp[d]
      BY <1>2, <3>1 DEF StampInv
    <3> QED BY <1>1, <1>2, <3>1, <3>2
  <2> QED BY <2>1, <2>2
<1>5. \A d \in Servers : \A i \in 1 .. Len(output[d]) : output[d][i] <= clock'
  BY <1>1, <1>2, <1>3
<1>6. StampInv'
  BY <1>1, <1>4, <1>5 DEF StampInv
<1> QED BY <1>1, <1>6 DEF StampsNeverDecrease

\* What is added is no older than what the stream holds; nobody else is about to
\* add to the stream, for the read mutex is held.
LEMMA AddStampStep ==
  ASSUME ServerType, InsideInv, HoldInv, StampInv, StampsNeverDecrease,
         NEW c \in Clients, Add(c)
  PROVE  (StampInv /\ StampsNeverDecrease)'
<1> DEFINE s == inside[c]
           n == Len(output[s])
<1>1. /\ output' = [output EXCEPT ![s] = Append(@, stamp[c])]
      /\ stamp' = [stamp EXCEPT ![c] = 0]
      /\ cpc' = [cpc EXCEPT ![c] = "idle"]
      /\ inside' = [inside EXCEPT ![c] = NoOne]
      /\ clock' = clock
      /\ cpc[c] = "add"
  BY DEF Add, Leave
<1>2. /\ clock \in Nat
      /\ stamp \in [Clients -> Nat]
      /\ cpc \in [Clients -> ClientPCs]
      /\ output \in [Servers -> Seq(Nat)]
      /\ inside \in [Clients -> Servers \cup {NoOne}]
  BY DEF ServerType
<1>3. s \in Servers
  BY <1>1, <1>2 DEF InsideInv
<1>4. /\ stamp[c] \in Nat /\ stamp[c] <= clock
      /\ \A i \in 1 .. n : output[s][i] <= stamp[c]
  BY <1>1, <1>2 DEF StampInv
<1> HIDE DEF s
<1>5. output[s] \in Seq(Nat) /\ n \in Nat
  BY <1>2, <1>3
<1>6. /\ output'[s] = Append(output[s], stamp[c])
      /\ \A d \in Servers : d # s => output'[d] = output[d]
  BY <1>1, <1>2, <1>3
<1>7. /\ Len(output'[s]) = n + 1
      /\ \A i \in 1 .. n : output'[s][i] = output[s][i]
      /\ output'[s][n + 1] = stamp[c]
  BY <1>4, <1>5, <1>6
<1> HIDE DEF n
<1>8. ASSUME NEW d \in Servers, NEW i \in 1 .. Len(output'[d])
      PROVE  output'[d][i] <= clock'
  <2>1. CASE d = s /\ i = n + 1
    BY <1>1, <1>4, <1>7, <2>1
  <2>2. CASE d = s /\ i # n + 1
    <3>1. i \in 1 .. n
      BY <1>5, <1>7, <1>8, <2>2
    <3>2. output[s][i] <= clock
      BY <1>3, <3>1 DEF StampInv, n
    <3> QED BY <1>1, <1>7, <2>2, <3>1, <3>2
  <2>3. CASE d # s
    BY <1>1, <1>6, <1>8, <2>3 DEF StampInv
  <2> QED BY <2>1, <2>2, <2>3
<1>9. ASSUME NEW d \in Clients, cpc'[d] = "add"
      PROVE  /\ stamp'[d] <= clock'
             /\ \A i \in 1 .. Len(output'[inside'[d]]) :
                  output'[inside'[d]][i] <= stamp'[d]
  <2>1. d # c
    BY <1>1, <1>2, <1>9
  <2>2. /\ cpc[d] = "add" /\ stamp'[d] = stamp[d] /\ inside'[d] = inside[d]
    BY <1>1, <1>2, <1>9, <2>1
  <2>3. inside[d] \in Servers
    BY <1>2, <2>2 DEF InsideInv
  <2>4. inside[d] # s
    BY <1>1, <2>1, <2>2 DEF HoldInv, s
  <2>5. output'[inside'[d]] = output[inside[d]]
    BY <1>6, <2>2, <2>3, <2>4
  <2> QED BY <1>1, <2>2, <2>5 DEF StampInv
<1>10. ASSUME NEW d \in Servers,
              NEW i \in 1 .. Len(output'[d]), NEW j \in 1 .. Len(output'[d]),
              i < j
       PROVE  output'[d][i] <= output'[d][j]
  <2>1. CASE d = s /\ j = n + 1
    <3>1. i \in 1 .. n
      BY <1>5, <1>7, <1>10, <2>1
    <3> QED BY <1>4, <1>7, <2>1, <3>1 DEF n
  <2>2. CASE d = s /\ j # n + 1
    <3>1. i \in 1 .. n /\ j \in 1 .. n
      BY <1>5, <1>7, <1>10, <2>2
    <3>2. output[s][i] <= output[s][j]
      BY <1>3, <1>10, <3>1 DEF StampsNeverDecrease, n
    <3> QED BY <1>7, <2>2, <3>1, <3>2
  <2>3. CASE d # s
    BY <1>6, <1>10, <2>3 DEF StampsNeverDecrease
  <2> QED BY <2>1, <2>2, <2>3
<1> QED BY <1>8, <1>9, <1>10 DEF StampInv, StampsNeverDecrease

LEMMA StampStep == IInv /\ [Next]_vars => (StampInv /\ StampsNeverDecrease)'
<1> SUFFICES ASSUME IInv, [Next]_vars PROVE (StampInv /\ StampsNeverDecrease)'
  OBVIOUS
<1> USE ServerAssumption
    DEF IInv, ServerType, InsideInv, HoldInv, StampInv, StampsNeverDecrease,
        globalVars, ownerVars, writerVars, clientVars, sharedVars
<1>1. CASE UNCHANGED vars
  BY <1>1 DEF vars
<1>2. ASSUME NEW s \in Servers, Owner(s) PROVE (StampInv /\ StampsNeverDecrease)'
  <2>1. CASE Start(s)
    BY <2>1 DEF Start, NoCallbackRuns
  <2>2. CASE StartWorkers(s)
    BY <2>2 DEF StartWorkers
  <2>3. CASE StartFails(s)
    BY <2>3 DEF StartFails
  <2>4. CASE Pause(s)
    BY <2>4 DEF Pause
  <2>5. CASE PauseWorkers(s)
    BY <2>5 DEF PauseWorkers
  <2>6. CASE Resume(s)
    BY <2>6 DEF Resume
  <2>7. CASE ResumeWorkers(s)
    BY <2>7 DEF ResumeWorkers
  <2>8. CASE Stop(s)
    BY <2>8 DEF Stop
  <2>9. CASE StopWriter(s)
    BY <2>9 DEF StopWriter
  <2>10. CASE Drain(s)
    BY <2>10 DEF Drain, NoCallbackRuns
  <2>11. CASE StopEnds(s)
    BY <2>11 DEF StopEnds
  <2>12. CASE LoadConfig(s)
    BY <2>12 DEF LoadConfig
  <2>13. CASE ResumeNotify(s)
    BY <2>13 DEF ResumeNotify, NotifyAll
  <2>14. CASE StopNotify(s)
    BY <2>14 DEF StopNotify, NotifyAll
  <2> QED BY <1>2, <2>1, <2>2, <2>3, <2>4, <2>5, <2>6, <2>7, <2>8, <2>9, <2>10,
             <2>11, <2>12, <2>13, <2>14 DEF Owner
<1>3. ASSUME NEW s \in Servers, Writer(s) PROVE (StampInv /\ StampsNeverDecrease)'
  <2>1. UNCHANGED <<globalVars, ownerVars, clientVars, sharedVars>>
    BY <1>3, WriterFrame
  <2> QED BY <2>1
<1>4. ASSUME NEW c \in Clients, NEW s \in Servers, Connect(c, s) PROVE (StampInv /\ StampsNeverDecrease)'
  BY <1>4 DEF Connect
<1>5. ASSUME NEW c \in Clients, Disconnect(c) PROVE (StampInv /\ StampsNeverDecrease)'
  BY <1>5 DEF Disconnect
<1>6. ASSUME NEW c \in Clients, EnterMessage(c) PROVE (StampInv /\ StampsNeverDecrease)'
  BY <1>6 DEF EnterMessage, Enter, Target
<1>7. ASSUME NEW c \in Clients, Callback(c) PROVE (StampInv /\ StampsNeverDecrease)'
  <2>1. CASE EnterOpen(c)
    BY <2>1 DEF EnterOpen, Enter, Target
  <2>2. CASE EnterClose(c)
    BY <2>2 DEF EnterClose, Enter, Target
  <2>3. CASE CbOpen(c)
    BY <2>3 DEF CbOpen, Leave
  <2>4. CASE CbClose(c)
    BY <2>4 DEF CbClose, Leave
  <2>5. CASE Lock(c)
    <3>1. LockEffect(c)
      BY <2>5, LockFrame
    <3>2. UNCHANGED <<output, stamp, clock>>
      BY <3>1 DEF LockEffect
    <3>3. \A d \in Clients : cpc'[d] = "add" =>
            cpc[d] = "add" /\ inside'[d] = inside[d]
      BY <3>1 DEF LockEffect
    <3>4. StampInv'
      BY <3>2, <3>3
    <3> QED BY <3>2, <3>4
  <2>6. CASE Time(c)
    BY <2>6, TimeStampStep
  <2>7. CASE Add(c)
    BY <2>7, AddStampStep
  <2> QED BY <1>7, <2>1, <2>2, <2>3, <2>4, <2>5, <2>6, <2>7 DEF Callback
<1> QED BY <1>1, <1>2, <1>3, <1>4, <1>5, <1>6, <1>7 DEF Next

LEMMA StopStep == IInv /\ [Next]_vars => NothingOutlivesStop'
<1> SUFFICES ASSUME IInv, [Next]_vars PROVE NothingOutlivesStop'
  OBVIOUS
<1> USE ServerAssumption
    DEF IInv, ServerType, InsideInv, TargetInv, NothingOutlivesStop,
        globalVars, ownerVars, writerVars, clientVars, sharedVars
<1>1. CASE UNCHANGED vars
  BY <1>1 DEF vars
<1>2. ASSUME NEW s \in Servers, Owner(s) PROVE NothingOutlivesStop'
  <2>1. CASE Start(s)
    BY <2>1 DEF Start, NoCallbackRuns
  <2>2. CASE StartWorkers(s)
    BY <2>2 DEF StartWorkers
  <2>3. CASE StartFails(s)
    BY <2>3 DEF StartFails
  <2>4. CASE Pause(s)
    BY <2>4 DEF Pause
  <2>5. CASE PauseWorkers(s)
    BY <2>5 DEF PauseWorkers
  <2>6. CASE Resume(s)
    BY <2>6 DEF Resume
  <2>7. CASE ResumeWorkers(s)
    BY <2>7 DEF ResumeWorkers
  <2>8. CASE Stop(s)
    BY <2>8 DEF Stop
  <2>9. CASE StopWriter(s)
    BY <2>9 DEF StopWriter
  <2>10. CASE Drain(s)
    BY <2>10 DEF Drain, NoCallbackRuns
  <2>11. CASE StopEnds(s)
    BY <2>11 DEF StopEnds
  <2>12. CASE LoadConfig(s)
    BY <2>12 DEF LoadConfig
  <2>13. CASE ResumeNotify(s)
    BY <2>13 DEF ResumeNotify, NotifyAll
  <2>14. CASE StopNotify(s)
    BY <2>14 DEF StopNotify, NotifyAll
  <2> QED BY <1>2, <2>1, <2>2, <2>3, <2>4, <2>5, <2>6, <2>7, <2>8, <2>9, <2>10,
             <2>11, <2>12, <2>13, <2>14 DEF Owner
<1>3. ASSUME NEW s \in Servers, Writer(s) PROVE NothingOutlivesStop'
  <2>1. /\ UNCHANGED <<globalVars, ownerVars, clientVars, sharedVars>>
        /\ wpc[s] \notin {"none", "ended"}
        /\ \A q \in Servers : q # s => wpc'[q] = wpc[q]
    BY <1>3, WriterFrame
  <2> QED BY <2>1
<1>4. ASSUME NEW c \in Clients, NEW s \in Servers, Connect(c, s) PROVE NothingOutlivesStop'
  BY <1>4 DEF Connect
<1>5. ASSUME NEW c \in Clients, Disconnect(c) PROVE NothingOutlivesStop'
  BY <1>5 DEF Disconnect
<1>6. ASSUME NEW c \in Clients, EnterMessage(c) PROVE NothingOutlivesStop'
  BY <1>6 DEF EnterMessage, Enter, Target
<1>7. ASSUME NEW c \in Clients, Callback(c) PROVE NothingOutlivesStop'
  <2>1. CASE EnterOpen(c)
    BY <2>1 DEF EnterOpen, Enter, Target
  <2>2. CASE EnterClose(c)
    BY <2>2 DEF EnterClose, Enter, Target
  <2>3. CASE CbOpen(c)
    BY <2>3 DEF CbOpen, Leave
  <2>4. CASE CbClose(c)
    BY <2>4 DEF CbClose, Leave
  <2>5. CASE Lock(c)
    <3>1. LockEffect(c)
      BY <2>5, LockFrame
    <3> QED BY <3>1 DEF LockEffect
  <2>6. CASE Time(c)
    BY <2>6 DEF Time
  <2>7. CASE Add(c)
    BY <2>7 DEF Add, Leave
  <2> QED BY <1>7, <2>1, <2>2, <2>3, <2>4, <2>5, <2>6, <2>7 DEF Callback
<1> QED BY <1>1, <1>2, <1>3, <1>4, <1>5, <1>6, <1>7 DEF Next

LEMMA NextIInv == IInv /\ [Next]_vars => IInv'
<1> QED BY TypeStep, InsideStep, HoldStep, TargetStep, StampStep, StopStep
        DEF IInv

LEMMA Invariance == Spec => []IInv
<1> QED BY InitIInv, NextIInv, PTL DEF Spec

-----------------------------------------------------------------------------
(* Theorems *)

\* _WebSocketServer::stop: past its drain no callback runs in the server, of
\* however many connections that live on, and a callback is only ever in the
\* server whose listener accepted the connection; a stopped server has no
\* clients and no writer, and is not the one that callbacks find.
THEOREM NothingEverOutlivesStop == Spec => []NothingOutlivesStop
<1>1. IInv => NothingOutlivesStop
  BY DEF IInv
<1> QED BY <1>1, Invariance, PTL

\* _WebSocketServer::cbMessage: callbacks of any number of clients add to the
\* stream of a server in the order of their stamps, whether the clock moves
\* between two readings or not.  They may be equal: the order is not strict.
THEOREM StampsStayInOrder == Spec => []StampsNeverDecrease
<1>1. IInv => StampsNeverDecrease
  BY DEF IInv
<1> QED BY <1>1, Invariance, PTL

\* Only cbMessage adds to a stream, holding a mutex that pause() takes.
LEMMA PausedStep ==
  IInv /\ [Next]_vars => \A s \in Servers : readPaused[s] => output'[s] = output[s]
<1> SUFFICES ASSUME IInv, [Next]_vars, NEW q \in Servers, readPaused[q]
             PROVE  output'[q] = output[q]
  OBVIOUS
<1> USE DEF globalVars, ownerVars, writerVars, clientVars, sharedVars
<1>1. CASE UNCHANGED vars
  BY <1>1 DEF vars
<1>2. ASSUME NEW s \in Servers, Owner(s) PROVE output'[q] = output[q]
  BY <1>2 DEF Owner, Start, StartWorkers, StartFails, Pause, PauseWorkers,
              Resume, ResumeNotify, ResumeWorkers, Stop, StopNotify,
              StopWriter, Drain, StopEnds, LoadConfig
<1>3. ASSUME NEW s \in Servers, Writer(s) PROVE output'[q] = output[q]
  BY <1>3, WriterFrame DEF IInv
<1>4. ASSUME NEW c \in Clients, Add(c) PROVE output'[q] = output[q]
  <2>1. output' = [output EXCEPT ![inside[c]] = Append(@, stamp[c])]
    BY <1>4 DEF Add
  <2>2. inside[c] # q
    BY <1>4 DEF Add, IInv, HoldInv
  <2>3. output \in [Servers -> Seq(Nat)]
    BY DEF IInv, ServerType
  <2> QED BY <2>1, <2>2, <2>3
<1>5. ASSUME NEW c \in Clients,
             (\E s \in Servers : Connect(c, s)) \/ Disconnect(c)
               \/ EnterMessage(c) \/ (Callback(c) /\ ~Add(c))
      PROVE  output'[q] = output[q]
  BY <1>5 DEF Connect, Disconnect, EnterMessage, Callback, EnterOpen,
              EnterClose, Enter, CbOpen, CbClose, Lock, Time
<1> QED BY <1>1, <1>2, <1>3, <1>4, <1>5 DEF Next

\* _WebSocketServer::pause: from the moment the flag is set no message enters
\* the stream of the server until resume(), not even from a callback that was
\* already running.
THEOREM PausedAlwaysMeansNoInput == Spec => PausedMeansNoInput
<1> QED BY PausedStep, Invariance, PTL DEF Spec, PausedMeansNoInput

-----------------------------------------------------------------------------
(* Lists of clients *)

\* A client that comes is listed after the others.
LEMMA AppendLists ==
  ASSUME NEW S, NEW s \in Seq(S), NEW e \in S, ~Contains(s, e), IsInjective(s)
  PROVE  /\ Append(s, e) \in Seq(S)
         /\ IsInjective(Append(s, e))
         /\ \A x : Contains(Append(s, e), x) <=> Contains(s, x) \/ x = e
         /\ s # <<>> => Append(s, e)[1] = s[1]
         /\ Append(s, e) # <<>>
<1> DEFINE n == Len(s)
           r == Append(s, e)
<1>1. /\ n \in Nat /\ r \in Seq(S) /\ Len(r) = n + 1 /\ r[n + 1] = e
      /\ \A i \in 1 .. n : r[i] = s[i]
      /\ DOMAIN r = 1 .. n + 1 /\ DOMAIN s = 1 .. n
  OBVIOUS
<1>2. s # <<>> => n > 0
  BY <1>1
<1>3. r # <<>>
  BY <1>1
<1> HIDE DEF n, r
<1>4. \A x : Contains(r, x) <=> Contains(s, x) \/ x = e
  <2> SUFFICES ASSUME NEW x PROVE Contains(r, x) <=> Contains(s, x) \/ x = e
    OBVIOUS
  <2>1. Contains(s, x) <=> \E i \in 1 .. n : s[i] = x
    BY DEF Contains, n
  <2>2. Contains(r, x) <=> \E i \in 1 .. n + 1 : r[i] = x
    BY <1>1 DEF Contains
  <2>3. \A i \in 1 .. n + 1 : i \in 1 .. n \/ i = n + 1
    BY <1>1
  <2>4. n + 1 \in 1 .. n + 1 /\ 1 .. n \subseteq 1 .. n + 1
    BY <1>1
  <2> QED BY <1>1, <2>1, <2>2, <2>3, <2>4
<1>5. IsInjective(r)
  <2> SUFFICES ASSUME NEW i \in 1 .. n + 1, NEW j \in 1 .. n + 1, r[i] = r[j]
               PROVE  i = j
    BY <1>1 DEF IsInjective
  <2>1. \A k \in 1 .. n : s[k] # e
    BY DEF Contains, n
  <2>2. CASE i = n + 1 \/ j = n + 1
    BY <1>1, <2>1, <2>2
  <2>3. CASE i # n + 1 /\ j # n + 1
    <3>1. i \in 1 .. n /\ j \in 1 .. n
      BY <1>1, <2>3
    <3>2. s[i] = s[j]
      BY <1>1, <3>1
    <3> QED BY <1>1, <3>1, <3>2 DEF IsInjective
  <2> QED BY <2>2, <2>3
<1>6. s # <<>> => r[1] = s[1]
  BY <1>1, <1>2
<1> QED BY <1>1, <1>3, <1>4, <1>5, <1>6 DEF r

\* The others keep their order when one goes.
LEMMA RemoveLists ==
  ASSUME NEW S, NEW s \in Seq(S), NEW e, IsInjective(s)
  PROVE  /\ RemoveFirst(s, e) \in Seq(S)
         /\ IsInjective(RemoveFirst(s, e))
         /\ \A x : Contains(RemoveFirst(s, e), x) <=> Contains(s, x) /\ x # e
         /\ s # <<>> /\ s[1] # e =>
              RemoveFirst(s, e) # <<>> /\ RemoveFirst(s, e)[1] = s[1]
<1> DEFINE n == Len(s)
           r == RemoveFirst(s, e)
<1>1. n \in Nat /\ DOMAIN s = 1 .. n
  OBVIOUS
<1>2. CASE ~Contains(s, e)
  BY <1>2 DEF Contains, RemoveFirst
<1>3. CASE Contains(s, e)
  <2>1. PICK k \in 1 .. n : s[k] = e
    BY <1>3 DEF Contains
  <2>2. \A i \in 1 .. n : s[i] = e => i = k
    BY <1>1, <2>1 DEF IsInjective
  <2>3. {i \in 1 .. n : s[i] = e} = {k}
    BY <2>1, <2>2
  <2>4. Min({k}) = k
    BY <2>1 DEF Min
  <2>5. r = RemoveAt(s, k)
    BY <2>1, <2>3, <2>4 DEF RemoveFirst, SelectInSeq
  <2>6. r = SubSeq(s, 1, k - 1) \o SubSeq(s, k + 1, n)
    BY <2>5 DEF RemoveAt
  <2>7. /\ r \in Seq(S) /\ Len(r) = n - 1 /\ DOMAIN r = 1 .. n - 1
        /\ \A i \in 1 .. n - 1 : r[i] = IF i < k THEN s[i] ELSE s[i + 1]
    <3> DEFINE a == SubSeq(s, 1, k - 1)
               b == SubSeq(s, k + 1, n)
    <3>1. /\ a \in Seq(S) /\ Len(a) = k - 1
          /\ \A i \in 1 .. k - 1 : a[i] = s[i]
      BY <1>1, <2>1
    <3>2. /\ b \in Seq(S) /\ Len(b) = n - k
          /\ \A i \in 1 .. n - k : b[i] = s[k + i]
      <4>1. /\ b \in Seq(S) /\ Len(b) = n - k
            /\ \A i \in 1 .. n - k : b[i] = s[(k + 1) + i - 1]
        <5> DEFINE m == k + 1
        <5>1. m \in 1 .. n + 1 /\ (\A i \in m .. n : s[i] \in S)
          BY <1>1, <2>1
        <5> HIDE DEF m
        <5>2. /\ SubSeq(s, m, n) \in Seq(S)
              /\ Len(SubSeq(s, m, n)) = (n - m) + 1
          BY <1>1, <5>1
        <5>3. \A i \in 1 .. (n - m) + 1 : SubSeq(s, m, n)[i] = s[m + i - 1]
          BY <1>1, <5>1
        <5>4. (n - m) + 1 = n - k
          BY <1>1, <2>1 DEF m
        <5> QED BY <5>2, <5>3, <5>4 DEF m
      <4>2. \A i \in 1 .. n - k : (k + 1) + i - 1 = k + i
        BY <1>1
      <4> QED BY <4>1, <4>2
    <3>3. r = a \o b
      BY <2>6
    <3> HIDE DEF a, b, r, n
    <3>4. /\ r \in Seq(S) /\ Len(r) = Len(a) + Len(b)
          /\ \A i \in 1 .. Len(a) + Len(b) :
               r[i] = IF i <= Len(a) THEN a[i] ELSE b[i - Len(a)]
      <4>1. a \in Seq(S) /\ b \in Seq(S)
        BY <3>1, <3>2
      <4> QED BY <3>3, <4>1, ConcatProperties
    <3>5. Len(r) = n - 1 /\ DOMAIN r = 1 .. n - 1
      BY <1>1, <2>1, <3>1, <3>2, <3>4
    <3>6. ASSUME NEW i \in 1 .. n - 1
          PROVE  r[i] = IF i < k THEN s[i] ELSE s[i + 1]
      <4>1. r[i] = IF i <= k - 1 THEN a[i] ELSE b[i - (k - 1)]
        BY <1>1, <2>1, <3>1, <3>2, <3>4, <3>5, <3>6
      <4>2. CASE i < k
        BY <1>1, <2>1, <3>1, <4>1, <4>2
      <4>3. CASE ~(i < k)
        <5>1. i - (k - 1) \in 1 .. n - k /\ k + (i - (k - 1)) = i + 1
          BY <1>1, <2>1, <4>3
        <5> QED BY <1>1, <2>1, <3>2, <4>1, <4>3, <5>1
      <4> QED BY <4>2, <4>3
    <3> QED BY <3>4, <3>5, <3>6
  <2> HIDE DEF n, r
  <2>8. \A x : Contains(r, x) <=> Contains(s, x) /\ x # e
    <3> SUFFICES ASSUME NEW x
                 PROVE Contains(r, x) <=> Contains(s, x) /\ x # e
      OBVIOUS
    <3>1. ASSUME NEW i \in 1 .. n - 1, r[i] = x
          PROVE  Contains(s, x) /\ x # e
      <4>1. PICK j \in 1 .. n : j # k /\ s[j] = x
        BY <1>1, <2>7, <3>1
      <4> QED BY <2>2, <4>1 DEF Contains, n
    <3>2. ASSUME NEW j \in 1 .. n, s[j] = x, x # e
          PROVE  Contains(r, x)
      <4>1. j # k
        BY <2>1, <3>2
      <4>2. CASE j < k
        <5>1. j \in 1 .. n - 1 /\ r[j] = x
          BY <1>1, <2>1, <2>7, <3>2, <4>2
        <5> QED BY <2>7, <5>1 DEF Contains
      <4>3. CASE j > k
        <5>1. j - 1 \in 1 .. n - 1 /\ ~(j - 1 < k)
          BY <1>1, <2>1, <4>3
        <5>2. r[j - 1] = s[(j - 1) + 1]
          BY <2>7, <5>1
        <5>3. (j - 1) + 1 = j
          BY <1>1
        <5>4. r[j - 1] = x
          BY <3>2, <5>2, <5>3
        <5> QED BY <2>7, <5>1, <5>4 DEF Contains
      <4> QED BY <1>1, <4>1, <4>2, <4>3
    <3> QED BY <2>7, <3>1, <3>2 DEF Contains, n
  <2>9. IsInjective(r)
    <3> SUFFICES ASSUME NEW i \in 1 .. n - 1, NEW j \in 1 .. n - 1, r[i] = r[j]
                 PROVE  i = j
      BY <2>7 DEF IsInjective
    <3> DEFINE At(m) == IF m < k THEN m ELSE m + 1
    <3>1. At(i) \in 1 .. n /\ At(j) \in 1 .. n
      BY <1>1
    <3>2. s[At(i)] = s[At(j)]
      BY <2>7
    <3>3. At(i) = At(j)
      BY <1>1, <3>1, <3>2 DEF IsInjective
    <3> QED BY <1>1, <2>1, <3>3
  <2>10. s # <<>> /\ s[1] # e => r # <<>> /\ r[1] = s[1]
    <3> SUFFICES ASSUME s[1] # e PROVE r # <<>> /\ r[1] = s[1]
      OBVIOUS
    <3>1. 1 < k /\ 1 \in 1 .. n - 1
      BY <1>1, <2>1
    <3> QED BY <2>7, <3>1
  <2> QED BY <2>7, <2>8, <2>9, <2>10 DEF r
<1> QED BY <1>2, <1>3

-----------------------------------------------------------------------------
(* Types, and packets that are sent once *)

\* Before cbOpen has returned the server knows nothing of a connection.
Before == {"none", "opening", "cbOpen"}
Active(s) == wpc[s] \in {"pass", "packet", "send"}
Lists(s, c) == Contains(vClient[s], c)
Latest(c) == got[c][Len(got[c])]

OwnerType ==
  /\ mode \in Modes
  /\ lastToken \in 0 .. MaxStarts
  /\ token \in [Servers -> 0 .. lastToken]
  /\ context \in [Clients -> 0 .. lastToken]
  /\ listening \in [Servers -> BOOLEAN]
  /\ nPauses \in [Servers -> 0 .. MaxPauses]
  /\ request \in [Servers -> {"run", "pause", "stop"}]

WriterType ==
  /\ front \in [Servers -> Clients \cup {NoOne}]
  /\ fetched \in [Servers -> 0 .. MaxPackets]
  /\ iBp \in [Servers -> 0 .. MaxPackets]
  /\ toSend \in [Servers -> SUBSET Clients]
  /\ bSent \in [Servers -> BOOLEAN]
  /\ cursor \in [Servers -> 0 .. MaxPackets]
  /\ got \in [Clients -> Seq(Servers \X (1 .. MaxPackets))]
  /\ missed \in [Servers -> SUBSET (1 .. MaxPackets)]

CallbackType ==
  /\ \A s \in Servers : vClient[s] \in Seq(Clients) /\ IsInjective(vClient[s])
  /\ \A s \in Servers : output[s] \in Seq(0 .. clock)
  /\ ioOpen \in [Clients -> BOOLEAN]
  /\ stamp \in [Clients -> 0 .. clock]
  /\ nMessages \in [Clients -> 0 .. MaxMessages]

\* A token names one start of one server; connections carry it from the time
\* the listener of that start accepts them.
TokenInv ==
  /\ \A s, t \in Servers : s # t /\ token[s] = token[t] => token[s] = 0
  /\ \A s \in Servers :
       /\ ctl[s] # "new" => token[s] > 0
       /\ listening[s] => ctl[s] \notin {"new", "starting", "join", "stopped"}
       /\ ctl[s] = "starting" => \A c \in Clients : context[c] # token[s]
  /\ \A c \in Clients :
       /\ conn[c] = "none" => context[c] = 0
       /\ inside[c] # NoOne => ctl[inside[c]] # "new"
       /\ cpc[c] \in {"cbClose", "ended"} => conn[c] = "gone"

\* The clients of a server came in its present start, and those that are still
\* connected are open.
ListInv ==
  /\ \A s \in Servers : \A c \in Clients : Lists(s, c) =>
       /\ context[c] = token[s]
       /\ cpc[c] \notin Before
       /\ ctl[s] \notin {"new", "starting"}
       /\ conn[c] = "open" => ioOpen[c]
  /\ \A c \in Clients : ioOpen[c] => \E s \in Servers : Lists(s, c)

\* The packets of an input stream that a writer has passed over are those it
\* missed, and it is past none that it has not fetched.
RingInv ==
  \A s \in Servers :
    /\ cursor[s] <= iBp[s] /\ iBp[s] <= fetched[s]
    /\ cursor[s] + 1 .. iBp[s] \subseteq missed[s]

\* The client a writer has copied is still the first one, unless it is gone;
\* those a broadcast is to visit belong to the same start.
WriterInv ==
  \A s \in Servers :
    /\ Active(s) => ctl[s] \notin {"new", "starting"}
    /\ wpc[s] = "packet" /\ ~mode.broadcast =>
         /\ front[s] \in Clients
         /\ context[front[s]] = token[s]
         /\ conn[front[s]] = "open" => vClient[s] # <<>> /\ vClient[s][1] = front[s]
    /\ wpc[s] = "send" =>
         /\ mode.broadcast
         /\ iBp[s] < fetched[s]
         /\ \A c \in toSend[s] : context[c] = token[s]

\* What connected clients got last is what the cursor says, or the packet in
\* hand for those a broadcast in progress has reached; without broadcasts only
\* the first has got anything.
UpToDate(s, c) ==
  /\ ~mode.broadcast => c = vClient[s][1]
  /\ wpc[s] # "send" \/ c \in toSend[s] => Latest(c) = <<s, cursor[s]>>
  /\ wpc[s] = "send" /\ c \notin toSend[s] =>
       bSent[s] /\ Latest(c) = <<s, iBp[s] + 1>>

GotInv ==
  /\ \A c \in Clients : cpc[c] \in Before => got[c] = <<>>
  /\ \A s \in Servers : \A c \in Clients :
       Active(s) /\ Lists(s, c) /\ conn[c] = "open" /\ got[c] # <<>> =>
         UpToDate(s, c)

\* A broadcast counts as sent when someone has the packet in hand.
SentInv ==
  \A s \in Servers : wpc[s] = "send" /\ bSent[s] => HasGot(s, iBp[s] + 1)

\* Packet b comes right after a, but for packets of m, which were missed.
Follows(a, b, m) ==
  /\ b[1] = a[1]
  /\ a[2] < b[2]
  /\ a[2] + 1 .. b[2] - 1 \subseteq m[b[1]]

SInv ==
  /\ OwnerType
  /\ WriterType
  /\ CallbackType
  /\ TokenInv
  /\ ListInv
  /\ RingInv
  /\ WriterInv
  /\ GotInv
  /\ SentInv
  /\ PacketsAreSentOnce

LEMMA InitSInv == Init => SInv
<1> SUFFICES ASSUME Init PROVE SInv
  OBVIOUS
<1> USE ServerAssumption DEF Init
<1>1. OwnerType
  BY DEF OwnerType
<1>2. WriterType
  BY DEF WriterType
<1>3. \A s \in Servers : vClient[s] = <<>> /\ output[s] = <<>>
  OBVIOUS
<1>4. IsInjective(<<>>)
  BY DEF IsInjective
<1>5. CallbackType
  BY <1>3, <1>4 DEF CallbackType
<1>6. TokenInv
  BY DEF TokenInv
<1>7. \A s \in Servers : \A c \in Clients : ~Lists(s, c)
  BY <1>3 DEF Lists, Contains
<1>8. ListInv /\ WriterInv /\ RingInv
  BY <1>7 DEF ListInv, WriterInv, RingInv, Active
<1>9. GotInv /\ SentInv
  BY <1>7 DEF GotInv, SentInv
<1>10. PacketsAreSentOnce
  BY DEF PacketsAreSentOnce
<1> QED BY <1>1, <1>2, <1>5, <1>6, <1>8, <1>9, <1>10 DEF SInv

-----------------------------------------------------------------------------
(* What the steps do to the variables of this invariant *)

Sending == <<mode, front, fetched, iBp, toSend, bSent, cursor, got, missed>>

\* The owner in the middle of what it does: only its control state, and what
\* callbacks wait for.
Minor(s) ==
  /\ UNCHANGED <<Sending, lastToken, token, wpc, conn, context, inside, vClient,
                 ioOpen>>
  /\ ctl[s] \notin {"new", "starting"}
  /\ ctl'[s] \notin {"new", "starting", "stopped"}
  /\ \A t \in Servers : t # s => ctl'[t] = ctl[t]
  /\ listening'[s] => ctl'[s] # "join"
  /\ \A t \in Servers : listening'[t] => listening[t]
  /\ \A c \in Clients :
       cpc'[c] = cpc[c] \/ (cpc[c] = "waiting" /\ cpc'[c] = "lock")

LEMMA MinorEffect ==
  ASSUME ServerType, OwnerType, NEW s \in Servers,
         \/ Pause(s) \/ PauseWorkers(s)
         \/ Resume(s) \/ ResumeNotify(s) \/ ResumeWorkers(s)
         \/ Stop(s) \/ StopNotify(s) \/ StopWriter(s) \/ Drain(s)
  PROVE  Minor(s)
<1> USE DEF Minor, Sending, OwnerPCs, ServerType, ClientPCs,
            globalVars, ownerVars, writerVars, clientVars, sharedVars
<1>1. CASE Pause(s)
  BY <1>1 DEF Pause
<1>2. CASE PauseWorkers(s)
  BY <1>2 DEF PauseWorkers
<1>3. CASE Resume(s)
  BY <1>3 DEF Resume
<1>4. CASE ResumeWorkers(s)
  BY <1>4 DEF ResumeWorkers
<1>5. CASE Stop(s)
  BY <1>5 DEF Stop
<1>6. CASE StopWriter(s)
  BY <1>6 DEF StopWriter
<1>7. CASE Drain(s)
  <2>1. /\ \A t \in Servers : listening'[t] => listening[t]
        /\ ~listening'[s]
    BY <1>7 DEF Drain, OwnerType
  <2> QED BY <1>7, <2>1 DEF Drain
<1>8. CASE ResumeNotify(s)
  BY <1>8 DEF ResumeNotify, NotifyAll
<1>9. CASE StopNotify(s)
  BY <1>9 DEF StopNotify, NotifyAll
<1> QED BY <1>1, <1>2, <1>3, <1>4, <1>5, <1>6, <1>7, <1>8, <1>9

\* A library thread that enters a callback, or is in cbMessage.
Talk(c) ==
  /\ UNCHANGED <<Sending, lastToken, token, ctl, listening, wpc, conn, context,
                 vClient, ioOpen>>
  /\ \A d \in Clients : d # c => cpc'[d] = cpc[d] /\ inside'[d] = inside[d]
  /\ cpc'[c] \in Before => cpc[c] \in Before
  /\ cpc'[c] \in {"cbClose", "ended"} => conn[c] = "gone"
  /\ inside'[c] \in {NoOne, inside[c], pServer}

LEMMA TalkEffect ==
  ASSUME ServerType, InsideInv, NEW c \in Clients,
         \/ EnterOpen(c) \/ EnterMessage(c) \/ EnterClose(c)
         \/ Lock(c) \/ Time(c) \/ Add(c)
  PROVE  Talk(c)
<1> USE DEF Talk, Sending, Before, ServerType, ClientPCs,
            globalVars, ownerVars, writerVars, clientVars, sharedVars
<1>1. CASE EnterOpen(c)
  BY <1>1 DEF EnterOpen, Enter, Target
<1>2. CASE EnterMessage(c)
  BY <1>2 DEF EnterMessage, Enter, Target
<1>3. CASE EnterClose(c)
  BY <1>3 DEF EnterClose, Enter, Target
<1>4. CASE Lock(c)
  <2>1. LockEffect(c)
    BY <1>4, LockFrame
  <2> QED BY <2>1 DEF LockEffect
<1>5. CASE Time(c)
  BY <1>5 DEF Time
<1>6. CASE Add(c)
  BY <1>6 DEF Add, Leave
<1> QED BY <1>1, <1>2, <1>3, <1>4, <1>5, <1>6

LEMMA StepKinds ==
  ASSUME ServerType, OwnerType, InsideInv, [Next]_vars
  PROVE  \/ UNCHANGED vars
         \/ \E s \in Servers :
              \/ Start(s) \/ StartWorkers(s) \/ StartFails(s) \/ Minor(s)
              \/ StopEnds(s) \/ LoadConfig(s) \/ Writer(s)
         \/ \E c \in Clients :
              \/ (\E s \in Servers : Connect(c, s)) \/ Disconnect(c)
              \/ CbOpen(c) \/ CbClose(c) \/ Talk(c)
<1>1. ASSUME NEW s \in Servers, Owner(s)
      PROVE  \/ Start(s) \/ StartWorkers(s) \/ StartFails(s) \/ Minor(s)
             \/ StopEnds(s) \/ LoadConfig(s)
  BY <1>1, MinorEffect DEF Owner
<1>2. ASSUME NEW c \in Clients, Callback(c)
      PROVE  CbOpen(c) \/ CbClose(c) \/ Talk(c)
  BY <1>2, TalkEffect DEF Callback
<1>3. ASSUME NEW c \in Clients, EnterMessage(c)
      PROVE  Talk(c)
  BY <1>3, TalkEffect
<1> QED BY <1>1, <1>2, <1>3 DEF Next

LEMMA OwnerTypeStep == IInv /\ OwnerType /\ [Next]_vars => OwnerType'
<1> SUFFICES ASSUME IInv, OwnerType, [Next]_vars PROVE OwnerType'
  OBVIOUS
<1> USE ServerAssumption
    DEF OwnerType, globalVars, ownerVars, writerVars, clientVars, sharedVars
<1>1. CASE UNCHANGED vars
  BY <1>1 DEF vars
<1>2. ASSUME NEW s \in Servers, Owner(s) PROVE OwnerType'
  <2>1. CASE Start(s)
    BY <2>1 DEF Start
  <2>2. CASE StartWorkers(s)
    BY <2>2 DEF StartWorkers
  <2>3. CASE StartFails(s)
    BY <2>3 DEF StartFails
  <2>4. CASE Pause(s)
    BY <2>4 DEF Pause
  <2>5. CASE PauseWorkers(s) \/ Resume(s) \/ ResumeNotify(s) \/ ResumeWorkers(s)
    BY <2>5 DEF PauseWorkers, Resume, ResumeNotify, ResumeWorkers
  <2>6. CASE Stop(s) \/ StopNotify(s) \/ StopWriter(s) \/ Drain(s)
    BY <2>6 DEF Stop, StopNotify, StopWriter, Drain
  <2>7. CASE StopEnds(s) \/ LoadConfig(s)
    BY <2>7 DEF StopEnds, LoadConfig
  <2> QED BY <1>2, <2>1, <2>2, <2>3, <2>4, <2>5, <2>6, <2>7 DEF Owner
<1>3. ASSUME NEW s \in Servers, Writer(s) PROVE OwnerType'
  BY <1>3, WriterFrame DEF IInv
<1>4. ASSUME NEW c \in Clients, NEW s \in Servers, Connect(c, s)
      PROVE  OwnerType'
  BY <1>4 DEF Connect
<1>5. ASSUME NEW c \in Clients, Disconnect(c) \/ EnterMessage(c) \/ Callback(c)
      PROVE  OwnerType'
  <2>1. UNCHANGED <<globalVars, ownerVars, context>>
    BY <1>5 DEF Disconnect, EnterMessage, Callback, EnterOpen, EnterClose, Enter,
                CbOpen, CbClose, Lock, Time, Add
  <2> QED BY <2>1
<1> QED BY <1>1, <1>2, <1>3, <1>4, <1>5 DEF Next

LEMMA CallbackTypeStep ==
  IInv /\ ListInv /\ CallbackType /\ [Next]_vars => CallbackType'
<1> SUFFICES ASSUME IInv, ListInv, CallbackType, [Next]_vars PROVE CallbackType'
  OBVIOUS
<1> USE ServerAssumption
    DEF globalVars, ownerVars, writerVars, clientVars, sharedVars
<1> DEFINE Listed == <<vClient, output, ioOpen, stamp, nMessages, clock>>
<1>0. UNCHANGED Listed => CallbackType'
  BY DEF CallbackType
<1>1. CASE UNCHANGED vars
  BY <1>0, <1>1 DEF vars
<1>2. ASSUME NEW s \in Servers, Owner(s) PROVE CallbackType'
  <2>1. CASE StopEnds(s)
    <3>1. /\ vClient' = [vClient EXCEPT ![s] = <<>>]
          /\ ioOpen' = [c \in Clients |-> ioOpen[c] /\ ~Contains(vClient[s], c)]
          /\ UNCHANGED <<output, stamp, nMessages, clock>>
      BY <2>1 DEF StopEnds
    <3>2. IsInjective(<<>>) /\ <<>> \in Seq(Clients)
      BY DEF IsInjective
    <3>3. \A t \in Servers : vClient'[t] = IF t = s THEN <<>> ELSE vClient[t]
      BY <3>1 DEF IInv, ServerType
    <3>4. ioOpen' \in [Clients -> BOOLEAN]
      BY <3>1 DEF CallbackType
    <3> QED BY <3>1, <3>2, <3>3, <3>4 DEF CallbackType
  <2>2. CASE ~StopEnds(s)
    BY <1>0, <1>2, <2>2 DEF Owner, Start, StartWorkers, StartFails, Pause,
      PauseWorkers, Resume, ResumeNotify, ResumeWorkers, Stop, StopNotify,
      StopWriter, Drain, LoadConfig
  <2> QED BY <2>1, <2>2
<1>3. ASSUME NEW s \in Servers, Writer(s) PROVE CallbackType'
  BY <1>0, <1>3, WriterFrame DEF IInv
<1>4. ASSUME NEW c \in Clients,
             \/ (\E s \in Servers : Connect(c, s)) \/ Disconnect(c)
             \/ EnterOpen(c) \/ EnterClose(c) \/ Lock(c)
      PROVE  CallbackType'
  BY <1>0, <1>4 DEF Connect, Disconnect, EnterOpen, EnterClose, Enter, Lock
<1>5. ASSUME NEW c \in Clients, EnterMessage(c) PROVE CallbackType'
  BY <1>5 DEF EnterMessage, Enter, CallbackType
<1>6. ASSUME NEW c \in Clients, CbOpen(c) PROVE CallbackType'
  <2> DEFINE s == inside[c]
  <2>1. s \in Servers /\ UNCHANGED <<output, stamp, nMessages, clock>>
    BY <1>6 DEF CbOpen, IInv, InsideInv, ServerType
  <2>2. CASE UNCHANGED <<vClient, ioOpen>>
    BY <1>0, <2>1, <2>2
  <2>3. CASE /\ vClient' = [vClient EXCEPT ![s] = Append(@, c)]
             /\ ioOpen' = [ioOpen EXCEPT ![c] = TRUE]
    <3>1. ~Contains(vClient[s], c)
      BY <1>6, <2>1 DEF CbOpen, ListInv, Lists, Before
    <3>2. vClient[s] \in Seq(Clients) /\ IsInjective(vClient[s])
      BY <2>1 DEF CallbackType
    <3>3. Append(vClient[s], c) \in Seq(Clients) /\ IsInjective(Append(vClient[s], c))
      BY <3>1, <3>2, AppendLists
    <3>4. \A t \in Servers :
            vClient'[t] = IF t = s THEN Append(vClient[s], c) ELSE vClient[t]
      BY <2>1, <2>3 DEF IInv, ServerType
    <3> HIDE DEF s
    <3> QED BY <2>1, <2>3, <3>3, <3>4 DEF CallbackType
  <2> QED BY <1>6, <2>2, <2>3 DEF CbOpen
<1>7. ASSUME NEW c \in Clients, CbClose(c) PROVE CallbackType'
  <2> DEFINE s == inside[c]
  <2>1. /\ s \in Servers /\ UNCHANGED <<output, stamp, nMessages, clock>>
        /\ vClient' = [vClient EXCEPT ![s] = RemoveFirst(@, c)]
        /\ ioOpen' = [ioOpen EXCEPT ![c] = FALSE]
    BY <1>7 DEF CbClose, IInv, InsideInv, ServerType
  <2>2. vClient[s] \in Seq(Clients) /\ IsInjective(vClient[s])
    BY <2>1 DEF CallbackType
  <2>3. /\ RemoveFirst(vClient[s], c) \in Seq(Clients)
        /\ IsInjective(RemoveFirst(vClient[s], c))
    BY <2>2, RemoveLists
  <2>4. \A t \in Servers :
          vClient'[t] = IF t = s THEN RemoveFirst(vClient[s], c) ELSE vClient[t]
    BY <2>1 DEF IInv, ServerType
  <2> HIDE DEF s
  <2> QED BY <2>1, <2>3, <2>4 DEF CallbackType
<1>8. ASSUME NEW c \in Clients, Time(c) PROVE CallbackType'
  <2>1. /\ clock' \in {clock, clock + 1}
        /\ stamp' = [stamp EXCEPT ![c] = clock']
        /\ UNCHANGED <<vClient, output, ioOpen, nMessages>>
    BY <1>8 DEF Time
  <2>2. clock \in Nat
    BY DEF IInv, ServerType
  <2>3. 0 .. clock \subseteq 0 .. clock' /\ clock' \in 0 .. clock'
    BY <2>1, <2>2
  <2>4. \A t \in Servers : output[t] \in Seq(0 .. clock')
    <3> SUFFICES ASSUME NEW t \in Servers PROVE output[t] \in Seq(0 .. clock')
      OBVIOUS
    <3>1. output[t] \in Seq(0 .. clock)
      BY DEF CallbackType
    <3> QED BY <2>3, <3>1, SeqMonotonic
  <2>5. stamp' \in [Clients -> 0 .. clock']
    BY <2>1, <2>3 DEF CallbackType
  <2> QED BY <2>1, <2>4, <2>5 DEF CallbackType
<1>9. ASSUME NEW c \in Clients, Add(c) PROVE CallbackType'
  <2> DEFINE s == inside[c]
  <2>1. /\ s \in Servers /\ UNCHANGED <<vClient, ioOpen, nMessages, clock>>
        /\ output' = [output EXCEPT ![s] = Append(@, stamp[c])]
        /\ stamp' = [stamp EXCEPT ![c] = 0]
    BY <1>9 DEF Add, IInv, InsideInv, ServerType
  <2>2. output[s] \in Seq(0 .. clock) /\ stamp[c] \in 0 .. clock
    BY <2>1 DEF CallbackType
  <2>3. Append(output[s], stamp[c]) \in Seq(0 .. clock)
    BY <2>2
  <2>4. \A t \in Servers :
          output'[t] = IF t = s THEN Append(output[s], stamp[c]) ELSE output[t]
    BY <2>1 DEF IInv, ServerType
  <2>5. stamp' \in [Clients -> 0 .. clock]
    <3>1. clock \in Nat
      BY DEF IInv, ServerType
    <3> QED BY <2>1, <3>1 DEF CallbackType
  <2> HIDE DEF s
  <2> QED BY <2>1, <2>3, <2>4, <2>5 DEF CallbackType
<1> QED BY <1>1, <1>2, <1>3, <1>4, <1>5, <1>6, <1>7, <1>8, <1>9 DEF Next, Callback

LEMMA TokenStep ==
  IInv /\ OwnerType /\ TokenInv /\ [Next]_vars => TokenInv'
<1> SUFFICES ASSUME IInv, OwnerType, TokenInv, [Next]_vars PROVE TokenInv'
  OBVIOUS
<1> USE ServerAssumption
    DEF globalVars, ownerVars, writerVars, clientVars, sharedVars
<1>0. ServerType /\ InsideInv /\ TargetInv
  BY DEF IInv
<1>t. /\ ctl \in [Servers -> OwnerPCs]
      /\ token \in [Servers -> Nat] /\ lastToken \in Nat
      /\ token \in [Servers -> 0 .. lastToken]
      /\ context \in [Clients -> 0 .. lastToken]
      /\ listening \in [Servers -> BOOLEAN]
      /\ conn \in [Clients -> {"none", "open", "gone"}]
      /\ cpc \in [Clients -> ClientPCs]
      /\ inside \in [Clients -> Servers \cup {NoOne}]
  BY <1>0 DEF ServerType, OwnerType
<1>1. CASE UNCHANGED vars
  BY <1>1 DEF vars, TokenInv
<1>2. ASSUME NEW s \in Servers, Start(s) PROVE TokenInv'
  <2>1. /\ ctl[s] = "new" /\ ctl' = [ctl EXCEPT ![s] = "starting"]
        /\ token' = [token EXCEPT ![s] = lastToken + 1]
        /\ UNCHANGED <<listening, conn, context, cpc, inside>>
        /\ \A c \in Clients : inside[c] = NoOne
    BY <1>2 DEF Start, NoCallbackRuns
  <2>2. ~listening[s]
    BY <2>1 DEF TokenInv
  <2>3. /\ \A t \in Servers : t # s => ctl'[t] = ctl[t] /\ token'[t] = token[t]
        /\ ctl'[s] = "starting" /\ token'[s] = lastToken + 1
    BY <1>t, <2>1
  <2>4. /\ \A t \in Servers : token[t] < lastToken + 1
        /\ \A c \in Clients : context[c] < lastToken + 1
        /\ lastToken + 1 > 0
    BY <1>t
  <2>5. \A q, t \in Servers : q # t /\ token'[q] = token'[t] => token'[q] = 0
    BY <1>t, <2>3, <2>4 DEF TokenInv
  <2>6. \A t \in Servers :
          /\ ctl'[t] # "new" => token'[t] > 0
          /\ listening'[t] => ctl'[t] \notin {"new", "starting", "join", "stopped"}
          /\ ctl'[t] = "starting" => \A c \in Clients : context'[c] # token'[t]
    BY <1>t, <2>1, <2>2, <2>3, <2>4 DEF TokenInv
  <2> QED BY <2>1, <2>5, <2>6 DEF TokenInv
<1>3. ASSUME NEW s \in Servers, StartWorkers(s) \/ StartFails(s)
      PROVE  TokenInv'
  <2>1. /\ ctl[s] = "starting"
        /\ ctl' \in {[ctl EXCEPT ![s] = "run"], [ctl EXCEPT ![s] = "stop"]}
        /\ \A t \in Servers : t # s => listening'[t] = listening[t]
        /\ UNCHANGED <<token, conn, context, cpc, inside>>
    BY <1>t, <1>3 DEF StartWorkers, StartFails
  <2>2. /\ \A t \in Servers : t # s => ctl'[t] = ctl[t]
        /\ ctl'[s] \in {"run", "stop"}
    BY <1>t, <2>1
  <2> QED BY <1>t, <2>1, <2>2 DEF TokenInv
<1>4. ASSUME NEW s \in Servers, Minor(s) PROVE TokenInv'
  <2>2. /\ \A t \in Servers : t # s => ctl'[t] = ctl[t]
        /\ ctl'[s] \notin {"new", "starting", "stopped"}
        /\ listening'[s] => ctl'[s] # "join"
    BY <1>4 DEF Minor
  <2>3. /\ ctl[s] \notin {"new", "starting"}
        /\ UNCHANGED <<token, conn, context, inside>>
        /\ \A t \in Servers : listening'[t] => listening[t]
    BY <1>4 DEF Minor
  <2>4. \A c \in Clients :
          cpc'[c] \in {"cbClose", "ended"} => cpc[c] \in {"cbClose", "ended"}
    BY <1>4 DEF Minor
  <2> QED BY <1>t, <2>2, <2>3, <2>4 DEF TokenInv
<1>5. ASSUME NEW s \in Servers, StopEnds(s) PROVE TokenInv'
  <2>1. /\ ctl[s] = "join" /\ ctl' = [ctl EXCEPT ![s] = "stopped"]
        /\ conn' = [c \in Clients |->
                IF Contains(vClient[s], c) THEN "gone" ELSE conn[c]]
        /\ UNCHANGED <<token, listening, context, cpc, inside>>
    BY <1>5 DEF StopEnds
  <2>2. /\ \A t \in Servers : t # s => ctl'[t] = ctl[t]
        /\ ctl'[s] = "stopped"
    BY <1>t, <2>1
  <2>3. \A c \in Clients : conn'[c] = conn[c] \/ conn'[c] = "gone"
    BY <2>1
  <2> QED BY <1>t, <2>1, <2>2, <2>3 DEF TokenInv
<1>6. ASSUME NEW s \in Servers, LoadConfig(s) PROVE TokenInv'
  <2>1. /\ ctl[s] = "stopped" /\ ctl' = [ctl EXCEPT ![s] = "new"]
        /\ UNCHANGED <<token, listening, conn, context, cpc, inside>>
    BY <1>6 DEF LoadConfig
  <2>2. /\ \A t \in Servers : t # s => ctl'[t] = ctl[t]
        /\ ctl'[s] = "new"
    BY <1>t, <2>1
  <2>3. \A c \in Clients : inside[c] # s
    BY <2>1 DEF IInv, NothingOutlivesStop
  <2>4. ~listening[s]
    BY <2>1 DEF TokenInv
  <2> QED BY <1>t, <2>1, <2>2, <2>3, <2>4 DEF TokenInv
<1>7. ASSUME NEW s \in Servers, Writer(s) PROVE TokenInv'
  BY <1>0, <1>7, WriterFrame DEF TokenInv
<1>8. ASSUME NEW c \in Clients, NEW s \in Servers, Connect(c, s) PROVE TokenInv'
  <2>1. /\ listening[s] /\ conn[c] = "none"
        /\ conn' = [conn EXCEPT ![c] = "open"]
        /\ context' = [context EXCEPT ![c] = token[s]]
        /\ cpc' = [cpc EXCEPT ![c] = "opening"]
        /\ UNCHANGED <<ctl, token, listening, inside>>
    BY <1>8 DEF Connect
  <2>2. /\ \A d \in Clients : d # c => /\ conn'[d] = conn[d] /\ cpc'[d] = cpc[d]
                                       /\ context'[d] = context[d]
        /\ conn'[c] = "open" /\ context'[c] = token[s] /\ cpc'[c] = "opening"
    BY <1>t, <2>1
  <2>3. ctl[s] \notin {"new", "starting"} /\ token[s] > 0
    BY <2>1 DEF TokenInv
  <2>4. \A t \in Servers : ctl[t] = "starting" => token[s] # token[t]
    BY <1>t, <2>3 DEF TokenInv
  <2> QED BY <1>t, <2>1, <2>2, <2>3, <2>4 DEF TokenInv
<1>9. ASSUME NEW c \in Clients, Disconnect(c) PROVE TokenInv'
  BY <1>t, <1>9 DEF Disconnect, TokenInv
<1>10. ASSUME NEW c \in Clients, CbOpen(c) PROVE TokenInv'
  BY <1>t, <1>10 DEF CbOpen, Leave, TokenInv
<1>11. ASSUME NEW c \in Clients, CbClose(c) PROVE TokenInv'
  BY <1>t, <1>11 DEF CbClose, Leave, TokenInv
<1>12. ASSUME NEW c \in Clients, Talk(c) PROVE TokenInv'
  <2>1. /\ UNCHANGED <<token, ctl, listening, conn, context>>
        /\ \A d \in Clients : d # c => cpc'[d] = cpc[d] /\ inside'[d] = inside[d]
        /\ cpc'[c] \in {"cbClose", "ended"} => conn[c] = "gone"
        /\ inside'[c] \in {NoOne, inside[c], pServer}
    BY <1>12 DEF Talk
  <2>2. pServer # NoOne => ctl[pServer] # "new"
    BY <1>0 DEF TargetInv
  <2>3. \A d \in Clients : inside'[d] # NoOne => ctl[inside'[d]] # "new"
    BY <2>1, <2>2 DEF TokenInv
  <2> QED BY <2>1, <2>3 DEF TokenInv
<1> QED BY <1>0, <1>1, <1>2, <1>3, <1>4, <1>5, <1>6, <1>7, <1>8, <1>9, <1>10,
           <1>11, <1>12, StepKinds

\* cbOpen and cbClose, as they change who is listed.
LEMMA OpenEffect ==
  ASSUME IInv, CallbackType, TokenInv, ListInv, NEW c \in Clients, CbOpen(c)
  PROVE  /\ cpc[c] = "cbOpen" /\ cpc' = [cpc EXCEPT ![c] = "idle"]
         /\ UNCHANGED <<Sending, token, ctl, wpc, conn, context>>
         /\ \/ UNCHANGED <<vClient, ioOpen>>
            \/ \E s \in Servers :
                 /\ context[c] = token[s] /\ ctl[s] \notin {"new", "starting"}
                 /\ ioOpen' = [ioOpen EXCEPT ![c] = TRUE]
                 /\ \A t \in Servers : t # s => vClient'[t] = vClient[t]
                 /\ \A d : Contains(vClient'[s], d) <=> Lists(s, d) \/ d = c
                 /\ vClient[s] # <<>> =>
                      vClient'[s] # <<>> /\ vClient'[s][1] = vClient[s][1]
<1> DEFINE s == inside[c]
<1> USE ServerAssumption
    DEF globalVars, ownerVars, writerVars, clientVars, sharedVars
<1>1. /\ cpc[c] = "cbOpen" /\ cpc' = [cpc EXCEPT ![c] = "idle"]
      /\ UNCHANGED <<Sending, token, ctl, wpc, conn, context>>
  BY DEF CbOpen, Leave, Sending
<1>2. s \in Servers
  BY <1>1 DEF IInv, InsideInv, ServerType
<1>3. context[c] = token[s] /\ ctl[s] \notin {"new", "starting"}
  BY <1>2 DEF IInv, NothingOutlivesStop, TokenInv
<1>4. ~Contains(vClient[s], c)
  BY <1>1, <1>2 DEF ListInv, Lists, Before
<1>5. vClient[s] \in Seq(Clients) /\ IsInjective(vClient[s])
  BY <1>2 DEF CallbackType
<1>6. \/ UNCHANGED <<vClient, ioOpen>>
      \/ /\ vClient' = [vClient EXCEPT ![s] = Append(@, c)]
         /\ ioOpen' = [ioOpen EXCEPT ![c] = TRUE]
  BY DEF CbOpen
<1>7. vClient = [t \in Servers |-> vClient[t]]
  BY DEF IInv, ServerType
<1> HIDE DEF s
<1>8. CASE /\ vClient' = [vClient EXCEPT ![s] = Append(@, c)]
           /\ ioOpen' = [ioOpen EXCEPT ![c] = TRUE]
  <2>1. \A t \in Servers : t # s => vClient'[t] = vClient[t]
    BY <1>7, <1>8
  <2>2. vClient'[s] = Append(vClient[s], c)
    BY <1>2, <1>7, <1>8
  <2>3. /\ \A d : Contains(vClient'[s], d) <=> Lists(s, d) \/ d = c
        /\ vClient[s] # <<>> =>
             vClient'[s] # <<>> /\ vClient'[s][1] = vClient[s][1]
    BY <1>4, <1>5, <2>2, AppendLists DEF Lists
  <2> QED BY <1>1, <1>2, <1>3, <1>8, <2>1, <2>3
<1> QED BY <1>1, <1>6, <1>8

LEMMA CloseEffect ==
  ASSUME IInv, CallbackType, TokenInv, NEW c \in Clients, CbClose(c)
  PROVE  /\ cpc' = [cpc EXCEPT ![c] = "ended"] /\ conn[c] = "gone"
         /\ UNCHANGED <<Sending, token, ctl, wpc, conn, context>>
         /\ ioOpen' = [ioOpen EXCEPT ![c] = FALSE]
         /\ \A t \in Servers : \A d :
              Contains(vClient'[t], d) <=> Lists(t, d) /\ ~(t = inside[c] /\ d = c)
         /\ \A t \in Servers : vClient[t] # <<>> /\ vClient[t][1] # c =>
              vClient'[t] # <<>> /\ vClient'[t][1] = vClient[t][1]
<1> DEFINE s == inside[c]
<1> USE ServerAssumption
    DEF globalVars, ownerVars, writerVars, clientVars, sharedVars
<1>1. /\ cpc[c] = "cbClose" /\ cpc' = [cpc EXCEPT ![c] = "ended"]
      /\ UNCHANGED <<Sending, token, ctl, wpc, conn, context>>
      /\ ioOpen' = [ioOpen EXCEPT ![c] = FALSE]
      /\ vClient' = [vClient EXCEPT ![s] = RemoveFirst(@, c)]
  BY DEF CbClose, Leave, Sending
<1>2. s \in Servers
  BY <1>1 DEF IInv, InsideInv, ServerType
<1>3. conn[c] = "gone"
  BY <1>1 DEF TokenInv
<1>4. vClient[s] \in Seq(Clients) /\ IsInjective(vClient[s])
  BY <1>2 DEF CallbackType
<1>5. vClient = [t \in Servers |-> vClient[t]]
  BY DEF IInv, ServerType
<1> HIDE DEF s
<1>6. /\ \A t \in Servers : t # s => vClient'[t] = vClient[t]
      /\ vClient'[s] = RemoveFirst(vClient[s], c)
  BY <1>1, <1>2, <1>5
<1>7. /\ \A d : Contains(vClient'[s], d) <=> Lists(s, d) /\ d # c
      /\ vClient[s] # <<>> /\ vClient[s][1] # c =>
           vClient'[s] # <<>> /\ vClient'[s][1] = vClient[s][1]
  BY <1>4, <1>6, RemoveLists DEF Lists
<1>8. ASSUME NEW t \in Servers, NEW d
      PROVE  Contains(vClient'[t], d) <=> Lists(t, d) /\ ~(t = s /\ d = c)
  BY <1>6, <1>7 DEF Lists
<1>9. ASSUME NEW t \in Servers, vClient[t] # <<>>, vClient[t][1] # c
      PROVE  vClient'[t] # <<>> /\ vClient'[t][1] = vClient[t][1]
  BY <1>6, <1>7, <1>9
<1> QED BY <1>1, <1>3, <1>8, <1>9 DEF s

LEMMA ListStep ==
  /\ IInv /\ OwnerType /\ CallbackType /\ TokenInv /\ ListInv
  /\ [Next]_vars
  => ListInv'
<1> SUFFICES ASSUME IInv, OwnerType, CallbackType, TokenInv, ListInv, [Next]_vars
             PROVE  ListInv'
  OBVIOUS
<1> USE ServerAssumption
    DEF globalVars, ownerVars, writerVars, clientVars, sharedVars
<1>0. ServerType /\ InsideInv
  BY DEF IInv
<1>t. /\ ctl \in [Servers -> OwnerPCs]
      /\ token \in [Servers -> Nat]
      /\ context \in [Clients -> Nat]
      /\ conn \in [Clients -> {"none", "open", "gone"}]
      /\ cpc \in [Clients -> ClientPCs]
      /\ ioOpen \in [Clients -> BOOLEAN]
      /\ vClient = [t \in Servers |-> vClient[t]]
  BY <1>0 DEF ServerType, CallbackType
<1>1. CASE UNCHANGED vars
  BY <1>1 DEF vars, ListInv, Lists
<1>2. ASSUME NEW s \in Servers, Start(s) PROVE ListInv'
  <2>1. /\ ctl[s] = "new" /\ ctl' = [ctl EXCEPT ![s] = "starting"]
        /\ token' = [token EXCEPT ![s] = lastToken + 1]
        /\ UNCHANGED <<conn, context, cpc, vClient, ioOpen>>
    BY <1>2 DEF Start
  <2>2. \A c \in Clients : ~Lists(s, c)
    BY <2>1 DEF ListInv
  <2>3. \A t \in Servers : t # s => ctl'[t] = ctl[t] /\ token'[t] = token[t]
    BY <1>t, <2>1
  <2> QED BY <2>1, <2>2, <2>3 DEF ListInv, Lists
<1>3. ASSUME NEW s \in Servers, StartWorkers(s) \/ StartFails(s)
      PROVE  ListInv'
  <2>1. /\ ctl' \in {[ctl EXCEPT ![s] = "run"], [ctl EXCEPT ![s] = "stop"]}
        /\ UNCHANGED <<token, conn, context, cpc, vClient, ioOpen>>
    BY <1>3 DEF StartWorkers, StartFails
  <2>2. /\ \A t \in Servers : t # s => ctl'[t] = ctl[t]
        /\ ctl'[s] \in {"run", "stop"}
    BY <1>t, <2>1
  <2> QED BY <2>1, <2>2 DEF ListInv, Lists
<1>4. ASSUME NEW s \in Servers, Minor(s) PROVE ListInv'
  <2>1. /\ \A t \in Servers : t # s => ctl'[t] = ctl[t]
        /\ ctl'[s] \notin {"new", "starting"}
        /\ UNCHANGED <<token, conn, context, vClient, ioOpen>>
    BY <1>4 DEF Minor
  <2>2. \A c \in Clients : cpc'[c] \in Before => cpc[c] \in Before
    BY <1>4 DEF Minor, Before
  <2> QED BY <2>1, <2>2 DEF ListInv, Lists
<1>5. ASSUME NEW s \in Servers, StopEnds(s) PROVE ListInv'
  <2>1. /\ ctl' = [ctl EXCEPT ![s] = "stopped"]
        /\ vClient' = [vClient EXCEPT ![s] = <<>>]
        /\ ioOpen' = [c \in Clients |-> ioOpen[c] /\ ~Contains(vClient[s], c)]
        /\ conn' = [c \in Clients |->
                IF Contains(vClient[s], c) THEN "gone" ELSE conn[c]]
        /\ UNCHANGED <<token, context, cpc>>
    BY <1>5 DEF StopEnds
  <2>2. /\ \A t \in Servers : t # s => ctl'[t] = ctl[t] /\ vClient'[t] = vClient[t]
        /\ ctl'[s] = "stopped" /\ vClient'[s] = <<>>
    BY <1>t, <2>1
  <2>3. /\ \A c \in Clients : ~Contains(vClient'[s], c)
        /\ \A t \in Servers : \A c \in Clients :
             t # s => (Contains(vClient'[t], c) <=> Lists(t, c))
    <3>1. \A c \in Clients : ~Contains(<<>>, c)
      BY DEF Contains
    <3> QED BY <2>2, <3>1 DEF Lists
  <2>4. \A c \in Clients :
          /\ ioOpen'[c] => ioOpen[c] /\ ~Lists(s, c)
          /\ conn'[c] = "open" => conn[c] = "open" /\ ~Lists(s, c)
          /\ ioOpen[c] /\ ~Lists(s, c) => ioOpen'[c]
    BY <2>1 DEF Lists
  <2>5. ASSUME NEW c \in Clients, ioOpen'[c]
        PROVE  \E t \in Servers : Contains(vClient'[t], c)
    <3>1. PICK t \in Servers : Lists(t, c)
      BY <2>4, <2>5 DEF ListInv
    <3> QED BY <2>3, <2>4, <2>5, <3>1
  <2>6. ASSUME NEW t \in Servers, NEW c \in Clients, Contains(vClient'[t], c)
        PROVE  /\ context'[c] = token'[t]
               /\ cpc'[c] \notin Before
               /\ ctl'[t] \notin {"new", "starting"}
               /\ conn'[c] = "open" => ioOpen'[c]
    <3>1. t # s /\ Lists(t, c)
      BY <2>3, <2>6
    <3> QED BY <2>1, <2>2, <2>4, <3>1 DEF ListInv
  <2> QED BY <2>5, <2>6 DEF ListInv, Lists
<1>6. ASSUME NEW s \in Servers, LoadConfig(s) PROVE ListInv'
  <2>1. /\ ctl[s] = "stopped" /\ ctl' = [ctl EXCEPT ![s] = "new"]
        /\ UNCHANGED <<token, conn, context, cpc, vClient, ioOpen>>
    BY <1>6 DEF LoadConfig
  <2>2. \A t \in Servers : t # s => ctl'[t] = ctl[t]
    BY <1>t, <2>1
  <2>3. \A c \in Clients : ~Lists(s, c)
    <3>1. vClient[s] = <<>>
      BY <2>1 DEF IInv, NothingOutlivesStop
    <3> QED BY <3>1 DEF Lists, Contains
  <2> QED BY <2>1, <2>2, <2>3 DEF ListInv, Lists
<1>7. ASSUME NEW s \in Servers, Writer(s) PROVE ListInv'
  BY <1>0, <1>7, WriterFrame DEF ListInv, Lists
<1>8. ASSUME NEW c \in Clients, NEW s \in Servers, Connect(c, s) PROVE ListInv'
  <2>1. /\ conn[c] = "none"
        /\ conn' = [conn EXCEPT ![c] = "open"]
        /\ context' = [context EXCEPT ![c] = token[s]]
        /\ cpc' = [cpc EXCEPT ![c] = "opening"]
        /\ UNCHANGED <<ctl, token, vClient, ioOpen>>
    BY <1>8 DEF Connect
  <2>2. \A d \in Clients : d # c => /\ conn'[d] = conn[d] /\ cpc'[d] = cpc[d]
                                    /\ context'[d] = context[d]
    BY <1>t, <2>1
  <2>3. \A t \in Servers : ~Lists(t, c)
    BY <1>0, <2>1 DEF InsideInv, ListInv, Before
  <2> QED BY <2>1, <2>2, <2>3 DEF ListInv, Lists
<1>9. ASSUME NEW c \in Clients, Disconnect(c) PROVE ListInv'
  <2>1. /\ conn' = [conn EXCEPT ![c] = "gone"]
        /\ UNCHANGED <<ctl, token, context, cpc, vClient, ioOpen>>
    BY <1>9 DEF Disconnect
  <2>2. \A d \in Clients : conn'[d] = "open" => conn[d] = "open"
    BY <1>t, <2>1
  <2> QED BY <2>1, <2>2 DEF ListInv, Lists
<1>10. ASSUME NEW c \in Clients, CbOpen(c) PROVE ListInv'
  <2>1. /\ cpc' = [cpc EXCEPT ![c] = "idle"]
        /\ UNCHANGED <<token, ctl, conn, context>>
    BY <1>10, OpenEffect
  <2>2. \A d \in Clients : cpc'[d] \in Before => cpc[d] \in Before /\ d # c
    BY <1>t, <2>1 DEF Before
  <2>3. CASE UNCHANGED <<vClient, ioOpen>>
    BY <2>1, <2>2, <2>3 DEF ListInv, Lists
  <2>4. CASE ~UNCHANGED <<vClient, ioOpen>>
    <3>1. PICK s \in Servers :
            /\ context[c] = token[s] /\ ctl[s] \notin {"new", "starting"}
            /\ ioOpen' = [ioOpen EXCEPT ![c] = TRUE]
            /\ \A t \in Servers : t # s => vClient'[t] = vClient[t]
            /\ \A d : Contains(vClient'[s], d) <=> Lists(s, d) \/ d = c
      BY <1>10, <2>4, OpenEffect
    <3>2. \A t \in Servers : \A d \in Clients :
            Contains(vClient'[t], d) <=> Lists(t, d) \/ (t = s /\ d = c)
      BY <3>1 DEF Lists
    <3>3. \A d \in Clients : ioOpen'[d] <=> ioOpen[d] \/ d = c
      BY <1>t, <3>1
    <3>4. ASSUME NEW t \in Servers, NEW d \in Clients, Contains(vClient'[t], d)
          PROVE  /\ context'[d] = token'[t]
                 /\ cpc'[d] \notin Before
                 /\ ctl'[t] \notin {"new", "starting"}
                 /\ conn'[d] = "open" => ioOpen'[d]
      BY <2>1, <2>2, <3>1, <3>2, <3>3, <3>4 DEF ListInv
    <3>5. ASSUME NEW d \in Clients, ioOpen'[d]
          PROVE  \E t \in Servers : Contains(vClient'[t], d)
      BY <3>2, <3>3, <3>5 DEF ListInv
    <3> QED BY <3>4, <3>5 DEF ListInv, Lists
  <2> QED BY <2>3, <2>4
<1>11. ASSUME NEW c \in Clients, CbClose(c) PROVE ListInv'
  <2>1. /\ cpc' = [cpc EXCEPT ![c] = "ended"] /\ conn[c] = "gone"
        /\ UNCHANGED <<token, ctl, conn, context>>
        /\ ioOpen' = [ioOpen EXCEPT ![c] = FALSE]
        /\ \A t \in Servers : \A d :
             Contains(vClient'[t], d) <=> Lists(t, d) /\ ~(t = inside[c] /\ d = c)
    BY <1>11, CloseEffect
  <2>2. \A d \in Clients : cpc'[d] \in Before => cpc[d] \in Before
    BY <1>t, <2>1 DEF Before
  <2>3. \A d \in Clients : ioOpen'[d] <=> ioOpen[d] /\ d # c
    BY <1>t, <2>1
  <2>4. ASSUME NEW t \in Servers, NEW d \in Clients, Contains(vClient'[t], d)
        PROVE  /\ context'[d] = token'[t]
               /\ cpc'[d] \notin Before
               /\ ctl'[t] \notin {"new", "starting"}
               /\ conn'[d] = "open" => ioOpen'[d]
    BY <2>1, <2>2, <2>3, <2>4 DEF ListInv
  <2>5. ASSUME NEW d \in Clients, ioOpen'[d]
        PROVE  \E t \in Servers : Contains(vClient'[t], d)
    BY <2>1, <2>3, <2>5 DEF ListInv
  <2> QED BY <2>4, <2>5 DEF ListInv, Lists
<1>12. ASSUME NEW c \in Clients, Talk(c) PROVE ListInv'
  <2>1. /\ UNCHANGED <<token, ctl, conn, context, vClient, ioOpen>>
        /\ \A d \in Clients : cpc'[d] \in Before => cpc[d] \in Before
    BY <1>12 DEF Talk
  <2> QED BY <2>1 DEF ListInv, Lists
<1> QED BY <1>0, <1>1, <1>2, <1>3, <1>4, <1>5, <1>6, <1>7, <1>8, <1>9, <1>10,
           <1>11, <1>12, StepKinds

\* What every step of a writer leaves alone.
LEMMA WriterKeeps ==
  ASSUME ServerType, NEW s \in Servers, Writer(s)
  PROVE  /\ UNCHANGED <<mode, token, ctl, vClient, conn, context, cpc, ioOpen,
                        inside>>
         /\ \A t \in Servers : t # s => wpc'[t] = wpc[t]
         /\ Active(s)
<1>1. UNCHANGED <<globalVars, ownerVars, clientVars, sharedVars>>
  BY WriterFrame
<1>2. Active(s)
  BY WriterFrame DEF ServerType, WriterPCs, Active
<1> QED BY <1>1, <1>2, WriterFrame
        DEF globalVars, ownerVars, clientVars, sharedVars

\* All others leave the packets alone.
LEMMA OthersKeep ==
  ASSUME IInv, OwnerType, CallbackType, TokenInv, ListInv, [Next]_vars
  PROVE  (\E s \in Servers : Writer(s)) \/ UNCHANGED Sending
<1> USE DEF Sending, globalVars, ownerVars, writerVars, clientVars, sharedVars
<1>1. CASE UNCHANGED vars
  BY <1>1 DEF vars
<1>2. ASSUME NEW s \in Servers, Minor(s) PROVE UNCHANGED Sending
  BY <1>2 DEF Minor
<1>3. ASSUME NEW c \in Clients, Talk(c) PROVE UNCHANGED Sending
  BY <1>3 DEF Talk
<1>4. ASSUME NEW s \in Servers,
             \/ Start(s) \/ StartWorkers(s) \/ StartFails(s) \/ StopEnds(s)
             \/ LoadConfig(s)
      PROVE  UNCHANGED Sending
  BY <1>4 DEF Start, StartWorkers, StartFails, StopEnds, LoadConfig
<1>5. ASSUME NEW c \in Clients,
             \/ (\E s \in Servers : Connect(c, s)) \/ Disconnect(c)
             \/ CbOpen(c) \/ CbClose(c)
      PROVE  UNCHANGED Sending
  BY <1>5 DEF Connect, Disconnect, CbOpen, CbClose
<1>6. ServerType /\ InsideInv
  BY DEF IInv
<1> QED BY <1>1, <1>2, <1>3, <1>4, <1>5, <1>6, StepKinds

\* What get() skips has been overwritten, by Capacity packets that are newer.
LEMMA PassEffect ==
  ASSUME WriterType, NEW s \in Servers, Pass(s)
  PROVE  \E n \in fetched[s] .. MaxPackets, b \in 0 .. MaxPackets :
           /\ cursor[s] <= b /\ b <= n
           /\ fetched' = [fetched EXCEPT ![s] = n]
           /\ iBp' = [iBp EXCEPT ![s] = b]
           /\ missed' = [missed EXCEPT ![s] = @ \cup (cursor[s] + 1 .. b)]
           /\ \A p \in cursor[s] + 1 .. b : p + Capacity <= n
<1>1. PICK n \in fetched[s] .. MaxPackets :
        /\ n > cursor[s]
        /\ fetched' = [fetched EXCEPT ![s] = n]
        /\ iBp' = [iBp EXCEPT ![s] = Behind(s, n)]
        /\ missed' = [missed EXCEPT ![s] = @ \cup (cursor[s] + 1 .. Behind(s, n))]
  BY DEF Pass
<1>2. /\ cursor[s] \in Nat /\ n \in Nat /\ n <= MaxPackets /\ MaxPackets \in Nat
      /\ Capacity \in Nat \ {0}
  BY ServerAssumption DEF WriterType
<1>3. /\ Behind(s, n) \in 0 .. MaxPackets
      /\ cursor[s] <= Behind(s, n) /\ Behind(s, n) <= n
      /\ \A p \in cursor[s] + 1 .. Behind(s, n) : p + Capacity <= n
  BY <1>1, <1>2 DEF Behind
<1> QED BY <1>1, <1>3

LEMMA WriterTypeStep ==
  /\ IInv /\ OwnerType /\ CallbackType /\ TokenInv /\ ListInv /\ WriterInv
  /\ WriterType /\ [Next]_vars
  => WriterType'
<1> SUFFICES ASSUME IInv, OwnerType, CallbackType, TokenInv, ListInv, WriterInv,
                    WriterType, [Next]_vars
             PROVE  WriterType'
  OBVIOUS
<1>1. CASE UNCHANGED Sending
  BY <1>1 DEF WriterType, Sending
<1>2. ASSUME NEW s \in Servers, Writer(s) PROVE WriterType'
  <2> DEFINE Sent == Servers \X (1 .. MaxPackets)
             Packets == SUBSET (1 .. MaxPackets)
  <2>0. /\ got \in [Clients -> Seq(Sent)] /\ missed \in [Servers -> Packets]
        /\ WriterType' <=>
             /\ front' \in [Servers -> Clients \cup {NoOne}]
             /\ fetched' \in [Servers -> 0 .. MaxPackets]
             /\ iBp' \in [Servers -> 0 .. MaxPackets]
             /\ toSend' \in [Servers -> SUBSET Clients]
             /\ bSent' \in [Servers -> BOOLEAN]
             /\ cursor' \in [Servers -> 0 .. MaxPackets]
             /\ got' \in [Clients -> Seq(Sent)]
             /\ missed' \in [Servers -> Packets]
    BY DEF WriterType
  <2>n. /\ iBp[s] \in Nat /\ fetched[s] \in 0 .. MaxPackets /\ MaxPackets \in Nat
        /\ cursor[s] \in 0 .. MaxPackets /\ missed[s] \in Packets
    BY ServerAssumption DEF WriterType
  <2>p. iBp[s] < fetched[s] => /\ iBp[s] + 1 \in 0 .. MaxPackets
                               /\ <<s, iBp[s] + 1>> \in Sent
    BY <2>n
  <2>m. ASSUME NEW n \in 0 .. MaxPackets, NEW b \in 0 .. n
        PROVE  /\ b \in 0 .. MaxPackets
               /\ missed[s] \cup (cursor[s] + 1 .. b) \in Packets
    BY <2>n
  <2> HIDE DEF Sent, Packets
  <2>1. CASE Pass(s)
    <3>1. /\ front' = [front EXCEPT ![s] = Head(vClient[s])]
          /\ UNCHANGED <<toSend, bSent, cursor, got>>
          /\ vClient[s] # <<>>
      BY <2>1 DEF Pass
    <3>2. Head(vClient[s]) \in Clients
      BY <3>1 DEF CallbackType
    <3>3. PICK n \in fetched[s] .. MaxPackets, b \in 0 .. MaxPackets :
            /\ b <= n
            /\ fetched' = [fetched EXCEPT ![s] = n]
            /\ iBp' = [iBp EXCEPT ![s] = b]
            /\ missed' = [missed EXCEPT ![s] = @ \cup (cursor[s] + 1 .. b)]
      BY <2>1, PassEffect
    <3>4. n \in 0 .. MaxPackets /\ b \in 0 .. n
      BY <2>n, <3>3
    <3>5. /\ b \in 0 .. MaxPackets
          /\ missed[s] \cup (cursor[s] + 1 .. b) \in Packets
      BY <2>m, <3>4
    <3>6. front' \in [Servers -> Clients \cup {NoOne}]
      BY <3>1, <3>2 DEF WriterType
    <3>7. /\ fetched' \in [Servers -> 0 .. MaxPackets]
          /\ iBp' \in [Servers -> 0 .. MaxPackets]
      BY <3>3, <3>4, <3>5 DEF WriterType
    <3>8. missed' \in [Servers -> Packets]
      BY <2>0, <3>3, <3>5
    <3> QED BY <2>0, <3>1, <3>6, <3>7, <3>8 DEF WriterType
  <2>2. CASE End(s) \/ PassEnds(s)
    BY <2>0, <2>2 DEF End, PassEnds, WriterType
  <2>4. CASE SendFront(s)
    <3>1. /\ iBp[s] < fetched[s]
          /\ front[s] \in Clients
          /\ UNCHANGED <<front, fetched, toSend, bSent, missed>>
      BY <2>4 DEF SendFront, WriterInv
    <3>2. Append(got[front[s]], <<s, iBp[s] + 1>>) \in Seq(Sent)
      BY <2>0, <2>p, <3>1
    <3>4. CASE UNCHANGED <<got, iBp, cursor>>
      BY <2>0, <3>1, <3>4 DEF WriterType
    <3>5. CASE /\ got' = [got EXCEPT ![front[s]] = Append(@, <<s, iBp[s] + 1>>)]
               /\ MovePast(s)
      <4>1. got' \in [Clients -> Seq(Sent)]
        BY <2>0, <3>1, <3>2, <3>5
      <4>2. /\ cursor' \in [Servers -> 0 .. MaxPackets]
            /\ iBp' \in [Servers -> 0 .. MaxPackets]
        BY <2>p, <3>1, <3>5 DEF MovePast, WriterType
      <4> QED BY <2>0, <3>1, <4>1, <4>2 DEF WriterType
    <3> QED BY <2>4, <3>4, <3>5 DEF SendFront
  <2>5. CASE Broadcast(s)
    <3>1. ToSet(vClient[s]) \subseteq Clients
      BY DEF ToSet, CallbackType
    <3>2. /\ UNCHANGED <<front, fetched, iBp, cursor, got, missed>>
          /\ toSend' = [toSend EXCEPT ![s] = ToSet(vClient[s])]
          /\ bSent' = [bSent EXCEPT ![s] = FALSE]
      BY <2>5 DEF Broadcast
    <3> QED BY <2>0, <3>1, <3>2 DEF WriterType
  <2>6. ASSUME NEW c \in Clients, SendTo(s, c) PROVE WriterType'
    <3>1. iBp[s] < fetched[s]
      BY <2>6 DEF SendTo, WriterInv
    <3>2. Append(got[c], <<s, iBp[s] + 1>>) \in Seq(Sent)
      BY <2>0, <2>p, <3>1
    <3>3. /\ UNCHANGED <<front, fetched, iBp, cursor, missed>>
          /\ toSend' = [toSend EXCEPT ![s] = @ \ {c}]
      BY <2>6 DEF SendTo
    <3>4. toSend' \in [Servers -> SUBSET Clients]
      BY <3>3 DEF WriterType
    <3>5. CASE UNCHANGED <<got, bSent>>
      BY <2>0, <3>3, <3>4, <3>5 DEF WriterType
    <3>6. CASE /\ got' = [got EXCEPT ![c] = Append(@, <<s, iBp[s] + 1>>)]
               /\ bSent' = [bSent EXCEPT ![s] = TRUE]
      <4>1. /\ got' \in [Clients -> Seq(Sent)]
            /\ bSent' \in [Servers -> BOOLEAN]
        BY <2>0, <3>2, <3>6 DEF WriterType
      <4> QED BY <2>0, <3>3, <3>4, <4>1 DEF WriterType
    <3> QED BY <2>6, <3>5, <3>6 DEF SendTo
  <2>7. CASE SendNext(s)
    <3>1. /\ iBp[s] < fetched[s]
          /\ UNCHANGED <<front, fetched, toSend, bSent, got, missed>>
          /\ MovePast(s) \/ UNCHANGED <<iBp, cursor>>
      BY <2>7 DEF SendNext, WriterInv
    <3>2. /\ cursor' \in [Servers -> 0 .. MaxPackets]
          /\ iBp' \in [Servers -> 0 .. MaxPackets]
      BY <2>p, <3>1 DEF MovePast, WriterType
    <3> QED BY <2>0, <3>1, <3>2 DEF WriterType
  <2> QED BY <1>2, <2>1, <2>2, <2>4, <2>5, <2>6, <2>7 DEF Writer
<1> QED BY <1>1, <1>2, OthersKeep

\* The cursor passes only over what was missed, and what was sent.
LEMMA RingStep ==
  /\ IInv /\ OwnerType /\ WriterType /\ CallbackType /\ TokenInv /\ ListInv
  /\ RingInv /\ WriterInv /\ [Next]_vars
  => RingInv'
<1> SUFFICES ASSUME IInv, OwnerType, WriterType, CallbackType, TokenInv, ListInv,
                    RingInv, WriterInv, [Next]_vars
             PROVE  RingInv'
  OBVIOUS
<1>1. CASE UNCHANGED Sending
  BY <1>1 DEF RingInv, Sending
<1>2. ASSUME NEW s \in Servers, Writer(s) PROVE RingInv'
  <2>t. /\ cursor \in [Servers -> Nat] /\ iBp \in [Servers -> Nat]
        /\ fetched \in [Servers -> Nat] /\ missed = [t \in Servers |-> missed[t]]
    BY ServerAssumption DEF WriterType
  <2>1. CASE Pass(s)
    <3>1. PICK n \in fetched[s] .. MaxPackets, b \in 0 .. MaxPackets :
            /\ cursor[s] <= b /\ b <= n
            /\ fetched' = [fetched EXCEPT ![s] = n]
            /\ iBp' = [iBp EXCEPT ![s] = b]
            /\ missed' = [missed EXCEPT ![s] = @ \cup (cursor[s] + 1 .. b)]
      BY <2>1, PassEffect
    <3>2. cursor' = cursor
      BY <2>1 DEF Pass
    <3> QED BY <2>t, <3>1, <3>2 DEF RingInv
  <2>2. CASE UNCHANGED <<fetched, iBp, cursor, missed>>
    BY <2>2 DEF RingInv
  <2>3. CASE MovePast(s) /\ iBp[s] < fetched[s] /\ UNCHANGED <<fetched, missed>>
    <3>1. /\ cursor' = [cursor EXCEPT ![s] = iBp[s] + 1]
          /\ iBp' = [iBp EXCEPT ![s] = iBp[s] + 1]
      BY <2>3 DEF MovePast
    <3>2. cursor'[s] + 1 .. iBp'[s] = {}
      BY <2>t, <3>1
    <3> QED BY <2>t, <2>3, <3>1, <3>2 DEF RingInv
  <2>4. CASE SendFront(s)
    BY <2>2, <2>3, <2>4 DEF SendFront
  <2>5. CASE SendNext(s)
    BY <2>2, <2>3, <2>5 DEF SendNext, WriterInv
  <2> QED BY <1>2, <2>1, <2>2, <2>4, <2>5
          DEF Writer, End, PassEnds, Broadcast, SendTo
<1> QED BY <1>1, <1>2, OthersKeep

LEMMA WriterInvWrites ==
  ASSUME IInv, WriterType, CallbackType, ListInv, WriterInv,
         NEW s \in Servers, Writer(s)
  PROVE  WriterInv'
<1>1. /\ UNCHANGED <<mode, token, ctl, vClient, conn, context>>
      /\ \A t \in Servers : t # s => wpc'[t] = wpc[t]
      /\ ctl[s] \notin {"new", "starting"}
  BY WriterKeeps DEF IInv, WriterInv
<1>2. wpc \in [Servers -> WriterPCs]
  BY DEF IInv, ServerType
<1> DEFINE Goal == /\ \A t \in Servers : t # s =>
                        /\ front'[t] = front[t] /\ fetched'[t] = fetched[t]
                        /\ toSend'[t] = toSend[t] /\ iBp'[t] = iBp[t]
                   /\ wpc'[s] = "packet" /\ ~mode.broadcast =>
                        /\ front'[s] \in Clients
                        /\ context[front'[s]] = token[s]
                        /\ conn[front'[s]] = "open" =>
                             vClient[s] # <<>> /\ vClient[s][1] = front'[s]
                   /\ wpc'[s] = "send" =>
                        /\ mode.broadcast
                        /\ iBp'[s] < fetched'[s]
                        /\ \A c \in toSend'[s] : context[c] = token[s]
<1>g. Goal => WriterInv'
  <2> SUFFICES ASSUME Goal, NEW t \in Servers
               PROVE  /\ Active(t)' => ctl[t] \notin {"new", "starting"}
                      /\ wpc'[t] = "packet" /\ ~mode.broadcast =>
                           /\ front'[t] \in Clients
                           /\ context[front'[t]] = token[t]
                           /\ conn[front'[t]] = "open" =>
                                vClient[t] # <<>> /\ vClient[t][1] = front'[t]
                      /\ wpc'[t] = "send" =>
                           /\ mode.broadcast
                           /\ iBp'[t] < fetched'[t]
                           /\ \A c \in toSend'[t] : context[c] = token[t]
    BY <1>1 DEF WriterInv
  <2>1. CASE t = s
    BY <1>1, <2>1
  <2>2. CASE t # s
    <3>1. /\ front'[t] = front[t] /\ fetched'[t] = fetched[t]
          /\ toSend'[t] = toSend[t] /\ iBp'[t] = iBp[t]
          /\ wpc'[t] = wpc[t]
      BY <1>1, <2>2
    <3> HIDE DEF Goal
    <3> QED BY <3>1 DEF WriterInv, Active
  <2> QED BY <2>1, <2>2
<1>t. /\ front = [t \in Servers |-> front[t]] /\ iBp = [t \in Servers |-> iBp[t]]
      /\ fetched = [t \in Servers |-> fetched[t]]
      /\ toSend = [t \in Servers |-> toSend[t]]
  BY DEF WriterType
<1>3. CASE Pass(s)
  <2>1. /\ front' = [front EXCEPT ![s] = Head(vClient[s])]
        /\ wpc' = [wpc EXCEPT ![s] = "packet"]
        /\ UNCHANGED toSend
        /\ vClient[s] # <<>> /\ vClient[s] \in Seq(Clients)
    BY <1>3 DEF Pass, CallbackType
  <2>2. \A t \in Servers : t # s => fetched'[t] = fetched[t] /\ iBp'[t] = iBp[t]
    BY <1>t, <1>3, PassEffect
  <2>3. /\ front'[s] = vClient[s][1] /\ vClient[s][1] \in Clients
        /\ Lists(s, vClient[s][1])
    <3>1. /\ Head(vClient[s]) = vClient[s][1] /\ vClient[s][1] \in Clients
          /\ 1 \in 1 .. Len(vClient[s])
      BY <2>1
    <3> QED BY <1>t, <2>1, <3>1 DEF Lists, Contains
  <2>4. context[front'[s]] = token[s]
    BY <2>3 DEF ListInv
  <2>6. wpc'[s] = "packet"
    BY <1>2, <2>1
  <2>7. Goal
    BY <1>t, <2>1, <2>2, <2>3, <2>4, <2>6
  <2> QED BY <1>g, <2>7
<1>4. CASE End(s)
  BY <1>1, <1>2, <1>4 DEF End, WriterInv, Active
<1>5. CASE PassEnds(s)
  BY <1>1, <1>2, <1>5 DEF PassEnds, WriterInv, Active
<1>6. CASE SendFront(s)
  <2>1. /\ wpc[s] = "packet" /\ ~mode.broadcast
        /\ UNCHANGED <<front, fetched, toSend>>
        /\ \/ iBp' = [iBp EXCEPT ![s] = @ + 1] /\ wpc' = wpc
           \/ wpc' = [wpc EXCEPT ![s] = "pass"] /\ UNCHANGED iBp
    BY <1>6 DEF SendFront, MovePast
  <2>2. Goal
    BY <1>t, <1>2, <2>1 DEF WriterInv
  <2> QED BY <1>g, <2>2
<1>7. CASE Broadcast(s)
  <2>1. /\ wpc' = [wpc EXCEPT ![s] = "send"] /\ iBp[s] < fetched[s]
        /\ mode.broadcast
        /\ toSend' = [toSend EXCEPT ![s] = ToSet(vClient[s])]
        /\ UNCHANGED <<front, fetched, iBp>>
    BY <1>7 DEF Broadcast
  <2>2. \A c \in ToSet(vClient[s]) : c \in Clients /\ Lists(s, c)
    <3>1. vClient[s] \in Seq(Clients) /\ DOMAIN vClient[s] = 1 .. Len(vClient[s])
      BY DEF CallbackType
    <3> QED BY <3>1 DEF ToSet, Lists, Contains
  <2>3. \A c \in ToSet(vClient[s]) : context[c] = token[s]
    BY <2>2 DEF ListInv
  <2>4. Goal
    BY <1>t, <1>2, <2>1, <2>3
  <2> QED BY <1>g, <2>4
<1>8. ASSUME NEW c \in Clients, SendTo(s, c) PROVE WriterInv'
  <2>1. /\ wpc[s] = "send" /\ toSend' = [toSend EXCEPT ![s] = @ \ {c}]
        /\ UNCHANGED <<wpc, front, fetched, iBp>>
    BY <1>8 DEF SendTo
  <2>2. Goal
    BY <1>t, <2>1 DEF WriterInv
  <2> QED BY <1>g, <2>2
<1>9. CASE SendNext(s)
  <2>1. /\ wpc[s] = "send" /\ UNCHANGED <<front, fetched, toSend>>
        /\ wpc' \in {[wpc EXCEPT ![s] = "packet"], [wpc EXCEPT ![s] = "pass"]}
        /\ iBp' = [iBp EXCEPT ![s] = @ + 1] \/ UNCHANGED iBp
    BY <1>9 DEF SendNext, MovePast
  <2>2. mode.broadcast
    BY <2>1 DEF WriterInv
  <2>3. Goal
    BY <1>t, <1>2, <2>1, <2>2
  <2> QED BY <1>g, <2>3
<1> QED BY <1>3, <1>4, <1>5, <1>6, <1>7, <1>8, <1>9 DEF Writer

\* A connection that is only just made belongs to no running writer.
LEMMA NewIsNobodys ==
  ASSUME ServerType, TokenInv, WriterInv, NEW c \in Clients, conn[c] = "none",
         NEW s \in Servers, Active(s)
  PROVE  context[c] # token[s]
<1>1. context[c] = 0 /\ token[s] > 0
  BY DEF TokenInv, WriterInv
<1> QED BY <1>1 DEF ServerType

LEMMA WriterInvStep ==
  /\ IInv /\ OwnerType /\ WriterType /\ CallbackType /\ TokenInv /\ ListInv
  /\ WriterInv /\ [Next]_vars
  => WriterInv'
<1> SUFFICES ASSUME IInv, OwnerType, WriterType, CallbackType, TokenInv, ListInv,
                    WriterInv, [Next]_vars
             PROVE  WriterInv'
  OBVIOUS
<1>0. ServerType /\ InsideInv
  BY DEF IInv
<1>t. /\ ctl \in [Servers -> OwnerPCs]
      /\ wpc \in [Servers -> WriterPCs]
      /\ token \in [Servers -> Nat]
      /\ context \in [Clients -> Nat]
      /\ conn \in [Clients -> {"none", "open", "gone"}]
      /\ toSend \in [Servers -> SUBSET Clients]
      /\ vClient = [t \in Servers |-> vClient[t]]
  BY <1>0 DEF ServerType, WriterType
<1> USE DEF Sending, globalVars, ownerVars, writerVars, clientVars, sharedVars
<1>1. CASE UNCHANGED vars
  BY <1>1 DEF vars, WriterInv, Active
<1>2. ASSUME NEW s \in Servers, Start(s) PROVE WriterInv'
  <2>1. /\ ctl[s] = "new" /\ ctl' = [ctl EXCEPT ![s] = "starting"]
        /\ token' = [token EXCEPT ![s] = lastToken + 1]
        /\ UNCHANGED <<Sending, wpc, conn, context, vClient>>
    BY <1>2 DEF Start
  <2>2. /\ \A t \in Servers : t # s => ctl'[t] = ctl[t] /\ token'[t] = token[t]
        /\ ~Active(s)
    BY <1>t, <2>1 DEF WriterInv
  <2> QED BY <2>1, <2>2 DEF WriterInv, Active
<1>3. ASSUME NEW s \in Servers, StartWorkers(s) \/ StartFails(s)
      PROVE  WriterInv'
  <2>1. /\ ctl' \in {[ctl EXCEPT ![s] = "run"], [ctl EXCEPT ![s] = "stop"]}
        /\ wpc' = [wpc EXCEPT ![s] = "pass"]
        /\ UNCHANGED <<Sending, token, conn, context, vClient>>
    BY <1>3 DEF StartWorkers, StartFails
  <2>2. /\ \A t \in Servers : t # s => ctl'[t] = ctl[t] /\ wpc'[t] = wpc[t]
        /\ ctl'[s] \in {"run", "stop"} /\ wpc'[s] = "pass"
    BY <1>t, <2>1
  <2> QED BY <2>1, <2>2 DEF WriterInv, Active
<1>4. ASSUME NEW s \in Servers, Minor(s) PROVE WriterInv'
  <2>1. /\ \A t \in Servers : t # s => ctl'[t] = ctl[t]
        /\ ctl'[s] \notin {"new", "starting"}
        /\ UNCHANGED <<Sending, token, wpc, conn, context, vClient>>
    BY <1>4 DEF Minor
  <2> QED BY <2>1 DEF WriterInv, Active
<1>5. ASSUME NEW s \in Servers, StopEnds(s) PROVE WriterInv'
  <2>1. /\ ctl' = [ctl EXCEPT ![s] = "stopped"]
        /\ wpc[s] \in {"none", "ended"}
        /\ vClient' = [vClient EXCEPT ![s] = <<>>]
        /\ conn' = [c \in Clients |->
                IF Contains(vClient[s], c) THEN "gone" ELSE conn[c]]
        /\ UNCHANGED <<Sending, token, context, wpc>>
    BY <1>5 DEF StopEnds
  <2>2. /\ \A t \in Servers : t # s => ctl'[t] = ctl[t] /\ vClient'[t] = vClient[t]
        /\ \A c \in Clients : conn'[c] = "open" => conn[c] = "open"
    BY <1>t, <2>1
  <2> QED BY <2>1, <2>2 DEF WriterInv, Active
<1>6. ASSUME NEW s \in Servers, LoadConfig(s) PROVE WriterInv'
  <2>1. /\ ctl' = [ctl EXCEPT ![s] = "new"] /\ wpc' = [wpc EXCEPT ![s] = "none"]
        /\ UNCHANGED <<Sending, token, conn, context, vClient>>
    BY <1>6 DEF LoadConfig
  <2>2. /\ \A t \in Servers : t # s => ctl'[t] = ctl[t] /\ wpc'[t] = wpc[t]
        /\ wpc'[s] = "none"
    BY <1>t, <2>1
  <2> QED BY <2>1, <2>2 DEF WriterInv, Active
<1>7. ASSUME NEW s \in Servers, Writer(s) PROVE WriterInv'
  BY <1>7, WriterInvWrites
<1>8. ASSUME NEW c \in Clients, NEW s \in Servers, Connect(c, s) PROVE WriterInv'
  <2>1. /\ conn[c] = "none"
        /\ conn' = [conn EXCEPT ![c] = "open"]
        /\ context' = [context EXCEPT ![c] = token[s]]
        /\ UNCHANGED <<Sending, ctl, token, vClient, wpc>>
    BY <1>8 DEF Connect
  <2>2. \A d \in Clients : d # c => conn'[d] = conn[d] /\ context'[d] = context[d]
    BY <1>t, <2>1
  <2>3. \A t \in Servers : Active(t) => context[c] # token[t]
    BY <1>0, <2>1, NewIsNobodys
  <2>4. \A t \in Servers : Active(t) =>
          /\ context[front[t]] = token[t] => front[t] # c
          /\ \A d \in toSend[t] : context[d] = token[t] => d # c
    BY <2>3
  <2> QED BY <1>t, <2>1, <2>2, <2>4 DEF WriterInv, Active
<1>9. ASSUME NEW c \in Clients, Disconnect(c) PROVE WriterInv'
  <2>1. /\ conn' = [conn EXCEPT ![c] = "gone"]
        /\ UNCHANGED <<Sending, ctl, token, context, vClient, wpc>>
    BY <1>9 DEF Disconnect
  <2>2. \A d \in Clients : conn'[d] = "open" => conn[d] = "open"
    BY <1>t, <2>1
  <2> QED BY <2>1, <2>2 DEF WriterInv, Active
<1>10. ASSUME NEW c \in Clients, CbOpen(c) PROVE WriterInv'
  <2>1. /\ UNCHANGED <<Sending, token, ctl, wpc, conn, context>>
        /\ \A t \in Servers : vClient[t] # <<>> =>
             vClient'[t] # <<>> /\ vClient'[t][1] = vClient[t][1]
    BY <1>10, OpenEffect
  <2> QED BY <2>1 DEF WriterInv, Active
<1>11. ASSUME NEW c \in Clients, CbClose(c) PROVE WriterInv'
  <2>1. /\ UNCHANGED <<Sending, token, ctl, wpc, conn, context>>
        /\ conn[c] = "gone"
        /\ \A t \in Servers : vClient[t] # <<>> /\ vClient[t][1] # c =>
             vClient'[t] # <<>> /\ vClient'[t][1] = vClient[t][1]
    BY <1>11, CloseEffect
  <2> QED BY <2>1 DEF WriterInv, Active
<1>12. ASSUME NEW c \in Clients, Talk(c) PROVE WriterInv'
  BY <1>12 DEF Talk, WriterInv, Active
<1> QED BY <1>0, <1>1, <1>2, <1>3, <1>4, <1>5, <1>6, <1>7, <1>8, <1>9, <1>10,
           <1>11, <1>12, StepKinds

LEMMA GotOthersStep ==
  /\ IInv /\ OwnerType /\ WriterType /\ CallbackType /\ TokenInv /\ ListInv
  /\ WriterInv /\ GotInv /\ [Next]_vars
  /\ UNCHANGED Sending /\ (\A s \in Servers : ~Writer(s))
  => GotInv'
<1> SUFFICES ASSUME IInv, OwnerType, WriterType, CallbackType, TokenInv, ListInv,
                    WriterInv, GotInv, [Next]_vars, UNCHANGED Sending,
                    \A s \in Servers : ~Writer(s)
             PROVE  GotInv'
  OBVIOUS
<1>0. ServerType /\ InsideInv
  BY DEF IInv
<1>t. /\ ctl \in [Servers -> OwnerPCs]
      /\ wpc \in [Servers -> WriterPCs]
      /\ conn \in [Clients -> {"none", "open", "gone"}]
      /\ cpc \in [Clients -> ClientPCs]
      /\ vClient = [t \in Servers |-> vClient[t]]
  BY <1>0 DEF ServerType
<1> USE DEF globalVars, ownerVars, writerVars, clientVars, sharedVars
<1> DEFINE Counts(s, c) == Active(s) /\ Lists(s, c) /\ conn[c] = "open" /\ got[c] # <<>>
<1>g. ASSUME \A c \in Clients : cpc'[c] \in Before => cpc[c] \in Before \/ got[c] = <<>>,
             \A s \in Servers : \A c \in Clients : Counts(s, c)' =>
               /\ Counts(s, c) /\ wpc'[s] = wpc[s]
               /\ c = vClient[s][1] => c = vClient'[s][1]
      PROVE  GotInv'
  <2>1. ASSUME NEW s \in Servers, NEW c \in Clients, Counts(s, c)'
        PROVE  UpToDate(s, c)'
    <3>1. /\ UpToDate(s, c) /\ wpc'[s] = wpc[s]
          /\ c = vClient[s][1] => c = vClient'[s][1]
      BY <1>g, <2>1 DEF GotInv
    <3> QED BY <3>1 DEF UpToDate, Latest, Sending
  <2>2. \A c \in Clients : cpc'[c] \in Before => got'[c] = <<>>
    BY <1>g DEF GotInv, Sending
  <2> QED BY <2>1, <2>2 DEF GotInv
<1>s. got' = got
  BY DEF Sending
<1> USE DEF Active, Lists
<1>1. CASE UNCHANGED vars
  BY <1>1, <1>g DEF vars
<1>2. ASSUME NEW s \in Servers, Start(s) PROVE GotInv'
  <2>1. UNCHANGED <<wpc, conn, cpc, vClient>>
    BY <1>2 DEF Start
  <2> QED BY <1>g, <1>s, <2>1
<1>3. ASSUME NEW s \in Servers, StartWorkers(s) \/ StartFails(s)
      PROVE  GotInv'
  <2>1. /\ ctl[s] = "starting"
        /\ wpc' = [wpc EXCEPT ![s] = "pass"]
        /\ UNCHANGED <<conn, cpc, vClient>>
    BY <1>3 DEF StartWorkers, StartFails
  <2>2. \A t \in Servers : t # s => wpc'[t] = wpc[t]
    BY <1>t, <2>1
  <2>3. \A c \in Clients : ~Contains(vClient[s], c)
    BY <2>1 DEF ListInv
  <2> QED BY <1>g, <1>s, <2>1, <2>2, <2>3
<1>4. ASSUME NEW s \in Servers, Minor(s) PROVE GotInv'
  <2>1. UNCHANGED <<wpc, conn, vClient>>
    BY <1>4 DEF Minor
  <2>2. \A c \in Clients : cpc'[c] \in Before => cpc[c] \in Before
    BY <1>4 DEF Minor, Before
  <2> QED BY <1>g, <1>s, <2>1, <2>2
<1>5. ASSUME NEW s \in Servers, StopEnds(s) PROVE GotInv'
  <2>1. /\ wpc[s] \in {"none", "ended"}
        /\ vClient' = [vClient EXCEPT ![s] = <<>>]
        /\ conn' = [c \in Clients |->
                IF Contains(vClient[s], c) THEN "gone" ELSE conn[c]]
        /\ UNCHANGED <<wpc, cpc>>
    BY <1>5 DEF StopEnds
  <2>2. /\ \A t \in Servers : t # s => vClient'[t] = vClient[t]
        /\ \A c \in Clients : conn'[c] = "open" => conn[c] = "open"
    BY <1>t, <2>1
  <2> QED BY <1>g, <1>s, <2>1, <2>2
<1>6. ASSUME NEW s \in Servers, LoadConfig(s) PROVE GotInv'
  <2>1. wpc' = [wpc EXCEPT ![s] = "none"] /\ UNCHANGED <<conn, cpc, vClient>>
    BY <1>6 DEF LoadConfig
  <2>2. /\ \A t \in Servers : t # s => wpc'[t] = wpc[t]
        /\ wpc'[s] = "none"
    BY <1>t, <2>1
  <2> QED BY <1>g, <1>s, <2>1, <2>2
<1>8. ASSUME NEW c \in Clients, NEW s \in Servers, Connect(c, s) PROVE GotInv'
  <2>1. /\ conn[c] = "none"
        /\ conn' = [conn EXCEPT ![c] = "open"]
        /\ cpc' = [cpc EXCEPT ![c] = "opening"]
        /\ UNCHANGED <<vClient, wpc>>
    BY <1>8 DEF Connect
  <2>2. cpc[c] \in Before
    BY <1>0, <2>1 DEF InsideInv, Before
  <2>3. got[c] = <<>>
    BY <2>2 DEF GotInv
  <2>4. \A d \in Clients : d # c => conn'[d] = conn[d] /\ cpc'[d] = cpc[d]
    BY <1>t, <2>1
  <2> QED BY <1>g, <1>s, <2>1, <2>3, <2>4
<1>9. ASSUME NEW c \in Clients, Disconnect(c) PROVE GotInv'
  <2>1. conn' = [conn EXCEPT ![c] = "gone"] /\ UNCHANGED <<cpc, vClient, wpc>>
    BY <1>9 DEF Disconnect
  <2>2. \A d \in Clients : conn'[d] = "open" => conn[d] = "open"
    BY <1>t, <2>1
  <2> QED BY <1>g, <1>s, <2>1, <2>2
<1>10. ASSUME NEW c \in Clients, CbOpen(c) PROVE GotInv'
  <2>1. /\ cpc[c] = "cbOpen" /\ cpc' = [cpc EXCEPT ![c] = "idle"]
        /\ UNCHANGED <<wpc, conn>>
    BY <1>10, OpenEffect
  <2>2. \A d \in Clients : cpc'[d] \in Before => cpc[d] \in Before
    BY <1>t, <2>1 DEF Before
  <2>3. got[c] = <<>>
    BY <2>1 DEF GotInv, Before
  <2>4. \A t \in Servers : \A d \in Clients : d # c =>
          /\ Contains(vClient'[t], d) <=> Contains(vClient[t], d)
          /\ Contains(vClient[t], d) => vClient'[t][1] = vClient[t][1]
    <3>1. \A t \in Servers : \A d \in Clients : Contains(vClient[t], d) => vClient[t] # <<>>
      BY DEF Contains
    <3> QED BY <1>10, <3>1, OpenEffect
  <2> QED BY <1>g, <1>s, <2>1, <2>2, <2>3, <2>4
<1>11. ASSUME NEW c \in Clients, CbClose(c) PROVE GotInv'
  <2>1. /\ cpc' = [cpc EXCEPT ![c] = "ended"] /\ conn[c] = "gone"
        /\ UNCHANGED <<wpc, conn>>
        /\ \A t \in Servers : \A d :
             Contains(vClient'[t], d) <=> Lists(t, d) /\ ~(t = inside[c] /\ d = c)
        /\ \A t \in Servers : vClient[t] # <<>> /\ vClient[t][1] # c =>
              vClient'[t] # <<>> /\ vClient'[t][1] = vClient[t][1]
    BY <1>11, CloseEffect
  <2>2. \A d \in Clients : cpc'[d] \in Before => cpc[d] \in Before
    BY <1>t, <2>1 DEF Before
  <2>3. \A t \in Servers : \A d \in Clients : Contains(vClient[t], d) => vClient[t] # <<>>
    BY DEF Contains
  <2> QED BY <1>g, <1>s, <2>1, <2>2, <2>3
<1>12. ASSUME NEW c \in Clients, Talk(c) PROVE GotInv'
  <2>1. /\ UNCHANGED <<wpc, conn, vClient>>
        /\ \A d \in Clients : cpc'[d] \in Before => cpc[d] \in Before
    BY <1>12 DEF Talk
  <2> QED BY <1>g, <1>s, <2>1
<1> QED BY <1>0, <1>1, <1>2, <1>3, <1>4, <1>5, <1>6, <1>8, <1>9, <1>10, <1>11,
           <1>12, StepKinds

\* The running start of a server is told from those of all others.
LEMMA OneServer ==
  ASSUME ServerType, TokenInv, ListInv, WriterInv,
         NEW s \in Servers, Active(s), NEW c \in Clients, context[c] = token[s],
         NEW t \in Servers, Lists(t, c)
  PROVE  t = s
<1>1. token[t] = token[s] /\ token[s] > 0
  BY DEF TokenInv, ListInv, WriterInv
<1> QED BY <1>1 DEF TokenInv, ServerType

\* The packet in hand goes to c, a client of s that is up to the cursor.
SendsTo(s, c) ==
  /\ Lists(s, c) /\ conn[c] = "open"
  /\ got[c] # <<>> => Latest(c) = <<s, cursor[s]>>
  /\ got' = [got EXCEPT ![c] = Append(@, <<s, iBp[s] + 1>>)]

\* sendPacket to the first client ...
LEMMA FrontEffect ==
  ASSUME WriterType, CallbackType, ListInv, WriterInv, GotInv,
         NEW s \in Servers, SendFront(s), conn[front[s]] = "open"
  PROVE  /\ front[s] \in Clients /\ front[s] = vClient[s][1]
         /\ SendsTo(s, front[s])
         /\ MovePast(s)
         /\ UNCHANGED <<wpc, fetched, toSend, bSent, missed>>
<1>1. /\ wpc[s] = "packet" /\ ~mode.broadcast
      /\ got' = [got EXCEPT ![front[s]] = Append(@, <<s, iBp[s] + 1>>)]
      /\ MovePast(s)
      /\ UNCHANGED <<wpc, fetched, toSend, bSent, missed>>
  BY DEF SendFront
<1>2. /\ front[s] \in Clients /\ vClient[s] # <<>> /\ vClient[s][1] = front[s]
  BY <1>1 DEF WriterInv
<1>3. Lists(s, front[s])
  <2>1. vClient[s] \in Seq(Clients)
    BY DEF CallbackType
  <2>2. 1 \in 1 .. Len(vClient[s])
    BY <1>2, <2>1
  <2> QED BY <1>2, <2>2 DEF Lists, Contains
<1>4. got[front[s]] # <<>> => Latest(front[s]) = <<s, cursor[s]>>
  BY <1>1, <1>2, <1>3 DEF GotInv, UpToDate, Active
<1> QED BY <1>1, <1>2, <1>3, <1>4 DEF SendsTo

\* ... and to one of all.
LEMMA EachEffect ==
  ASSUME ServerType, WriterType, TokenInv, ListInv, WriterInv, GotInv,
         NEW s \in Servers, NEW c \in Clients, SendTo(s, c),
         ioOpen[c], conn[c] = "open"
  PROVE  SendsTo(s, c)
<1>1. /\ wpc[s] = "send" /\ c \in toSend[s]
      /\ got' = [got EXCEPT ![c] = Append(@, <<s, iBp[s] + 1>>)]
  BY DEF SendTo
<1>2. context[c] = token[s] /\ Active(s)
  BY <1>1 DEF WriterInv, Active
<1>3. PICK t \in Servers : Lists(t, c)
  BY DEF ListInv
<1>4. Lists(s, c)
  BY <1>2, <1>3, OneServer
<1>5. got[c] # <<>> => Latest(c) = <<s, cursor[s]>>
  BY <1>1, <1>2, <1>4 DEF GotInv, UpToDate
<1> QED BY <1>1, <1>4, <1>5 DEF SendsTo

\* A packet that is sent is appended to what the client got, and follows it.
LEMMA SentPacket ==
  ASSUME WriterType, RingInv, NEW s \in Servers, NEW c \in Clients, SendsTo(s, c)
  PROVE  /\ \A d \in Clients : d # c => got'[d] = got[d]
         /\ got'[c] # <<>> /\ got'[c][Len(got'[c])] = <<s, iBp[s] + 1>>
         /\ Contains(got'[c], <<s, iBp[s] + 1>>)
         /\ \A d \in Clients : \A p : Contains(got[d], p) => Contains(got'[d], p)
         /\ (\A i \in 1 .. Len(got[c]) - 1 :
               Follows(got[c][i], got[c][i + 1], missed))
            => \A i \in 1 .. Len(got'[c]) - 1 :
                 Follows(got'[c][i], got'[c][i + 1], missed)
<1> DEFINE g == got[c]
           h == got'[c]
           n == Len(g)
           k == <<s, iBp[s] + 1>>
           Entry == Servers \X (1 .. MaxPackets)
<1>0. Follows(<<s, cursor[s]>>, k, missed)
  <2>1. /\ cursor[s] \in Nat /\ iBp[s] \in Nat /\ cursor[s] <= iBp[s]
        /\ cursor[s] + 1 .. iBp[s] \subseteq missed[s]
    BY DEF WriterType, RingInv
  <2>2. /\ (iBp[s] + 1) - 1 = iBp[s]
        /\ cursor[s] < iBp[s] + 1
    BY <2>1
  <2> QED BY <2>1, <2>2 DEF Follows
<1>1. /\ got' = [got EXCEPT ![c] = Append(@, k)]
      /\ g # <<>> => g[n] = <<s, cursor[s]>>
  BY DEF SendsTo, Latest
<1>2. g \in Seq(Entry)
  BY DEF WriterType
<1>3. /\ h = Append(g, k)
      /\ \A d \in Clients : d # c => got'[d] = got[d]
  BY <1>1 DEF WriterType
<1> HIDE DEF g, h, k, Entry
<1>4. /\ n \in Nat /\ Len(h) = n + 1 /\ h[n + 1] = k
      /\ \A i \in 1 .. n : h[i] = g[i]
      /\ h # <<>> /\ (g # <<>> => n > 0) /\ (n > 0 => g # <<>>)
  BY <1>2, <1>3
<1> HIDE DEF n
<1>5. Contains(h, k)
  <2>1. n + 1 \in 1 .. Len(h)
    BY <1>4
  <2> QED BY <1>4, <2>1 DEF Contains
<1>6. ASSUME NEW p, Contains(g, p) PROVE Contains(h, p)
  <2>1. PICK i \in 1 .. n : g[i] = p
    BY <1>6 DEF Contains, n
  <2>2. i \in 1 .. Len(h) /\ h[i] = p
    BY <1>4, <2>1
  <2> QED BY <2>2 DEF Contains
<1>7. ASSUME \A i \in 1 .. n - 1 : Follows(g[i], g[i + 1], missed),
             NEW i \in 1 .. Len(h) - 1
      PROVE  Follows(h[i], h[i + 1], missed)
  <2>1. i \in 1 .. n /\ n > 0
    BY <1>4, <1>7
  <2>2. CASE i = n
    <3>1. h[i] = <<s, cursor[s]>> /\ h[i + 1] = k
      BY <1>1, <1>4, <2>1, <2>2
    <3> QED BY <1>0, <3>1
  <2>3. CASE i # n
    <3>1. i \in 1 .. n - 1 /\ i + 1 \in 1 .. n
      BY <1>4, <2>1, <2>3
    <3>2. h[i] = g[i] /\ h[i + 1] = g[i + 1]
      BY <1>4, <2>1, <3>1
    <3> QED BY <1>7, <3>1, <3>2
  <2> QED BY <2>2, <2>3
<1>8. \A d \in Clients : \A p : Contains(got[d], p) => Contains(got'[d], p)
  <2> SUFFICES ASSUME NEW d \in Clients, NEW p, Contains(got[d], p)
               PROVE  Contains(got'[d], p)
    OBVIOUS
  <2>1. CASE d = c
    BY <1>6, <2>1 DEF g, h
  <2>2. CASE d # c
    BY <1>3, <2>2
  <2> QED BY <2>1, <2>2
<1> QED BY <1>3, <1>4, <1>5, <1>7, <1>8 DEF g, h, n, k

LEMMA GotWrites ==
  ASSUME IInv, WriterType, CallbackType, TokenInv, ListInv, RingInv, WriterInv,
         GotInv, NEW s \in Servers, Writer(s)
  PROVE  GotInv'
<1>0. ServerType /\ InsideInv
  BY DEF IInv
<1>1. /\ UNCHANGED <<mode, token, vClient, conn, context, cpc, ioOpen>>
      /\ \A t \in Servers : t # s => wpc'[t] = wpc[t]
      /\ Active(s)
  BY <1>0, WriterKeeps
<1>2. wpc \in [Servers -> WriterPCs]
  BY <1>0 DEF ServerType
<1> DEFINE Others == \A t \in Servers : t # s =>
             /\ toSend'[t] = toSend[t] /\ bSent'[t] = bSent[t]
             /\ cursor'[t] = cursor[t] /\ iBp'[t] = iBp[t]
           Mine == \A c \in Clients :
             /\ wpc'[s] \in {"pass", "packet", "send"}
             /\ Lists(s, c) /\ conn[c] = "open" /\ got'[c] # <<>>
             => UpToDate(s, c)'
\* It suffices to look at the clients of s.
<1>g. ASSUME Others, Mine,
             UNCHANGED got \/ \E c \in Clients : SendsTo(s, c)
      PROVE  GotInv'
  <2>1. ASSUME NEW c \in Clients, got'[c] # got[c] PROVE Lists(s, c)
    BY <1>g, <2>1, SentPacket DEF SendsTo
  <2>2. ASSUME NEW c \in Clients, cpc'[c] \in Before PROVE got'[c] = <<>>
    <3>1. cpc[c] \in Before
      BY <1>1, <2>2
    <3>2. got'[c] = got[c]
      BY <2>1, <3>1 DEF ListInv
    <3> QED BY <3>1, <3>2 DEF GotInv
  <2>3. ASSUME NEW t \in Servers, NEW c \in Clients, Active(t)', Lists(t, c)',
               conn'[c] = "open", got'[c] # <<>>
        PROVE  UpToDate(t, c)'
    <3>1. Lists(t, c) /\ conn[c] = "open"
      BY <1>1, <2>3 DEF Lists
    <3>2. CASE t = s
      BY <1>g, <2>3, <3>1, <3>2 DEF Active
    <3>3. CASE t # s
      <4>1. ~Lists(s, c)
        <5>1. SUFFICES ASSUME Lists(s, c) PROVE FALSE
          OBVIOUS
        <5>2. context[c] = token[s]
          BY <5>1 DEF ListInv
        <5> QED BY <1>0, <1>1, <3>1, <3>3, <5>2, OneServer
      <4>2. got'[c] = got[c]
        BY <2>1, <4>1
      <4>3. /\ wpc'[t] = wpc[t] /\ toSend'[t] = toSend[t]
            /\ bSent'[t] = bSent[t]
            /\ cursor'[t] = cursor[t] /\ iBp'[t] = iBp[t]
        BY <1>1, <1>g, <3>3
      <4>4. UpToDate(t, c)
        BY <2>3, <3>1, <4>2, <4>3 DEF GotInv, Active
      <4> QED BY <1>1, <4>2, <4>3, <4>4 DEF UpToDate, Latest
    <3> QED BY <3>2, <3>3
  <2> QED BY <2>2, <2>3 DEF GotInv
<1>t. iBp = [t \in Servers |-> iBp[t]]
  BY DEF WriterType
<1>3. CASE /\ UNCHANGED <<got, cursor, toSend, bSent>> /\ Others
           /\ \/ wpc'[s] = "ended"
              \/ wpc[s] # "send" /\ wpc'[s] # "send"
  <2>1. Mine
    BY <1>1, <1>3 DEF GotInv, UpToDate, Latest, Lists
  <2> QED BY <1>3, <1>g, <2>1
<1>4. CASE Pass(s) \/ End(s) \/ PassEnds(s)
  <2>1. CASE Pass(s)
    <3>1. \A t \in Servers : t # s => iBp'[t] = iBp[t]
      BY <1>t, <2>1, PassEffect
    <3> QED BY <1>2, <1>3, <2>1, <3>1 DEF Pass
  <2> QED BY <1>2, <1>3, <1>4, <2>1 DEF End, PassEnds
<1>5. CASE SendFront(s) /\ conn[front[s]] # "open"
  BY <1>2, <1>3, <1>5 DEF SendFront
<1>6. CASE SendFront(s) /\ conn[front[s]] = "open"
  <2> DEFINE f == front[s]
  <2>1. /\ f \in Clients /\ f = vClient[s][1] /\ SendsTo(s, f)
        /\ cursor' = [cursor EXCEPT ![s] = iBp[s] + 1]
        /\ iBp' = [iBp EXCEPT ![s] = @ + 1]
        /\ UNCHANGED <<wpc, toSend, bSent>>
    BY <1>6, FrontEffect DEF MovePast
  <2>2. wpc[s] = "packet" /\ ~mode.broadcast
    BY <1>6 DEF SendFront
  <2> HIDE DEF f
  <2>3. /\ \A t \in Servers : t # s => cursor'[t] = cursor[t] /\ iBp'[t] = iBp[t]
        /\ cursor'[s] = iBp[s] + 1
    BY <2>1 DEF WriterType
  <2>4. /\ got'[f][Len(got'[f])] = <<s, iBp[s] + 1>>
        /\ \A d \in Clients : d # f => got'[d] = got[d]
    BY <2>1, SentPacket
  <2>5. ASSUME NEW c \in Clients, Lists(s, c), conn[c] = "open", got'[c] # <<>>
        PROVE  UpToDate(s, c)'
    <3>1. c = f
      <4>1. SUFFICES ASSUME c # f PROVE FALSE
        OBVIOUS
      <4>2. got[c] # <<>>
        BY <2>4, <2>5, <4>1
      <4> QED BY <1>1, <2>1, <2>2, <2>5, <4>1, <4>2 DEF GotInv, UpToDate
    <3> QED BY <1>1, <2>1, <2>2, <2>3, <2>4, <3>1 DEF UpToDate, Latest
  <2> QED BY <1>g, <2>1, <2>3, <2>5
<1>7. CASE Broadcast(s)
  <2>1. /\ wpc[s] = "packet" /\ mode.broadcast
        /\ toSend' = [toSend EXCEPT ![s] = ToSet(vClient[s])]
        /\ bSent' = [bSent EXCEPT ![s] = FALSE]
        /\ UNCHANGED <<cursor, iBp, got>>
    BY <1>7 DEF Broadcast
  <2>2. Others /\ toSend'[s] = ToSet(vClient[s])
    BY <2>1 DEF WriterType
  <2>3. \A c : Lists(s, c) => c \in toSend'[s]
    <3>1. DOMAIN vClient[s] = 1 .. Len(vClient[s])
      BY DEF CallbackType
    <3> QED BY <2>2, <3>1 DEF Lists, Contains, ToSet
  <2>4. Mine
    BY <1>1, <2>1, <2>3 DEF GotInv, UpToDate, Latest, Lists
  <2> QED BY <1>g, <2>1, <2>2, <2>4
<1>8. ASSUME NEW c \in Clients, SendTo(s, c) PROVE GotInv'
  <2>1. /\ wpc[s] = "send" /\ UNCHANGED <<wpc, cursor, iBp>>
        /\ toSend' = [toSend EXCEPT ![s] = @ \ {c}]
    BY <1>8 DEF SendTo
  <2>2. mode.broadcast
    BY <2>1 DEF WriterInv
  <2>3. /\ \A t \in Servers : t # s => toSend'[t] = toSend[t]
        /\ toSend'[s] = toSend[s] \ {c}
    BY <2>1 DEF WriterType
  <2>4. CASE ioOpen[c] /\ conn[c] = "open"
    <3>1. SendsTo(s, c) /\ bSent' = [bSent EXCEPT ![s] = TRUE]
      BY <1>0, <1>8, <2>4, EachEffect DEF SendTo
    <3>2. /\ \A t \in Servers : t # s => bSent'[t] = bSent[t]
          /\ bSent'[s]
      BY <3>1 DEF WriterType
    <3>3. /\ got'[c][Len(got'[c])] = <<s, iBp[s] + 1>>
          /\ \A d \in Clients : d # c => got'[d] = got[d]
      BY <3>1, SentPacket
    <3>4. ASSUME NEW d \in Clients, Lists(s, d), conn[d] = "open", got'[d] # <<>>
          PROVE  UpToDate(s, d)'
      <4>1. CASE d = c
        BY <1>1, <2>1, <2>2, <2>3, <3>2, <3>3, <4>1 DEF UpToDate, Latest
      <4>2. CASE d # c
        <5>1. UpToDate(s, d) /\ got'[d] = got[d]
          BY <1>1, <3>3, <3>4, <4>2 DEF GotInv
        <5> QED BY <1>1, <2>1, <2>2, <2>3, <3>2, <4>2, <5>1 DEF UpToDate, Latest
      <4> QED BY <4>1, <4>2
    <3> QED BY <1>g, <2>1, <2>3, <3>1, <3>2, <3>4
  <2>5. CASE ~(ioOpen[c] /\ conn[c] = "open")
    <3>1. UNCHANGED <<got, bSent>>
      BY <1>8, <2>5 DEF SendTo
    <3>2. ASSUME NEW d \in Clients, Lists(s, d), conn[d] = "open", got'[d] # <<>>
          PROVE  UpToDate(s, d)'
      <4>1. d # c
        BY <2>5, <3>2 DEF ListInv
      <4>2. UpToDate(s, d)
        BY <1>1, <3>1, <3>2 DEF GotInv
      <4> QED BY <1>1, <2>1, <2>2, <2>3, <3>1, <4>1, <4>2 DEF UpToDate, Latest
    <3> QED BY <1>g, <2>1, <2>3, <3>1, <3>2
  <2> QED BY <2>4, <2>5
<1>9. CASE SendNext(s)
  <2>1. /\ wpc[s] = "send" /\ toSend[s] = {} /\ UNCHANGED <<toSend, bSent, got>>
        /\ IF bSent[s]
           THEN /\ cursor' = [cursor EXCEPT ![s] = iBp[s] + 1]
                /\ iBp' = [iBp EXCEPT ![s] = @ + 1]
                /\ wpc' = [wpc EXCEPT ![s] = "packet"]
           ELSE /\ wpc' = [wpc EXCEPT ![s] = "pass"]
                /\ UNCHANGED <<iBp, cursor>>
    BY <1>9 DEF SendNext, MovePast
  <2>2. mode.broadcast
    BY <2>1 DEF WriterInv
  <2>3. /\ \A t \in Servers : t # s => cursor'[t] = cursor[t] /\ iBp'[t] = iBp[t]
        /\ bSent[s] => cursor'[s] = iBp[s] + 1 /\ wpc'[s] = "packet"
    BY <1>2, <2>1 DEF WriterType
  <2>4. ASSUME NEW c \in Clients, Lists(s, c), conn[c] = "open", got'[c] # <<>>
        PROVE  UpToDate(s, c)'
    <3>1. bSent[s] /\ Latest(c) = <<s, iBp[s] + 1>>
      BY <1>1, <2>1, <2>4 DEF GotInv, UpToDate
    <3> QED BY <1>1, <2>1, <2>2, <2>3, <3>1 DEF UpToDate, Latest
  <2> QED BY <1>g, <2>1, <2>3, <2>4
<1> QED BY <1>4, <1>5, <1>6, <1>7, <1>8, <1>9 DEF Writer

LEMMA SentOthersStep ==
  /\ IInv /\ OwnerType /\ SentInv /\ PacketsAreSentOnce
  /\ [Next]_vars /\ UNCHANGED Sending /\ (\A s \in Servers : ~Writer(s))
  => (SentInv /\ PacketsAreSentOnce)'
<1> SUFFICES ASSUME IInv, OwnerType, SentInv, PacketsAreSentOnce,
                    [Next]_vars, UNCHANGED Sending,
                    \A s \in Servers : ~Writer(s)
             PROVE  (SentInv /\ PacketsAreSentOnce)'
  OBVIOUS
<1>0. ServerType /\ InsideInv
  BY DEF IInv
<1>1. \A s \in Servers : wpc'[s] = "send" => wpc[s] = "send"
  <2> USE DEF globalVars, ownerVars, writerVars, clientVars, sharedVars
  <2>1. CASE UNCHANGED wpc
    BY <2>1
  <2>2. ASSUME NEW s \in Servers, StartWorkers(s) \/ StartFails(s) \/ LoadConfig(s)
        PROVE  \A t \in Servers : wpc'[t] = "send" => wpc[t] = "send"
    <3>1. wpc' \in {[wpc EXCEPT ![s] = "pass"], [wpc EXCEPT ![s] = "none"]}
      BY <2>2 DEF StartWorkers, StartFails, LoadConfig
    <3> QED BY <1>0, <3>1 DEF ServerType
  <2>3. CASE UNCHANGED vars
    BY <2>1, <2>3 DEF vars
  <2>4. ASSUME NEW s \in Servers, Start(s) \/ Minor(s) \/ StopEnds(s)
        PROVE  UNCHANGED wpc
    BY <2>4 DEF Start, Minor, StopEnds
  <2>5. ASSUME NEW c \in Clients,
               \/ (\E s \in Servers : Connect(c, s)) \/ Disconnect(c)
               \/ CbOpen(c) \/ CbClose(c) \/ Talk(c)
        PROVE  UNCHANGED wpc
    BY <2>5 DEF Connect, Disconnect, CbOpen, CbClose, Talk
  <2> QED BY <1>0, <2>1, <2>2, <2>3, <2>4, <2>5, StepKinds
<1>2. UNCHANGED <<got, missed, fetched, cursor, iBp, bSent>>
  BY DEF Sending
<1>3. SentInv'
  BY <1>1, <1>2 DEF SentInv, HasGot
<1>4. PacketsAreSentOnce'
  BY <1>2 DEF PacketsAreSentOnce, HasGot
<1> QED BY <1>3, <1>4

\* The writer advances its cursor over a packet only when someone has it, or it
\* was missed.
LEMMA SentWrites ==
  ASSUME IInv, WriterType, CallbackType, TokenInv, ListInv, RingInv, WriterInv,
         GotInv, SentInv, PacketsAreSentOnce, NEW s \in Servers, Writer(s)
  PROVE  (SentInv /\ PacketsAreSentOnce)'
<1>0. ServerType
  BY DEF IInv
<1>1. \A t \in Servers : t # s => wpc'[t] = wpc[t]
  BY <1>0, WriterFrame
<1>t. /\ wpc \in [Servers -> WriterPCs]
      /\ cursor \in [Servers -> Nat] /\ bSent \in [Servers -> BOOLEAN]
      /\ iBp \in [Servers -> Nat] /\ fetched \in [Servers -> Nat]
      /\ missed = [t \in Servers |-> missed[t]]
      /\ cursor[s] <= iBp[s]
  BY <1>0, ServerAssumption DEF ServerType, WriterType, RingInv
<1> DEFINE InOrder == \A c \in Clients : \A i \in 1 .. Len(got'[c]) - 1 :
                        Follows(got'[c][i], got'[c][i + 1], missed')
           More == \A c \in Clients : \A p :
                     Contains(got[c], p) => Contains(got'[c], p)
           Missed == \A t \in Servers : /\ missed[t] \subseteq missed'[t]
                                        /\ \A p \in missed'[t] : p + Capacity <= fetched'[t]
           Others == \A t \in Servers : t # s =>
             cursor'[t] = cursor[t] /\ bSent'[t] = bSent[t] /\ iBp'[t] = iBp[t]
\* It suffices to look at the packet in hand.
<1>g. ASSUME InOrder, More, Missed, Others,
             NEW q, q = iBp[s] + 1,
             cursor'[s] = cursor[s] \/ (cursor'[s] = q /\ HasGot(s, q)'),
             wpc'[s] = "send" /\ bSent'[s] => iBp'[s] = iBp[s] /\ HasGot(s, q)'
      PROVE  (SentInv /\ PacketsAreSentOnce)'
  <2>1. ASSUME NEW t \in Servers, NEW p, HasGot(t, p) PROVE HasGot(t, p)'
    BY <1>g, <2>1 DEF HasGot
  <2>2. ASSUME NEW t \in Servers, wpc'[t] = "send", bSent'[t]
        PROVE  HasGot(t, iBp[t] + 1)'
    <3>1. CASE t = s
      BY <1>g, <2>2, <3>1 DEF HasGot
    <3>2. CASE t # s
      <4>1. HasGot(t, iBp[t] + 1) /\ iBp'[t] = iBp[t]
        BY <1>1, <1>g, <2>2, <3>2 DEF SentInv
      <4> QED BY <2>1, <4>1 DEF HasGot
    <3> QED BY <3>1, <3>2
  <2>3. SentInv'
    BY <2>2 DEF SentInv
  <2>4. ASSUME NEW t \in Servers, NEW p \in 1 .. cursor'[t]
        PROVE  p \in missed'[t] \/ HasGot(t, p)'
    <3>1. CASE p \in 1 .. cursor[t]
      <4>1. p \in missed[t] \/ HasGot(t, p)
        BY <3>1 DEF PacketsAreSentOnce
      <4> QED BY <1>g, <2>1, <4>1
    <3>2. CASE p \notin 1 .. cursor[t]
      <4>1. t = s
        BY <1>g, <2>4, <3>2
      <4>2. cursor'[s] = q /\ HasGot(s, q)'
        BY <1>g, <2>4, <3>2, <4>1
      <4>3. CASE p = q
        BY <4>1, <4>2, <4>3
      <4>4. CASE p # q
        <5>1. p \in cursor[s] + 1 .. iBp[s]
          <6>1. /\ p \in 1 .. iBp[s] + 1 /\ p # iBp[s] + 1
                /\ p \notin 1 .. cursor[s]
            BY <1>g, <2>4, <3>2, <4>1, <4>2, <4>4
          <6>2. cursor[s] \in Nat /\ iBp[s] \in Nat
            BY <1>t
          <6> QED BY <6>1, <6>2
        <5> QED BY <1>g, <4>1, <5>1 DEF RingInv
      <4> QED BY <4>3, <4>4
    <3> QED BY <3>1, <3>2
  <2>5. PacketsAreSentOnce'
    <3> HIDE DEF Others, More
    <3>1. \A c \in Clients : \A i \in 1 .. Len(got'[c]) - 1 :
            Follows(got'[c][i], got'[c][i + 1], missed')
      BY <1>g
    <3>2. \A t \in Servers : \A p \in missed'[t] : p + Capacity <= fetched'[t]
      BY <1>g
    <3> HIDE DEF InOrder, Missed
    <3> QED BY <2>4, <3>1, <3>2 DEF PacketsAreSentOnce, Follows
  <2> QED BY <2>3, <2>5
<1>o. \A c \in Clients : \A i \in 1 .. Len(got[c]) - 1 :
        Follows(got[c][i], got[c][i + 1], missed)
  BY DEF PacketsAreSentOnce, Follows
<1>m. UNCHANGED <<missed, fetched>> => Missed
  BY DEF PacketsAreSentOnce
<1>a. UNCHANGED <<got, missed>> => InOrder /\ More
  BY <1>o
<1>b. ASSUME NEW c \in Clients, SendsTo(s, c), UNCHANGED missed
      PROVE  /\ InOrder /\ More
             /\ \E q : q = iBp[s] + 1 /\ HasGot(s, q)'
  <2>1. /\ \A d \in Clients : d # c => got'[d] = got[d]
        /\ Contains(got'[c], <<s, iBp[s] + 1>>)
        /\ More
        /\ \A i \in 1 .. Len(got'[c]) - 1 :
             Follows(got'[c][i], got'[c][i + 1], missed)
    BY <1>b, <1>o, SentPacket
  <2>2. InOrder
    BY <1>b, <1>o, <2>1
  <2>3. PICK q : q = iBp[s] + 1
    OBVIOUS
  <2>4. HasGot(s, q)'
    BY <2>1, <2>3 DEF HasGot
  <2> QED BY <2>1, <2>2, <2>3, <2>4
<1>3. CASE Pass(s)
  <2>1. UNCHANGED <<got, cursor, bSent>> /\ wpc'[s] # "send"
    BY <1>3, <1>t DEF Pass
  <2>2. PICK n \in fetched[s] .. MaxPackets, b \in 0 .. MaxPackets :
          /\ fetched' = [fetched EXCEPT ![s] = n]
          /\ iBp' = [iBp EXCEPT ![s] = b]
          /\ missed' = [missed EXCEPT ![s] = @ \cup (cursor[s] + 1 .. b)]
          /\ \A p \in cursor[s] + 1 .. b : p + Capacity <= n
    BY <1>3, PassEffect
  <2>3. \A t \in Servers : /\ missed[t] \subseteq missed'[t]
                           /\ t # s => missed'[t] = missed[t] /\ fetched'[t] = fetched[t]
    BY <1>t, <2>2
  <2>4. \A p \in missed'[s] : p + Capacity <= fetched'[s]
    <3>1. fetched'[s] = n /\ missed'[s] = missed[s] \cup (cursor[s] + 1 .. b)
      BY <1>t, <2>2
    <3>2. \A p \in missed[s] : p \in Nat /\ p + Capacity <= fetched[s]
      BY DEF PacketsAreSentOnce, WriterType
    <3>3. fetched[s] <= n /\ fetched[s] \in Nat /\ n \in Nat /\ Capacity \in Nat
      BY <1>t, ServerAssumption
    <3>4. \A p \in missed[s] : p + Capacity <= n
      BY <3>2, <3>3
    <3> QED BY <2>2, <3>1, <3>4
  <2>5. Missed
    BY <2>3, <2>4 DEF PacketsAreSentOnce
  <2>6. InOrder /\ More
    <3> SUFFICES ASSUME NEW c \in Clients, NEW i \in 1 .. Len(got[c]) - 1
                 PROVE  Follows(got[c][i], got[c][i + 1], missed')
      BY <2>1
    <3>1. got[c][i + 1] \in Servers \X (1 .. MaxPackets)
      BY DEF WriterType
    <3>2. got[c][i + 1][1] \in Servers
      BY <3>1
    <3> QED BY <1>o, <2>3, <3>2 DEF Follows
  <2>7. Others
    BY <1>t, <2>1, <2>2
  <2> HIDE DEF InOrder, More, Missed, Others
  <2> QED BY <1>g, <2>1, <2>5, <2>6, <2>7
<1> HIDE DEF InOrder, More, Missed
<1>4. CASE \/ End(s) \/ PassEnds(s)
           \/ SendFront(s) /\ conn[front[s]] # "open"
  <2>1. /\ UNCHANGED <<got, cursor, iBp, bSent, fetched, missed>> /\ wpc'[s] # "send"
    BY <1>4, <1>t DEF End, PassEnds, SendFront, globalVars, ownerVars,
       writerVars, clientVars, sharedVars
  <2> QED BY <1>a, <1>g, <1>m, <2>1
<1>5. CASE SendFront(s) /\ conn[front[s]] = "open"
  <2>1. /\ front[s] \in Clients /\ SendsTo(s, front[s])
        /\ MovePast(s)
        /\ UNCHANGED <<wpc, fetched, toSend, bSent, missed>>
    BY <1>5, FrontEffect
  <2>2. wpc[s] = "packet"
    BY <1>5 DEF SendFront
  <2>3. Others /\ cursor'[s] = iBp[s] + 1 /\ wpc'[s] # "send"
    BY <1>t, <2>1, <2>2 DEF MovePast
  <2> HIDE DEF Others
  <2> QED BY <1>b, <1>g, <1>m, <2>1, <2>3
<1>6. CASE Broadcast(s)
  <2>1. /\ bSent' = [bSent EXCEPT ![s] = FALSE]
        /\ UNCHANGED <<got, cursor, iBp, fetched, missed>>
    BY <1>6 DEF Broadcast
  <2>2. Others /\ ~bSent'[s]
    BY <1>t, <2>1
  <2> QED BY <1>a, <1>g, <1>m, <2>1, <2>2
<1>7. ASSUME NEW c \in Clients, SendTo(s, c)
      PROVE  (SentInv /\ PacketsAreSentOnce)'
  <2>1. wpc[s] = "send" /\ UNCHANGED <<wpc, cursor, iBp, fetched, missed>>
    BY <1>7 DEF SendTo
  <2>2. CASE ioOpen[c] /\ conn[c] = "open"
    <3>1. SendsTo(s, c) /\ bSent' = [bSent EXCEPT ![s] = TRUE]
      BY <1>0, <1>7, <2>2, EachEffect DEF SendTo
    <3>2. Others
      BY <1>t, <2>1, <3>1
    <3> QED BY <1>b, <1>g, <1>m, <2>1, <3>1, <3>2
  <2>3. CASE ~(ioOpen[c] /\ conn[c] = "open")
    <3>1. UNCHANGED <<got, bSent>>
      BY <1>7, <2>3 DEF SendTo
    <3>2. bSent[s] => HasGot(s, iBp[s] + 1)
      BY <2>1 DEF SentInv
    <3>3. \A q : q = iBp[s] + 1 /\ bSent[s] => HasGot(s, q)'
      BY <3>1, <3>2 DEF HasGot
    <3> QED BY <1>a, <1>g, <1>m, <2>1, <3>1, <3>3
  <2> QED BY <2>2, <2>3
<1>8. CASE SendNext(s)
  <2>1. /\ wpc[s] = "send" /\ UNCHANGED <<toSend, bSent, got, fetched, missed>>
        /\ IF bSent[s]
           THEN /\ cursor' = [cursor EXCEPT ![s] = iBp[s] + 1]
                /\ iBp' = [iBp EXCEPT ![s] = @ + 1]
                /\ wpc' = [wpc EXCEPT ![s] = "packet"]
           ELSE /\ wpc' = [wpc EXCEPT ![s] = "pass"]
                /\ UNCHANGED <<iBp, cursor>>
    BY <1>8 DEF SendNext, MovePast
  <2>2. /\ Others /\ wpc'[s] # "send"
        /\ IF bSent[s] THEN cursor'[s] = iBp[s] + 1 ELSE cursor'[s] = cursor[s]
    BY <1>t, <2>1
  <2>3. bSent[s] => HasGot(s, iBp[s] + 1)
    BY <2>1 DEF SentInv
  <2>4. \A q : q = iBp[s] + 1 /\ bSent[s] => HasGot(s, q)'
    BY <2>1, <2>3 DEF HasGot
  <2> HIDE DEF Others
  <2> QED BY <1>a, <1>g, <1>m, <2>1, <2>2, <2>4
<1> QED BY <1>3, <1>4, <1>5, <1>6, <1>7, <1>8 DEF Writer

LEMMA NextSInv == IInv /\ SInv /\ [Next]_vars => SInv'
<1> SUFFICES ASSUME IInv, SInv, [Next]_vars PROVE SInv'
  OBVIOUS
<1>1. OwnerType' /\ CallbackType' /\ TokenInv' /\ ListInv'
  BY OwnerTypeStep, CallbackTypeStep, TokenStep, ListStep DEF SInv
<1>2. WriterType' /\ RingInv' /\ WriterInv'
  BY WriterTypeStep, RingStep, WriterInvStep DEF SInv
<1>3. GotInv' /\ SentInv' /\ PacketsAreSentOnce'
  <2>1. CASE \E s \in Servers : Writer(s)
    BY <2>1, GotWrites, SentWrites DEF SInv
  <2>2. CASE ~\E s \in Servers : Writer(s)
    <3>1. UNCHANGED Sending
      BY <2>2, OthersKeep DEF SInv
    <3> QED BY <2>2, <3>1, GotOthersStep, SentOthersStep DEF SInv
  <2> QED BY <2>1, <2>2
<1> QED BY <1>1, <1>2, <1>3 DEF SInv

LEMMA SendingInvariance == Spec => []SInv
<1> QED BY InitSInv, NextSInv, Invariance, PTL DEF Spec

\* Every variable of the server module keeps to its type, whatever the number
\* of servers and connections; the list that cbOpen and cbClose keep never
\* names a client twice, so that closing it once removes it.
THEOREM TypeCorrect == Spec => []TypeOK
<1>1. IInv /\ SInv => TypeOK
  <2> SUFFICES ASSUME IInv, SInv PROVE TypeOK
    OBVIOUS
  <2>1. ServerType /\ OwnerType /\ WriterType /\ CallbackType
    BY DEF IInv, SInv
  <2>2. \A c \in Clients : got[c] \in Seq(Servers \X (1 .. MaxPackets))
    BY <2>1 DEF WriterType
  <2> QED BY <2>1, <2>2 DEF TypeOK, ServerType, OwnerType, WriterType,
          CallbackType, OwnerPCs, WriterPCs, ClientPCs
<1> QED BY <1>1, Invariance, SendingInvariance, PTL

\* _WebSocketServer::updateW, sendPacket: whoever connects, leaves or fails
\* while packets are sent, to the first client or to all, what any one client
\* got comes from one server, in order and without repetition; the writer moves
\* on from a packet only when somebody got it, or when the ring of the input
\* stream, however long, no longer held it.
THEOREM PacketsAreAlwaysSentOnce == Spec => []PacketsAreSentOnce
<1>1. SInv => PacketsAreSentOnce
  BY DEF SInv
<1> QED BY <1>1, SendingInvariance, PTL
=============================================================================
