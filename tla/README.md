# OpenKAI: TLA+ models, checks and proofs

OpenKAI is a C++ framework for robots: a JSON file names modules (transports,
protocol codecs, sensors, autopilots, detectors, viewers) and data objects that
connect them; every module runs one or two worker threads.  This directory
models the part of it that is shared by all modules and hard to test: the worker
threads, the streams between them, the transports that reconnect, the browsers
that are served, and the life of a whole instance.

## Inventory of the system

| Component | State it keeps | Operations | Interaction | What makes it hard | What makes it correct |
|---|---|---|---|---|---|
| `Base/_Thread`, `_ModuleBase` | requested state, reported state, wake-up mutex and condition, update counters | startThread, run, pause, stop, join, catchUp, autoFPS, sleepT, destructor | callers write atomics and signal; the worker polls and sleeps | signals without the mutex, requests overwriting each other, spurious wake-ups, cancellation | a stop is never slept through; bStopped() is truthful; a pause takes hold |
| `DataObject/DataObjStream`, `BytePacketStream`, `CANframeStream`, `IMUstream` | ring of elements, write index, time stamp | add, get (by cursor), clear, loadConfig | many producers, many readers, each reader keeps a time stamp as its cursor | stamps taken before the lock, ring overrun, clear under a reader | readers see elements in order, once, and lose only what was overwritten |
| `DataObject/MavlinkStream` | decoded message slots, outgoing queue, last queue stamp | decode, add, cl* commands, getEncodedMsgs, clearMsgQueue | autopilots add, `_Mavlink` writer reads by cursor | stamps must stay strictly monotone though the clock does not | each queued message is sent once, in order |
| `IO/_IObase` and transports (`_TCPclient`, `_SerialPort`, `_UDP`, `_TCPserver`) | descriptor, connection generation, pending packet and offset, cursor | open, close, readPackets, writePackets, writePending, start, stop, pause | a reader and a writer thread share a connection under a shared mutex | an error seen on an old connection, partial writes, reconnects in the middle of a packet | a stale error never closes a new connection; a packet is sent whole on one connection |
| `IO/_WebSocketServer` | clients, queues, pause and stop flags | start, pause, resume, stop, callbacks, sendPacket | library threads call back into the module | draining callbacks that block in a pause | stop returns; packets of a client stay in order |
| `IO/WebSocketStream` | snapshot and version, per-session flow control | publish, accept, read, send, stop | publisher thread, one network thread, browsers that acknowledge | coalescing, acknowledgement racing publication | one write in flight; the newest snapshot reaches every enabled browser |
| `Net/HttpServer`, `Net/_Uploader` | acceptor, sessions; list of files to upload | start, stop, session steps; scan, upload, pop | network thread; directory watcher | shutdown with open sessions; failed uploads | stop ends every session; a file is uploaded before it is removed |
| `Protocol/_ProtocolBase`, `_Mavlink`, `_JSONbase`, `_USR_CANET`, `_SocketCAN`, `_WSconsole` | parser state, cursors, two workers | start, stop, updateW, updateR | read bytes or frames from streams, write to others | half-started pairs of workers, retries, reconnection by error count | nothing is skipped by a cursor; stop ends both workers |
| `Navigation/_GeoFence`, `_RTCMcast`, `_GPS` | polygon and breach state; RTCM messages by identity | setters, evaluation; receive and rebroadcast | position module calls setters; RTCM reader and writer share a vector | stale positions; a vector that grows under a reader | fence status follows the last position; new corrections are sent |
| `Autopilot` (ArduPilot missions, follow, land, rover) | mission stage, targets, link to the flight controller | update of each stage, onPause | messages to and from the flight controller through MavlinkStream | modes changed by the pilot, lost messages | stage order; targets dropped when paused |
| `Actuator`, `_Modbus`, motor drivers | target and measured axes, stamps | setters, register reads and writes | serial bus | half-written commands | a command is not repeated nor lost |
| `Sensor/LiDAR/Livox/Livox1` | connection state, pending requests, configuration | service, receive, applyConfig, start, stop | UDP to one LiDAR; a console that changes the configuration | lost and late datagrams, restarts of the device, settings changed while a write is pending | what is reported as applied is in the device; flash is not worn |
| other `Sensor` (Livox2, Airy, E1R, distance sensors), `Vision` (RGBD cameras), `SLAM` (`_SLAMbase`, `_GLIM`) | protocol state of a device, frames, estimates | handshake, packet assembly, publication | byte streams in, point clouds and poses out | lost packets, device restarts, time synchronisation | a frame is assembled from one rotation; time goes forward |
| `Universe` (octree grid, transforms, geometry pipeline) | cells, parent and child transforms | add, refresh, select; setters, catchUp | point clouds in, grid frames out | consistent snapshots | published frames are consistent |
| `UI` (console, windows, web viewers), `Tracker`, `Detector`, `Compute`, `Solver`, `Filter`, `Tools`, `Utility`, `Primitive` | images, models, numeric state | per-frame algorithms | call libraries | numeric, not concurrent | numeric accuracy |
| `Instance/InstanceMgr`, `main` | modules, data objects | create, init, link, start, stop, clean | drives every module | partial failure, destruction while workers run | phases in order; nothing used after it is deleted |

## Modules

Each model cuts the code at its critical sections and at the points where a
thread reads or writes something another thread can change; what happens between
two such points is one action.  Payloads are numbers or names; time is a number
that may stand still; frame-rate arithmetic is a free choice of being early or
late.  History variables (`log`, `wire`, `passes`, `got`, `missed`) are read by properties
only and never guard an action.  Each module also holds the *mutants* of its
actions: the same action with one plausible mistake, used to show that a property
can fail.

| Module | Models | Composition |
|---|---|---|
| `Thread` | `_Thread.cpp`, `_ModuleBase.cpp` | the wake-up mechanism all workers of the other modules rely on |
| `PacketLog` | what a stream promises | abstract; refined by the next two |
| `DataObjStream` | `DataObjStream`, `BytePacketStream`, `CANframeStream`, and their producers | refines `PacketLog` |
| `MavlinkStream` | the outgoing queue of `MavlinkStream.cpp` and its `_Mavlink` readers | refines `PacketLog` |
| `Transport` | `_IObase.cpp`, `_TCPclient.cpp`, `_SerialPort.cpp` | reads the packets that a `DataObjStream` still holds, by their stamps |
| `WebSocketStream` | `WebSocketStream.cpp`, `_WebGeometry::publish`, `geometryConnection.js` | a producer, a network thread and browsers in one module |
| `WebSocketServer` | `_WebSocketServer.cpp` | owner, writer and library threads in one module |
| `Instance` | `main.cpp`, `InstanceMgr.cpp`, and how the modules start and end their workers | the main thread and the workers of all modules; a worker's control state is reduced to what `Thread` shows of it |
| `Livox1` | `_Livox1.cpp` but for the frames of points and IMU samples | driver, console, owner, network and (external) device |
| `Rings` | the reads by stamp that `DataObjStream` and `MavlinkStream` share, and what it is for a ring to be the end of a log | extended by both |
| `ThreadProofs`, `DataObjStreamProofs`, `MavlinkStreamProofs`, `TransportProofs`, `WebSocketStreamProofs`, `WebSocketServerProofs`, `InstanceProofs`, `Livox1Proofs` | | theorems about the module each is named after |
| `MC*` | | instances for TLC |

### Thread

`setState` is `m_setState` (what callers request), `state` is `m_state` (what they
are told), `mutex` is `m_wakeupMutex`; a worker with `pc = "waiting"` is blocked in
`pthread_cond_wait`.  The worker's loop is `LoopHead` (bRun), `AutoFPS` (the frame
budget), `SleepT` ... `SleepUnlock` (sleepT), `PauseCheck` (the end of autoFPS) and
`Work` (the body, with bOnPause).  A caller goes through `Run`, `CatchUpRead`,
`CatchUpWrite` and `RunSignal`, through `Pause`, or through the four steps of
`stop()`; the owner also through `Start`, `Create`, `Created`, `Join` and the
destructor.  `catchUp` reads and writes `m_iUpdate` in two steps, because the code
increments a plain integer.  `StopIsNotMissed` is the reason the code takes the
mutex in `stop()`; `StoppedMeansFinished` is what `_ModuleBase::start` and every
owner that deletes a module depend on; `SpuriousWakeup` wakes the
worker without a signal, as POSIX allows (`sleepT` waits outside any loop).
`PauseTakesEffect` bounds the passes after `pause()` by the signals still on their
way and the spurious wake-ups: the code does not promise that a paused worker makes
none.  Nor does it promise that every `run()` wakes the worker: `run()` signals
without the mutex, so the signal can fall between the pause check and the wait.  No
document of the repository says otherwise, so the lost wake-up is a hazard about
which nothing is claimed; it cannot touch a stop, which is signalled under the mutex.

### PacketLog, DataObjStream, MavlinkStream

`PacketLog` is the promise: a log in arrival order, of which the newest `Capacity`
since the last clear are kept, and reads that give every kept element once, in
order.  `DataObjStream` has the ring (`vElement`, `iBset`), batches that `add`
copies one element at a time under the unique lock, `get` under the shared lock and
`clear`, which keeps the stamps' watermark.  A producer stamps its elements before
it has the lock.  A read takes the places of the ring in their order, oldest first,
and of them those whose stamp is newer than the reader's cursor (`Rings!NewerPlaces`,
`Rings!Taken`); this is said with the set of those places and not with a filter, so
that it can be proved about.  `Watermarked` producers (`_USR_CANET`, `_SocketCAN`) force their
own stamps to increase; the others use the clock.  The refinement maps a reader's
cursor, a stamp, to its position in the log (`Rings!Position`); it holds for one watermarked producer
and is refuted for two that use the clock (see Findings).

`MavlinkStream` stamps under its lock, `max(clock, last + 1)`, which is why it
refines `PacketLog` for any number of senders and a clock that stands still.
Decoding of received messages is not modelled.

### Transport

The reader and the writer of a connection.  `wpc` and `rpc` say where they are;
`generation` is `m_connectionGeneration`, and `writeGen`, `readGen` are what a
worker remembers of it across the sections of the shared mutex.  `WriterSend` writes
some of the bytes left, or finds an error, on which the worker closes the connection
of *that* generation in a later step.  The writer alone reopens.  `Stop` and
`Start` join and create both workers, keeping the pending packet; `Close` is a call
from another module.  `wire` records what went out on each connection.

The writer's source is a bounded ring: `WriterFetch` returns those packets newer than
the cursor that are among the last `Capacity` added (`Behind`), as
`DataObjStream::get` does.  While a connection is down or a peer slow, packets are
overwritten and the cursor passes them by; `missed` records them.  So nothing here
promises that every packet is sent.  `CursorIsTruthful` says that a packet behind the
cursor was written completely *unless* the ring had overwritten it when the writer
asked, and `missed` cannot be an excuse for more: what is in it had `Capacity` newer
packets.  `RetainedPacketsAreSent` says that what the ring keeps long enough is written
in the end.

### WebSocketStream

`session[s]` holds the members of one `Session` with its outstanding operations;
`down` and `up` are the two directions of its connection.  All handlers run on the
one network thread: `Upgrade`, `Accept`, `WriteDone`, `Read`, `ReadError`; a
posted notification is `NotifyStart` and one `Notify` per session, since the
producer may publish in between.  `Begin`, `Finish` and `Publish` are the
producer, which overwrites a buffer that only the pool refers to.  `Receive`,
`Say` and `Leave` are browsers: the page of the repository answers each snapshot
with `next`; `Say` is any other client.

### WebSocketServer

`ctl[s]` follows the owner through `start`, `pause`, `resume` and the five parts of
`stop()`; `resume()` and `stop()` reset or set a flag under the read mutex and notify
after it, in two steps each (`Resume`, `ResumeNotify`; `Stop`, `StopNotify`), so that a
callback can wait for an end that has already come.  A connection has a library thread (`cpc`), which enters a callback only
if the server that the global pointer names has the connection's token; `inside`
says which server it is in, and a nonempty `inside` is the shared callback mutex.
`stop` and `start` take it exclusively (`NoCallbackRuns`).  `cbMessage` holds
`m_readMutex` from `Lock` to `Add` and gives it up while it waits.  The writer
visits a copy of the client list, in a broadcast one client after the other.  What it
sends comes from a bounded ring, as in `Transport` (`Behind`, `missed`): if nobody is
connected, or sends fail, packets are overwritten and passed over.
`PacketsAreSentOnce` says that a client gets its packets in order and without
repetition, and that a gap consists of overwritten packets only.  The packets to be
sent are numbered, that is, their producer is assumed to keep their stamps increasing;
what happens when it does not is `stream_two_senders`.

`Time` reads a clock that may stand still, and `cbMessage` keeps no watermark of its
own, unlike `_USR_CANET` and `MavlinkStream`.  So `StampsNeverDecrease` is what the read
mutex gives: messages are never added behind a reader's cursor by going back in time.
The strict order, which it would take for a reader never to skip input as the comment at
`_WebSocketServer.cpp:348-349` wants, does *not* hold: TLC refutes it in 17 steps, in
which two callbacks in turn do `Lock`, `Time` and `Add` at one reading of the clock.  The
stamps are equal and a reader that took the first message between the two never sees the
second.  Whether a nanosecond clock repeats is up to the platform; the hazard is listed
and no property claims that it cannot.
`LoadConfig` stands for a reload after a stop, which makes a new reader thread.

### Instance

`phase`, `at` and `step` are where the main thread is: the phases of `main()` in the
order of `After`, the module its loop has reached, and how far a call on that module
has got when the call can block or has parts a worker can come between.  `obj[m]` is
how much of a module there is; it is `hollow` from the moment its destructor has
begun, when the derived class's members go.  `worker[m][w]` keeps of a thread only whether it waits, makes a pass, or
has ended; `asked` is `m_setState = thread_stop`, `cancelled` is `pthread_cancel()`.
The modules differ in how they end their workers, and the constants say how: `Pairs`
have two, `Joiners` join in `stop()`, `LateJoiners` in their own destructor, and for
the rest the destructor of `_Thread` does, which runs after the derived class's
members are gone.  `Uses` says which modules the workers of a module call, `Wakes`
which of those they wake with `run()`: `Wake` then takes back a stop, because `run()`
overwrites the request.  `LooksAgain` are the workers whose loop looks at `bRun()` once
more between `autoFPS()` and its pass (`_TransformRigid::update`,
`_WebSocketServer::updateW`); the others make one more pass after they are told to
stop.  `StartReader` may fail after `StartWriter` has succeeded,
which `Undo` and `Undone` answer.

`CallsReachModules` claims as much as is so: workers go on until their own module is
deleted, so a module that does not join in `stop()` may call one that was deleted
before it.  The property excludes those calls (`Lasting`); the hazard list names them.

### Livox1

Every entry point of the driver takes its mutex for the whole call, so one call is
one action, and the functions it calls are functions of the driver's record `drv`,
composed as in the code: `HandleCtrlCmdAck` for an acknowledgement that matches a
pending request (`Answered`), through `Acknowledged`, to `Learn` and
`ConfigureDevice`; `RetryOrGiveUp` for a request whose timer has run out, at the worst
to `Reconnect`.  `ApplyConfig` is the console's, which drops the settings that are
pending (`ForgetSettings`) and configures anew.  The device and the network are
external: the device answers what it is asked if it is linked, may take a work mode
at once or later, and broadcasts while it has no host.  `Fault` counts what is not
regular: a lost datagram, a timer that runs out while the answer is on its way, a
refused setting, a restart of the device, a `stop()`.  A sequence number is any name
that no pending request and no datagram of its kind has; the code counts to 65535
and skips those pending, so that the two differ only if an answer is under way for as
long as the counter takes to come round.  `NumbersAssumption` says that there are names
enough for all that can be pending or under way at one time.

## Runs

Every run is complete within its bounds; none uses a state constraint.  All
configurations say `CHECK_DEADLOCK FALSE` because every bound is a number of calls
or messages, after which a system with all workers stopped has nothing left to do.

| Run | Question | Bounds and why they are enough |
|---|---|---|
| `thread_control` | are stops, pauses and reports right in every interleaving, and does a stop end the worker? | two callers with three calls each (`MaxOps`): start, pause and stop of one against run, catchUp and pause of the other; one spurious wake-up (`MaxSpurious`); the pass counter saturates at 4 (`PassCap`), above the bound that is asserted |
| `stream_log` | do ring and cursors implement the log? | five elements (`MaxElements`) in batches of up to three (`MaxBatch`) through a ring of two: batches longer than the ring, two wraps; one clear (`MaxClears`); two readers; a clock that may stand still |
| `stream_two_senders` | may producers stamp on their own? | a violation is expected; four messages, one at a time, and a clock that always moves |
| `mavlink_queue` | does the MAVLink queue implement the log? | five messages (`MaxMessages`) through a ring of three, two clears (`MaxClears`), two readers |
| `transport` | are packets whole, once and in order, is only what was overwritten passed over, and is the rest eventually sent? | four packets (`MaxPackets`) of two bytes through a ring of two (`Capacity`), so that a write can be partial and two packets overwritten while one is pending; two connections (`MaxGenerations`), so that an error can belong to the one before; one close by others (`MaxCloses`), one stop with restart (`MaxStops`), one chunk received (`MaxReads`) |
| `web_stream` | credit, order, memory, and does the newest snapshot arrive? | one browser that reconnects once (`MaxUpgrades`), in either mode; four snapshots (`MaxVersions`), so that one is written, one waits and one is being sent while a fourth is made; one command out of turn (`MaxCommands`); four buffers where three must do |
| `web_server_packets` | is output sent once, in order, with only what was overwritten left out? | two clients, four packets (`MaxPackets`) through a ring of two (`Capacity`), so that a packet can be overwritten before the first get() and between two; one pause (`MaxPauses`), two starts (`MaxStarts`); a broadcast, or one client at a time with a second one over the limit; no input |
| `web_server_callbacks` | does anything outlive stop(), is input in order and stopped by a pause, does stop() return, does resume() release? | two clients with one message each (`MaxMessages`), both heard, a clock that may stand still; two pauses and two starts; no output, for the two directions meet only in the list of clients, which both runs have |
| `instance` | do workers call only what is there, and does the program end? | four modules, one of each way to end (late joiner, joiner with two workers, pair of workers of which one wakes the other, plain); each calls all others, each may fail in every phase, and the signal may come at any time |
| `instance_transforms` | does the program end with a tree of transforms? | a violation is expected; a child that is deleted first, its parent, which is a root, and an autopilot whose worker sets the pose of the parent |
| `livox1` | is what is reported as applied in the device, is flash written only if needed, does configuration come to an end? | one change of the configuration (`MaxPatches`) between two that differ in every setting and one the device refuses; one fault (`MaxFaults`) anywhere; two transmissions of a request (`MaxAttempts`), so that one is repeated and one given up; six datagrams each way (`Capacity`); one setting in flash, for the others are written the same way |
| `livox1_work_mode` | is the work mode that is reported as applied in the device? | a violation is expected; no fault is needed |

Only `web_server_packets` uses symmetry: its two clients are interchangeable, nothing
orders or names them, and it checks no liveness.

### Fairness

* `Thread`: a thread that can run infinitely often does (`SF` for the worker and
  for callers in a call, because they compete for a mutex), and a deadline passes.
  Nobody has to call anything, no spurious wake-up and no cancellation is counted on.
* `Transport`: both workers run; an attempt to open that is repeated for ever
  succeeds, and so does a write on a connection that stands.  Without the first there
  is nothing to send on.  An end of the connection is noticed when the code asks.
* `WebSocketStream`: the network thread runs every handler that is due (`SF`, for it
  can be busy with another), the producer finishes what it began, a browser handles
  what it receives.  Browsers may leave, and nothing makes the producer publish.
* `WebSocketServer`: threads run, an owner finishes the call it is in; nothing makes
  it pause, resume or stop.  The notification after a reset flag belongs to the call.  The bound on messages means that callbacks cannot keep
  the callback mutex shared for ever by overlapping; in the code it is the stop flag,
  tested first by each, that shortens them.

* `Instance`: the main thread and the workers are scheduled (`WF`), a pass ends and a
  wait is timed or signalled.  Nobody has to send the signal, and `Wake` need never
  stop happening.
* `Livox1`: the worker's loop looks at the sockets and the timers at least every 20 ms
  (`WF` of what is due); the device answers, starts up, reaches a work mode it has
  accepted, and broadcasts while it has no host.  That is external and assumed: with a
  device that is silent for ever there is nothing to configure.  Faults are bounded.

### Findings

* `stream_two_senders`: `_JSONbase::sendJson` stamps before the lock and is called
  from several threads on one endpoint; a message may arrive behind the cursor of the
  transport and is never sent.
* `instance_transforms`: `_TransformRigid::updateChildNodes` calls `catchUp()` of each
  child (`_TransformRigid.cpp:275`), and so `run()`, in whichever thread changed the pose.
  The worker of a root does not get there, for it finds the pose as it is
  (`updatePoseCombined`); the thread that *sets* the pose does, such as an autopilot's
  worker (`_APmav_base.cpp:130`), and so does the worker of a transform that has both a
  parent and children.  When the child is being deleted, its destructor has requested the
  stop and joins; an autopilot still in a pass it had begun then takes the request back,
  and the join never returns.  The program does not end after SIGINT.
* `livox1_work_mode`: `configureDevice` writes the work mode only if it differs from the
  one in the last heartbeat's acknowledgement (`_Livox1.cpp:413`).  A mode that has
  been written and is changed back before the next heartbeat is not written, and
  `configApplied` is reported while the device is in the other mode.

## Proofs

`tlapm` proves, for every value of the constants that satisfies the named
assumptions:

* `ThreadProofs!TypeCorrect`, `StoppedIsTrue`: types, and the truth of bStopped(),
  for any number of callers (`ActorAssumption`, `BoundAssumption`).  The second is
  inductive with the types: only the exits of the loop, `Join` and `Create` touch it.
* `ThreadProofs!StopIsNeverMissed`: a worker never sleeps through a stop.  The
  inductive invariant is `IInv == TypeOK /\ MutexInv /\ CheckedInv /\
  StopIsNotMissed`: who is in a locked section holds the mutex, and a worker between
  its check and its wait has seen no stop, because a stop would have needed the mutex
  the worker holds.  `StopIsNotMissed` alone is not inductive: the step into the wait
  has to know that the request was looked at under the same lock.
* `ThreadProofs!PauseAlwaysTakesEffect`: for any number of callers the passes of a
  worker after `pause()` are bounded.  `PauseInv` balances them: passes made, callers
  about to signal (`About`) and signals or wake-ups that have not led to a pass yet
  (`OnTheWay`) together never exceed the callers and the spurious wake-ups.  The bound
  itself does not see the credit a step uses up, so it is not inductive alone.
* The lemmas about rings at the head of `MavlinkStreamProofs`, which
  `DataObjStreamProofs` uses through an instance (`Ring`).  Stamps that increase make
  "newer than the cursor" a cut of the ring (`CursorCuts`), what a read takes is then an
  end of it (`TakenIsAnEnd`), and since the ring is the end of the log (`RingIsEnd`), the
  read is what the log holds after the cursor's position (`ReadOfRing`).  They use least
  and greatest elements of finite sets of numbers (`LeastElement`, `GreatestElement`),
  proved from the well-foundedness of `<`.
* `MavlinkStreamProofs!TypeCorrect`, `StampsAlwaysIncrease`,
  `RingIsAlwaysTheEndOfTheLog`, `QueueImplementsPacketLog`: for every capacity, clock and
  number of senders and readers (`QueueAssumption`) the queue implements `PacketLog`.
  The inductive invariant is `RingType /\ StampsIncrease /\ RingIsTheEndOfTheLog`; the
  ring's part needs the index arithmetic of the slot that is overwritten.  With it each
  step is one of `PacketLog` or a stutter: an add appends, a clear forgets, a read is
  `ReadOfRing`.
* `DataObjStreamProofs!TypeCorrect`, `RingIsAlwaysTheEndOfTheLog`: for any producers and
  batches (`StreamAssumption`).  `add` copies one element at a time, so between two
  copies the ring is ahead of the log; `RingInv` relates it to the log extended by what
  the add in progress has copied.
* `DataObjStreamProofs!LoneProducerImplementsPacketLog`: under `LoneWatermark`, one
  producer which keeps its stamps increasing, the stream implements `PacketLog`.
  `OrderInv` says that the stamps of log, copied elements and batch in hand increase in
  this order and that no cursor is ahead of the log.  Without the assumption
  `stream_two_senders` refutes it.
* `TransportProofs!TypeCorrect`, `PacketsAreAlwaysWhole`, `CursorIsAlwaysTruthful`,
  `OnlyBrokenIsEverClosed`: for packets of any length and any number of connections,
  failures, closes and stops.  The inductive invariant has a part for the connection
  (`ConnInv`: what a worker remembers is no newer than the connection, and an error it
  is about to report is one of the generation it remembers), one for the pending packet
  (`QueueInv`), one for what each connection has carried (`WireInv`) and one that
  relates the cursor to it (`TruthInv`).  `CursorIsAlwaysTruthful` holds for a ring of any
  capacity: each packet behind the cursor is on a wire, exactly once, or was out of the
  ring when the writer asked for it.
* `WebSocketStreamProofs!TypeCorrect`, `PoolIsAlwaysBounded`, `SnapshotsAreAlwaysStable`:
  for any number of browsers, buffers, publications and commands.  A buffer is reused
  only if nothing but the pool refers to it; `FillingInv` keeps the buffer being written
  apart from every published one, `ClientsInv` bounds the references there can be.
* `WebSocketStreamProofs!OneCreditAlways`, `SnapshotsAlwaysGoForward`: a browser that
  acknowledges has one credit, wherever it is, and is shown nothing twice and nothing
  older after something newer, for any number of browsers, publications, commands and
  reconnections.  The inductive invariant `DialogueInv` has three parts for each session
  and its two channels.  `Credit` says where the credit is: with the server, with the
  only snapshot under way or with the only `next`.  `Line` orders what is shown, what is
  under way and what the session remembers to have sent.  `Handshake` says that a session
  which waits for its handshake has no other operation outstanding: without it a `Read`
  or a `WriteDone` could come before `Accept` and a second credit be made there.
* `InstanceProofs!TypeCorrect`, `CallsAlwaysReachModules`, `WorkersAlwaysEndFirst`: for
  any number of modules of any kinds, failing in any phase.  `PrepareInv` ties what there
  is of each module to the phase and the module the main thread has reached, `DeleteInv`
  likewise during deletion, `WorkerInv` says when a module can have workers, `JoinInv`
  that what was joined has ended.

* `WebSocketServerProofs!NothingEverOutlivesStop`, `StampsStayInOrder`,
  `PausedAlwaysMeansNoInput`: for any number of servers, connections, messages,
  starts and pauses (`ServerAssumption`) no callback outlives `stop()` or strays into
  another server, the stamps of a server's stream never decrease though the clock may
  stand still, and nothing enters it during a pause.  That a callback does not stray into
  another server takes two of them; TLC's run has one, the theorem any number.  The inductive invariant adds to the two state properties
  `InsideInv` (a thread is in a callback where its program counter says so),
  `HoldInv` (who is about to add holds the read mutex of a server that is not
  paused), `TargetInv` (callbacks find only a server between its start and its drain)
  and `StampInv` (a stamp in hand is not older than any of the stream).  `HoldInv` carries
  the argument: it excludes a second thread that is about to add to the same stream,
  and a pause between the flag's check and the insertion.
* `WebSocketServerProofs!TypeCorrect`, `PacketsAreAlwaysSentOnce`: for any number of
  servers, clients, packets and starts, in every mode.  `SInv` rests on the invariant
  above and adds `RingInv` (a packet between the cursor and the one in hand is a missed one), `TokenInv` (a token names one start of one server, and a connection
  that is only just made belongs to no running writer), `ListInv` (clients that are
  listed belong to the present start, and those still connected are open), `WriterInv`
  (the client a writer has copied is still the first one, unless it is gone), `GotInv`
  (what a connected client got last is what the cursor says, or the packet in hand if a
  broadcast in progress has reached it) and `SentInv` (when a
  broadcast counts as sent, somebody has the packet).  `GotInv` carries the argument: it
  is why a writer that goes on with a copied client, or with clients that come during a
  broadcast, leaves no gap but what the ring has overwritten.
* `Livox1Proofs!TypeCorrect`, `PendingIsAlwaysDesired`, `FormatsAreAlwaysApplied`,
  `FlashWritesAreAlwaysNeeded`: for any configurations, settings in flash, repetitions,
  and any number of faults and changes (`LivoxAssumption`, `NumbersAssumption`).  What is
  reported as applied is in the device, though datagrams in both directions may be lost,
  late, or answers to requests that were superseded.  The inductive invariant `LivoxInv`
  relates five places at once: configuration, pending requests, datagrams, answers and
  device.
  * `DriverOK`: there is one pending request of a kind, settings are pending only while
    the device is configured, and each carries the value that is wanted.
  * `Follows`: nothing under way behind a request, or its answer, undoes what the
    answer tells (`Harmless`), and an answer that is still wanted is still true
    (`Told`).  The three properties alone are not inductive because of this part: the
    step that takes an answer has to know what the device and the network hold.
  * `Linked`: a device that is being configured has been shaken hands with, and no
    handshake, which may come from a device that has forgotten its settings, is under
    way.
  * `Firsts`: the first copy of a write to flash meets another value in the device.
  * `AllApplied`: of each setting, either it is asked for or the device has it and
    nothing under way changes it.  With no setting pending that is
    `FormatsAreApplied`.

  The driver's functions are composed as in the code, so the proofs are too: one lemma
  says what each function does to a driver (`Sound`), and those of the handlers follow.

Only model-checked: all liveness (fairness and `ENABLED` are out of the prover's
reach), so of `Livox1` also that configuration comes to an end (`Settles`).  The three
properties of the findings are refuted, not proved.  No module uses a RECURSIVE operator
of its own.

## Not modelled

Parsing of bytes into frames, geometry, pixels, inference, estimation and drawing
are sequential or numeric and left to the repository's tests; that is most of the
repository's lines.  Libraries (sockets, Boost.Asio, wsServer, camera SDKs) are
modelled as far as the code relies on them.  Of what remains:

* RTCM rebroadcast (`_RTCMcast`, `_APmav_RTCM`): the two workers share the table of
  messages without a lock, so what the writer sees of it is a data race of a growing
  vector, about which nothing can be claimed.  That the reader's `run()` takes back a
  stop is modelled in `Instance`.
* `_SocketCAN` and `_USR_CANET`: reopening follows `Transport`'s pattern, their pairs of
  workers `Instance`'s, the watermark of the stamps is in `DataObjStream`.
* `_UDP`, `_TCPserver`: a datagram is whole or not sent; the list of accepted clients
  belongs to one thread.
* `HttpServer`: one network thread runs all of it, and `stop()` joins that thread first.
* `_Uploader`: one sequential worker around external commands.
* `_GeoFence`: each setter evaluates the fence again under its one mutex.
* The stages of the autopilot are sequential in one worker; whether they are right
  depends on what the flight controller answers, which nothing here defines.
* In modelled parts: the received slots of `MavlinkStream`, `_WebSocketServer`'s streams
  of single connections, frames of points in `Livox1`, configuration files.

The hazards these are exposed to are listed in `PROJECT.json` with the reason.

## Plan

Done: the modules and theorems above.  What is left, in this order:

1. Proofs: the step properties behind the liveness that TLC checks, such as that a
   repeated request is answered or given up after `MaxAttempts` transmissions.
2. `CanDriver`: `_SocketCAN`'s retained batch and reconnection by error count, as another
   refinement of `Transport`'s promise.
3. `WorkerPair`: the mailbox of `_RTCMcast` and `_APmav_RTCM`, when its table has a lock.
4. `HttpServer`, sharing the network thread of `WebSocketStream`.
