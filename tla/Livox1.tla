------------------------------- MODULE Livox1 -------------------------------
(***************************************************************************)
(* The driver of first-generation Livox LiDARs (Sensor/LiDAR/Livox/Livox1/ *)
(* _Livox1.cpp): discovery, handshake, configuration and supervision of a  *)
(* device over UDP, with requests that are repeated until they are         *)
(* acknowledged, and a console that changes the configuration meanwhile.   *)
(*                                                                         *)
(* The driver's worker (service and receive), the console and the owner    *)
(* take m_mutex for each call, so that a call is one step.  The members of *)
(* the driver are one record; what its functions do to it is a function of *)
(* that record, composed as the calls are.  The device and the network are *)
(* external: datagrams are lost but keep their order.  Of time only what   *)
(* it orders is left: a timer may have expired whenever the driver looks.  *)
(***************************************************************************)
EXTENDS Integers, FiniteSets, Sequences, SequencesExt

CONSTANTS
  FlashKeys,     \* the persistent settings the device supports, in their order
  Configs,       \* what m_lvxCfg may be set to, as functions of the keys
  Loaded,        \* those of them init() may have read
  Unsupported,   \* those of them the model of device does not support
  Sequences16,   \* names for the sequence numbers in use at one time
  MaxAttempts,   \* transmissions of a request
  Capacity,      \* datagrams under way in each direction, others are lost
  MaxPatches,    \* bound: setConfig requests
  MaxFaults      \* bound: datagrams that are lost, or later than a timer,
                 \* settings the device refuses, its restarts, and stop()

Coordinate == "lvxCoordinate"
WorkMode == "lvxWorkMode"
Sampling == "lvxSampling"
FlashSet == {FlashKeys[i] : i \in DOMAIN FlashKeys}
Formats == FlashSet \cup {Coordinate}
Keys == Formats \cup {WorkMode, Sampling}

ASSUME LivoxAssumption ==
  /\ FlashKeys \in Seq(STRING)
  /\ FlashSet \cap {"", Coordinate, WorkMode, Sampling} = {}
  /\ \A cfg \in Configs : cfg[WorkMode] \in 1 .. 3 /\ cfg[Sampling] \in 0 .. 1
  /\ Unsupported \subseteq Configs /\ Loaded \subseteq Configs
  /\ Unsupported # Configs
  /\ {MaxAttempts, Capacity, MaxPatches, MaxFaults} \subseteq Nat
  /\ MaxAttempts # 0

\* The counter takes long to come round: there are numbers for all requests of a
\* kind that can be pending, under way or answered at one time.
ASSUME WidthAssumption == Sequences16 \subseteq 0 .. 65535
ASSUME NumbersAssumption == Cardinality(Sequences16) > 2 * Capacity + 1

VARIABLES
  owner,      \* "stopped", "running", or "joined" inside stop()
  drv,        \* the members of the driver, and the datagrams it has sent
  replies,    \* datagrams on their way to the driver's command socket
  beacon,     \* a broadcast is on its way
  device,     \* the LiDAR
  nPatches, nFaults   \* bound counters

bounds == <<nPatches, nFaults>>
vars == <<owner, drv, replies, beacon, device, bounds>>

\* The members of a driver that is not connected, with configuration cfg.
Fresh(cfg, out) ==
  [state |-> "Discovering", pending |-> {}, firmwareKnown |-> FALSE,
   workState |-> 0, configFailed |-> FALSE, samplingSent |-> FALSE,
   cfg |-> cfg, out |-> out]

Factory == CHOOSE cfg \in Configs : cfg \notin Unsupported

\* A LiDAR that has just been switched on; work state 0 is "initializing".
PoweredOn(flash) ==
  [linked |-> FALSE, mode |-> 0, switchTo |-> 0,
   value |-> [k \in Keys \ {WorkMode} |-> IF k \in FlashSet THEN flash[k] ELSE 0]]

Init ==
  /\ owner = "stopped"
  /\ \E cfg \in Loaded : drv = Fresh(cfg, <<>>)
  /\ replies = <<>>
  /\ beacon = FALSE
  /\ device = PoweredOn(Factory)
  /\ nPatches = 0 /\ nFaults = 0

-----------------------------------------------------------------------------
(* Requests *)

Request(cmd, key, value) == [cmd |-> cmd, key |-> key, value |-> value]

\* A request under way: "again" marks a repetition.
Datagram(seq, r, again) ==
  [seq |-> seq, cmd |-> r.cmd, key |-> r.key, value |-> r.value, again |-> again]

Pending(seq, r) ==
  [seq |-> seq, cmd |-> r.cmd, key |-> r.key, value |-> r.value,
   attempts |-> 1, switching |-> FALSE]

\* sendDatagram(): the socket takes what it has room for.
Transmit(out, datagrams) ==
  LET all == out \o datagrams
  IN SubSeq(all, 1, IF Len(all) < Capacity THEN Len(all) ELSE Capacity)

Alike(a, b) == a.cmd = b.cmd /\ a.key = b.key

\* A number that tells the request from others of its kind that are pending or
\* under way.  (The code's numbers tell requests of any kind apart, but a reply
\* is for a pending request only if both have one command and key.)
NextSequence(D, r) ==
  LET Tells(n, p) == ~(p.seq = n /\ Alike(p, r))
  IN CHOOSE n \in Sequences16 :
       /\ \A p \in D.pending : Tells(n, p)
       /\ \A i \in DOMAIN D.out : Tells(n, D.out[i])
       /\ \A i \in DOMAIN replies : Tells(n, replies[i])

\* sendCommand() for each of the requests.
SendCommands(D, requests) ==
  LET seq == [i \in DOMAIN requests |-> NextSequence(D, requests[i])]
  IN [D EXCEPT
       !.pending = @ \cup {Pending(seq[i], requests[i]) : i \in DOMAIN requests},
       !.out = Transmit(@, [i \in DOMAIN requests |->
                              Datagram(seq[i], requests[i], FALSE)])]

IsSetting(p) == p.key # ""
Settings(D) == {p \in D.pending : IsSetting(p)}
IsSession(p) == p.cmd \in {"Handshake", "DeviceInfo", "Heartbeat"}

SetValue(D, key) == Request("Set", key, D.cfg[key])

-----------------------------------------------------------------------------
(* The state machine *)

Reconnect(D) == Fresh(D.cfg, D.out)

FinishConfiguration(D) ==
  IF D.state # "Configuring" \/ D.configFailed \/ Settings(D) # {} THEN D
  ELSE IF ~D.samplingSent /\ (D.cfg[WorkMode] = 1 \/ D.cfg[Sampling] = 0)
       THEN SendCommands([D EXCEPT !.samplingSent = TRUE],
                         <<SetValue(D, Sampling)>>)
       ELSE [D EXCEPT !.samplingSent = TRUE, !.state = "Connected"]

\* The coordinates, the work mode if the last heartbeat told another one, and
\* a query of each setting kept in flash, which is written if it differs.
ConfigureDevice(D) ==
  LET E == [D EXCEPT !.state = "Configuring", !.configFailed = FALSE,
                     !.samplingSent = FALSE]
      mode == IF D.workState # D.cfg[WorkMode]
              THEN <<SetValue(D, WorkMode)>> ELSE <<>>
      queries == [i \in DOMAIN FlashKeys |-> Request("Get", FlashKeys[i], 0)]
  IN IF D.cfg \in Unsupported
     THEN [E EXCEPT !.configFailed = TRUE]
     ELSE FinishConfiguration(SendCommands(E, <<SetValue(D, Coordinate)>> \o mode \o queries))

\* handleBroadcast(): a device that broadcasts has no host.
HandleBroadcast(D) ==
  IF D.state = "Handshaking" THEN D
  ELSE SendCommands([Reconnect(D) EXCEPT !.state = "Handshaking"],
                    <<Request("Handshake", "", 0)>>)

Rejected(D, p) ==
  IF IsSession(p) THEN Reconnect(D)
  ELSE [D EXCEPT !.configFailed = TRUE]

\* (Mutant: it is written even if the device has it.)
CorrectAlways(D, p, value) == SendCommands(D, <<SetValue(D, p.key)>>)

\* The value of a setting that is kept in flash was read.
Correct(D, p, value) ==
  IF value = D.cfg[p.key] THEN D ELSE SendCommands(D, <<SetValue(D, p.key)>>)

\* (Mutant: the request for a mode that takes time is left to its timer.)
ObserveWorkStateOnly(D, value) == [D EXCEPT !.workState = value]

\* A heartbeat tells the work state, and ends the wait for it.
ObserveWorkState(D, value) ==
  [D EXCEPT !.workState = value,
            !.pending = {q \in @ : ~(q.switching /\ value = D.cfg[WorkMode])}]

\* What an acknowledgement of p with this value tells.
Learn(D, p, value) ==
  CASE p.cmd = "DeviceInfo" -> [D EXCEPT !.firmwareKnown = TRUE]
    [] p.cmd = "Heartbeat" -> ObserveWorkState(D, value)
    [] p.cmd = "Get" -> Correct(D, p, value)
    [] OTHER -> D

\* handleCtrlCmdAck(): a reply m to the pending request p.
Acknowledged(D, p, m) ==
  LET Done == [D EXCEPT !.pending = @ \ {p}]
      Known == Learn(Done, p, m.value)
  IN CASE p.key = WorkMode /\ m.code = 2 ->
            [Done EXCEPT !.pending = @ \cup {[p EXCEPT !.switching = TRUE]}]
       [] m.code = 1 -> Rejected(Done, p)
       [] m.code = 0 /\ p.cmd = "Handshake" ->
            SendCommands([Done EXCEPT !.state = "Initializing"],
              <<Request("DeviceInfo", "", 0), Request("Heartbeat", "", 0)>>)
       [] OTHER ->
            IF Known.state = "Initializing" /\ Known.firmwareKnown
                 /\ Known.workState \in 1 .. 3
            THEN ConfigureDevice(Known)
            ELSE FinishConfiguration(Known)

\* (Mutant: the sequence number is not looked at.)
AnsweredAnySequence(D, m) == {p \in D.pending : Alike(p, m)}

Answered(D, m) == {p \in D.pending : p.seq = m.seq /\ Alike(p, m)}

HandleCtrlCmdAck(D, m) ==
  LET found == Answered(D, m)
  IN IF found = {} THEN D
     ELSE Acknowledged(D, CHOOSE p \in found : TRUE, m)

\* (Mutant: one too many.)
MayRepeatOnceMore(p) == p.attempts <= MaxAttempts /\ ~p.switching

MayRepeat(p) == p.attempts < MaxAttempts /\ ~p.switching

\* service(), when the timer of request p has expired.
RetryOrGiveUp(D, p) ==
  LET Without == [D EXCEPT !.pending = @ \ {p}]
  IN IF MayRepeat(p)
     THEN [Without EXCEPT
            !.pending = @ \cup {[p EXCEPT !.attempts = @ + 1]},
            !.out = Transmit(@, <<Datagram(p.seq, p, TRUE)>>)]
     ELSE IF IsSession(p) THEN Reconnect(D)
     ELSE [Without EXCEPT !.configFailed = TRUE]

\* service(), once a second.
Heartbeat(D) ==
  IF D.state \in {"Discovering", "Handshaking"}
       \/ \E p \in D.pending : p.cmd = "Heartbeat"
  THEN D
  ELSE SendCommands(D, <<Request("Heartbeat", "", 0)>>)

-----------------------------------------------------------------------------
(* The threads of the program *)

Environment == <<replies, beacon, device>>

Fault == nFaults < MaxFaults /\ nFaults' = nFaults + 1

\* start(), which may fail for want of a port or of a thread.
Start ==
  /\ owner = "stopped"
  /\ \/ owner' = "running" /\ drv' = Fresh(drv.cfg, drv.out)
     \/ owner' = "stopped" /\ drv' \in {drv, Fresh(drv.cfg, drv.out)}
  /\ UNCHANGED <<Environment, bounds>>

\* stop(): the worker is joined without the lock, then the sockets are closed
\* and what has come in for them is lost.
StopWorker ==
  /\ owner = "running"
  /\ Fault
  /\ owner' = "joined"
  /\ UNCHANGED <<drv, Environment, nPatches>>

CloseSockets ==
  /\ owner = "joined"
  /\ owner' = "stopped"
  /\ drv' = [drv EXCEPT !.state = "Discovering", !.pending = {}]
  /\ replies' = <<>>
  /\ beacon' = FALSE
  /\ UNCHANGED <<device, bounds>>

\* No datagram of the request p or of its answers is under way.
Silent(p) ==
  /\ \A i \in DOMAIN drv.out : ~(drv.out[i].seq = p.seq /\ Alike(drv.out[i], p))
  /\ \A i \in DOMAIN replies : ~(replies[i].seq = p.seq /\ Alike(replies[i], p))

\* Something is assumed lost: it is, or it is slower than the timer.
Given(lost) == (lost /\ UNCHANGED nFaults) \/ (~lost /\ Fault)

\* A pass of the worker through service(): nothing was heard for tOutSec, or
\* one timer has expired, or it is time for a heartbeat; if several are true
\* at once it is as good as several passes.
InService ==
  /\ owner = "running"
  /\ drv.state # "Discovering"
  /\ UNCHANGED <<owner, Environment, nPatches>>

TimedOut ==
  /\ InService
  /\ Given(~device.linked /\ drv.out = <<>> /\ replies = <<>>)
  /\ drv' = Reconnect(drv)

Expired(p) ==
  /\ Given(~p.switching /\ Silent(p))
  /\ drv' = RetryOrGiveUp(drv, p)

RequestExpired == InService /\ \E p \in drv.pending : Expired(p)

HeartbeatIsDue ==
  /\ InService
  /\ drv' = Heartbeat(drv)
  /\ UNCHANGED nFaults

\* A pass of the worker through receive().
ReceiveBroadcast ==
  /\ owner = "running"
  /\ beacon
  /\ beacon' = FALSE
  /\ drv' = HandleBroadcast(drv)
  /\ UNCHANGED <<owner, replies, device, bounds>>

Receive ==
  /\ owner = "running"
  /\ replies # <<>>
  /\ replies' = Tail(replies)
  /\ drv' = HandleCtrlCmdAck(drv, Head(replies))
  /\ UNCHANGED <<owner, beacon, device, bounds>>

\* (Mutant: they go on.)
ForgetNothing(D) == D

\* The transactions of the old configuration are forgotten.
ForgetSettings(D) == [D EXCEPT !.pending = @ \ Settings(D)]

\* applyConfig() for the console.  (A patch that changes nothing only repeats
\* what has failed.)
ApplyConfig(cfg) ==
  /\ cfg # drv.cfg \/ drv.configFailed
  /\ nPatches < MaxPatches
  /\ nPatches' = nPatches + 1
  /\ drv' =
       IF drv.state \in {"Configuring", "Connected"}
       THEN ConfigureDevice([ForgetSettings(drv) EXCEPT !.cfg = cfg])
       ELSE [drv EXCEPT !.cfg = cfg]
  /\ UNCHANGED <<owner, Environment, nFaults>>

-----------------------------------------------------------------------------
(* The LiDAR and the network *)

\* The LiDAR becomes d and answers the datagram m; nobody listens to a driver
\* that is stopped.
Answer(m, d, code, value) ==
  /\ device' = d
  /\ replies' =
       IF owner = "stopped" \/ Len(replies) = Capacity THEN replies
       ELSE Append(replies, [seq |-> m.seq, cmd |-> m.cmd, key |-> m.key,
                             code |-> code, value |-> value])

Tell(m) ==
  CASE m.cmd = "Heartbeat" -> device.mode
    [] m.cmd = "Get" -> device.value[m.key]
    [] OTHER -> 0

\* A new work mode is taken at once, or later, or not.
SetWorkMode(m) ==
  \/ Answer(m, [device EXCEPT !.mode = m.value, !.switchTo = 0], 0, 0)
  \/ Answer(m, [device EXCEPT !.switchTo = m.value], 2, 0)

Execute(m) ==
  \/ /\ m.cmd \in {"DeviceInfo", "Heartbeat", "Get"}
     /\ Answer(m, device, 0, Tell(m))
  \/ m.cmd = "Set" /\ m.key = WorkMode /\ SetWorkMode(m)
  \/ /\ m.cmd = "Set" /\ m.key # WorkMode
     /\ Answer(m, [device EXCEPT !.value[m.key] = m.value], 0, 0)

DeviceReceive ==
  /\ drv.out # <<>>
  /\ drv' = [drv EXCEPT !.out = Tail(@)]
  /\ LET m == Head(drv.out) IN
     \/ /\ m.cmd = "Handshake"
        /\ Answer(m, [device EXCEPT !.linked = TRUE], 0, 0)
        /\ UNCHANGED nFaults
     \/ /\ m.cmd # "Handshake" /\ ~device.linked
        /\ UNCHANGED <<device, replies, nFaults>>
     \/ m.cmd # "Handshake" /\ device.linked /\ Execute(m) /\ UNCHANGED nFaults
     \/ m.cmd = "Set" /\ device.linked /\ Answer(m, device, 1, 0) /\ Fault
  /\ UNCHANGED <<owner, beacon, nPatches>>

\* It has started up, or has reached the new work mode.
DeviceSwitches ==
  /\ device.mode = 0 \/ device.switchTo # 0
  /\ device' = [device EXCEPT !.mode = IF @ = 0 THEN 1 ELSE device.switchTo,
                              !.switchTo = 0]
  /\ UNCHANGED <<owner, drv, replies, beacon, bounds>>

DeviceBroadcasts ==
  /\ ~device.linked
  /\ ~beacon
  /\ owner # "stopped"
  /\ beacon' = TRUE
  /\ UNCHANGED <<owner, drv, replies, device, bounds>>

\* It misses the heartbeats of a driver that has given it up.
DeviceUnlinks ==
  /\ device.linked
  /\ drv.out = <<>> /\ replies = <<>>
  /\ owner = "running" => drv.state = "Discovering"
  /\ device' = [device EXCEPT !.linked = FALSE]
  /\ UNCHANGED <<owner, drv, replies, beacon, bounds>>

DeviceRestarts ==
  /\ Fault
  /\ device' = PoweredOn(device.value)
  /\ UNCHANGED <<owner, drv, replies, beacon, nPatches>>

\* (A broadcast that is lost is as one that comes later.)
Lose ==
  /\ Fault
  /\ \/ /\ drv.out # <<>>
        /\ drv' = [drv EXCEPT !.out = Tail(@)]
        /\ UNCHANGED replies
     \/ /\ replies # <<>>
        /\ replies' = Tail(replies)
        /\ UNCHANGED drv
  /\ UNCHANGED <<owner, beacon, device, nPatches>>

Next ==
  \/ Start \/ StopWorker \/ CloseSockets
  \/ TimedOut \/ RequestExpired \/ HeartbeatIsDue
  \/ ReceiveBroadcast \/ Receive
  \/ \E cfg \in Configs : ApplyConfig(cfg)
  \/ DeviceReceive \/ DeviceSwitches \/ DeviceBroadcasts \/ DeviceUnlinks
  \/ DeviceRestarts \/ Lose

\* The worker's loop never waits longer than 20 ms; the device answers, starts
\* up, switches, and broadcasts while it has no host.
Fairness ==
  /\ WF_vars(RequestExpired) /\ WF_vars(HeartbeatIsDue)
  /\ WF_vars(ReceiveBroadcast) /\ WF_vars(Receive)
  /\ WF_vars(DeviceReceive) /\ WF_vars(DeviceSwitches)
  /\ WF_vars(DeviceBroadcasts) /\ WF_vars(DeviceUnlinks)

Spec == Init /\ [][Next]_vars
FairSpec == Spec /\ Fairness

-----------------------------------------------------------------------------
(* Properties *)

\* The driver's record, the datagrams and the device have values of their
\* types; a sequence number names one pending request.
TypeOK ==
  /\ owner \in {"stopped", "running", "joined"}
  /\ drv.state \in {"Discovering", "Handshaking", "Initializing",
                    "Configuring", "Connected"}
  /\ drv.cfg \in Configs
  /\ drv.workState \in 0 .. 3
  /\ {drv.firmwareKnown, drv.configFailed, drv.samplingSent} \subseteq BOOLEAN
  /\ \A p, q \in drv.pending :
       /\ p.attempts \in 1 .. MaxAttempts
       /\ p.switching => p.key = WorkMode
       /\ p.seq = q.seq /\ Alike(p, q) => p = q
  /\ Len(drv.out) <= Capacity /\ Len(replies) <= Capacity
  /\ device.mode \in 0 .. 3 /\ device.switchTo \in 0 .. 3

\* What console() reports as "configApplied".
ConfigApplied ==
  drv.state = "Connected" /\ Settings(drv) = {} /\ ~drv.configFailed

\* A configuration that is reported as applied is in the device, whatever was
\* lost, repeated, superseded or refused before; unless the device has just
\* been restarted.  (Of the work mode see ModeIsApplied.)
FormatsAreApplied ==
  ConfigApplied /\ device.linked =>
    /\ \A k \in Formats : device.value[k] = drv.cfg[k]
    /\ drv.cfg[WorkMode] = 1 => device.value[Sampling] = drv.cfg[Sampling]

\* Reported as applied, the work mode is in the device.
ModeIsApplied ==
  ConfigApplied /\ device.linked => device.mode = drv.cfg[WorkMode]

\* No acknowledgement can be taken for a newer value than the one it is for,
\* and no repetition writes an older one: whatever setting is pending carries
\* the value that is wanted now.
PendingIsDesired ==
  \A p \in drv.pending : p.cmd = "Set" => p.value = drv.cfg[p.key]

\* Settings in flash are not written without need: the first copy of a write
\* finds another value there.
FlashWritesAreNeeded ==
  [][\A i \in {1} \cap DOMAIN drv.out :
       LET m == drv.out[i] IN
       m.cmd = "Set" /\ m.key \in FlashSet /\ ~m.again /\ device.linked
         /\ drv'.out = Tail(drv.out) /\ nFaults' = nFaults
         => device.value[m.key] # m.value]_vars

\* Once the console, the device and the network leave it alone, a driver that
\* runs gets its device configured, or says that it cannot.
Settles ==
  []<>(owner # "running" \/ ConfigApplied \/ drv.configFailed)
=============================================================================
