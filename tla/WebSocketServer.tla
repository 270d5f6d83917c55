--------------------------- MODULE WebSocketServer ---------------------------
(***************************************************************************)
(* The WebSocket server module (src/IO/_WebSocketServer.cpp) on a library  *)
(* that gives every connection a detached thread and has no call to shut   *)
(* its listener down.                                                      *)
(*                                                                         *)
(* The actors: the owner of each server, who starts, pauses, resumes and   *)
(* stops it; its writer; one library thread per connection, which calls    *)
(* back into whatever server the global pointer names.  A section under    *)
(* one mutex is one step.  A callback holds the shared callback mutex from *)
(* its entry to its end, and cbMessage also the read mutex, which it gives *)
(* up while it waits for the end of a pause.                               *)
(*                                                                         *)
(* The library is modelled from how it is used: callbacks of a connection  *)
(* come in order, a send succeeds while the connection stands.  The        *)
(* streams of single connections, which nothing in the repository writes   *)
(* or reads, are left out.                                                 *)
(*                                                                         *)
(* Packet n is the n-th one added to the input stream and n its stamp; the *)
(* stream keeps the last Capacity of them (DataObjStream).                 *)
(***************************************************************************)
EXTENDS Integers, FiniteSets, Sequences, SequencesExt

CONSTANTS
  Servers,        \* the server modules of the process
  Clients,        \* connections
  NoOne,          \* a null pointer, a free mutex
  Senders,        \* those with an input stream, whose packets they send
  Modes,          \* configurations: [broadcast, readAll, nClientMax]
  Capacity,       \* m_nPacket, elements of the input stream's ring
  MaxPackets,     \* bound: packets to send
  MaxMessages,    \* bound: messages of each client
  MaxPauses,      \* bound: pauses of each server
  MaxStarts       \* bound: starts of all servers

ASSUME ServerAssumption ==
  /\ NoOne \notin Servers \cup Clients
  /\ Senders \subseteq Servers
  /\ Modes \subseteq [broadcast : BOOLEAN, readAll : BOOLEAN, nClientMax : Int]
  /\ Capacity \in Nat \ {0}
  /\ MaxPackets \in Nat
  /\ MaxMessages \in Nat
  /\ MaxPauses \in Nat
  /\ MaxStarts \in Nat

VARIABLES
  mode,          \* m_wsMode, m_bReadAllClients, m_nClientMax
  pServer,       \* g_pWSserver
  lastToken,     \* g_wsCallbackToken
  ctl,           \* what the owner of each server is doing
  token,         \* m_callbackToken
  stopping,      \* m_bStopping
  readPaused,    \* m_bReadPaused
  readMutex,     \* who holds m_readMutex across steps
  listening,     \* the reader thread accepts connections
  vClient,       \* m_vClient
  output,        \* m_pBpStreamOut: the stamps of its elements
  nPauses,
  request,       \* state requested of the writer: run, pause or stop
  wpc,           \* where the writer is
  front,         \* its copy of the first client
  fetched,       \* packets that had been added when it last called get()
  iBp,           \* the packet before the next one of those it got
  toSend,        \* clients its broadcast has still to visit
  bSent,         \* the broadcast has reached someone
  cursor,        \* m_tLastBpStreamIn
  conn,          \* the connection: none, open or gone
  context,       \* the token of the listener that accepted it
  cpc,           \* where the library thread of the connection is
  inside,        \* the server it has called back into
  ioOpen,        \* the _WebSocket of the connection is io_opened
  stamp,         \* the time taken for its message
  nMessages,
  got,           \* history: the packets sent to it, each with its server
  missed,        \* history: packets overwritten before the writer's get()
  clock          \* getTns(), which never goes back

globalVars == <<mode, pServer, lastToken>>
ownerVars == <<ctl, token, stopping, readPaused, listening, request, nPauses>>
writerVars == <<wpc, front, fetched, iBp, toSend, bSent, cursor, got, missed>>
clientVars == <<conn, context, cpc, inside, stamp, nMessages>>
sharedVars == <<readMutex, vClient, ioOpen, output, clock>>
vars == <<globalVars, ownerVars, writerVars, clientVars, sharedVars>>

Init ==
  /\ mode \in Modes
  /\ pServer = NoOne
  /\ lastToken = 0
  /\ ctl = [s \in Servers |-> "new"]
  /\ token = [s \in Servers |-> 0]
  /\ stopping = [s \in Servers |-> TRUE]
  /\ readPaused = [s \in Servers |-> FALSE]
  /\ readMutex = [s \in Servers |-> NoOne]
  /\ listening = [s \in Servers |-> FALSE]
  /\ vClient = [s \in Servers |-> <<>>]
  /\ output = [s \in Servers |-> <<>>]
  /\ nPauses = [s \in Servers |-> 0]
  /\ request = [s \in Servers |-> "stop"]
  /\ wpc = [s \in Servers |-> "none"]
  /\ front = [s \in Servers |-> NoOne]
  /\ fetched = [s \in Servers |-> 0]
  /\ iBp = [s \in Servers |-> 0]
  /\ toSend = [s \in Servers |-> {}]
  /\ bSent = [s \in Servers |-> FALSE]
  /\ cursor = [s \in Servers |-> 0]
  /\ conn = [c \in Clients |-> "none"]
  /\ context = [c \in Clients |-> 0]
  /\ cpc = [c \in Clients |-> "none"]
  /\ inside = [c \in Clients |-> NoOne]
  /\ ioOpen = [c \in Clients |-> FALSE]
  /\ stamp = [c \in Clients |-> 0]
  /\ nMessages = [c \in Clients |-> 0]
  /\ got = [c \in Clients |-> <<>>]
  /\ missed = [s \in Servers |-> {}]
  /\ clock = 0

-----------------------------------------------------------------------------
(* The global callback mutex *)

\* It can be locked exclusively: no callback is running, of any server.
NoCallbackRuns == \A c \in Clients : inside[c] = NoOne

\* Mutants: a callback goes to whatever server is there; nobody is woken.
TargetIgnoresContext(c) == pServer

NotifyNobody(s) == UNCHANGED cpc

\* The server a connection with this context may call back into.
Target(c) == IF pServer # NoOne /\ token[pServer] = context[c]
             THEN pServer ELSE NoOne

\* c leaves the callback; its thread goes on at "then".
Leave(c, then) ==
  /\ inside' = [inside EXCEPT ![c] = NoOne]
  /\ cpc' = [cpc EXCEPT ![c] = then]

\* Everyone who waits on m_readReady of s is woken.
NotifyAll(s) ==
  cpc' = [c \in Clients |->
            IF cpc[c] = "waiting" /\ inside[c] = s THEN "lock" ELSE cpc[c]]

-----------------------------------------------------------------------------
(* Mutant: a plausible mistake of stop() *)

\* stop() does not wait for the callbacks.
DrainDoesNotWait(s) ==
  /\ ctl[s] = "drain"
  /\ pServer' = IF pServer = s THEN NoOne ELSE pServer
  /\ ctl' = [ctl EXCEPT ![s] = "join"]
  /\ listening' = [listening EXCEPT ![s] = FALSE]
  /\ UNCHANGED <<mode, lastToken, token, stopping, readPaused, request,
                 nPauses, writerVars, clientVars, sharedVars>>

-----------------------------------------------------------------------------
(* The owner *)

\* start(): publish the server with a token of its own.
Start(s) ==
  /\ ctl[s] = "new"
  /\ lastToken < MaxStarts
  /\ NoCallbackRuns
  /\ ctl' = [ctl EXCEPT ![s] = "starting"]
  /\ stopping' = [stopping EXCEPT ![s] = FALSE]
  /\ readPaused' = [readPaused EXCEPT ![s] = FALSE]
  /\ lastToken' = lastToken + 1
  /\ token' = [token EXCEPT ![s] = lastToken + 1]
  /\ pServer' = s
  /\ UNCHANGED <<mode, listening, request, nPauses, writerVars, clientVars,
                 sharedVars>>

\* _IObase::start(): both workers are created.
StartWorkers(s) ==
  /\ ctl[s] = "starting"
  /\ ctl' = [ctl EXCEPT ![s] = "run"]
  /\ request' = [request EXCEPT ![s] = "run"]
  /\ listening' = [listening EXCEPT ![s] = TRUE]
  /\ wpc' = [wpc EXCEPT ![s] = "pass"]
  /\ UNCHANGED <<globalVars, token, stopping, readPaused, nPauses, front,
                 fetched, iBp, toSend, bSent, cursor, got, missed, clientVars,
                 sharedVars>>

\* The second worker cannot be created; start() stops the module.
StartFails(s) ==
  /\ ctl[s] = "starting"
  /\ ctl' = [ctl EXCEPT ![s] = "stop"]
  /\ request' = [request EXCEPT ![s] = "run"]
  /\ wpc' = [wpc EXCEPT ![s] = "pass"]
  /\ UNCHANGED <<globalVars, token, stopping, readPaused, nPauses, listening,
                 front, fetched, iBp, toSend, bSent, cursor, got, missed,
                 clientVars, sharedVars>>

\* pause(): first the callbacks, then the workers.
Pause(s) ==
  /\ ctl[s] = "run"
  /\ nPauses[s] < MaxPauses
  /\ readMutex[s] = NoOne
  /\ readPaused' = [readPaused EXCEPT ![s] = TRUE]
  /\ nPauses' = [nPauses EXCEPT ![s] = @ + 1]
  /\ ctl' = [ctl EXCEPT ![s] = "pausing"]
  /\ UNCHANGED <<globalVars, token, stopping, listening, request, writerVars,
                 clientVars, sharedVars>>

PauseWorkers(s) ==
  /\ ctl[s] = "pausing"
  /\ request' = [request EXCEPT ![s] = "pause"]
  /\ ctl' = [ctl EXCEPT ![s] = "paused"]
  /\ UNCHANGED <<globalVars, token, stopping, readPaused, listening, nPauses,
                 writerVars, clientVars, sharedVars>>

\* resume(): the flag is reset under the read mutex, the waiting callbacks are
\* woken after it, and only then the workers.
Resume(s) ==
  /\ ctl[s] = "paused"
  /\ readMutex[s] = NoOne
  /\ readPaused' = [readPaused EXCEPT ![s] = FALSE]
  /\ ctl' = [ctl EXCEPT ![s] = "resumed"]
  /\ UNCHANGED <<globalVars, token, stopping, listening, request, nPauses,
                 writerVars, clientVars, sharedVars>>

ResumeNotify(s) ==
  /\ ctl[s] = "resumed"
  /\ NotifyAll(s)
  /\ ctl' = [ctl EXCEPT ![s] = "resuming"]
  /\ UNCHANGED <<globalVars, token, stopping, readPaused, listening, request,
                 nPauses, writerVars, conn, context, inside, stamp, nMessages,
                 sharedVars>>

ResumeWorkers(s) ==
  /\ ctl[s] = "resuming"
  /\ request' = [request EXCEPT ![s] = "run"]
  /\ ctl' = [ctl EXCEPT ![s] = "run"]
  /\ UNCHANGED <<globalVars, token, stopping, readPaused, listening, nPauses,
                 writerVars, clientVars, sharedVars>>

\* stop(): set the flag under the read mutex, ...
Stop(s) ==
  /\ ctl[s] \in {"run", "paused", "stop"}
  /\ readMutex[s] = NoOne
  /\ stopping' = [stopping EXCEPT ![s] = TRUE]
  /\ ctl' = [ctl EXCEPT ![s] = "stopFlag"]
  /\ UNCHANGED <<globalVars, token, readPaused, listening, request, nPauses,
                 writerVars, clientVars, sharedVars>>

\* ... release the callbacks that wait, ...
StopNotify(s) ==
  /\ ctl[s] = "stopFlag"
  /\ NotifyAll(s)
  /\ ctl' = [ctl EXCEPT ![s] = "stopWriter"]
  /\ UNCHANGED <<globalVars, token, stopping, readPaused, listening, request,
                 nPauses, writerVars, conn, context, inside, stamp, nMessages,
                 sharedVars>>

\* ... ask the writer to stop, ...
StopWriter(s) ==
  /\ ctl[s] = "stopWriter"
  /\ request' = [request EXCEPT ![s] = "stop"]
  /\ ctl' = [ctl EXCEPT ![s] = "drain"]
  /\ UNCHANGED <<globalVars, token, stopping, readPaused, listening, nPauses,
                 writerVars, clientVars, sharedVars>>

\* ... wait until no callback runs and let in no other, cancel the listener, ...
Drain(s) ==
  /\ ctl[s] = "drain"
  /\ NoCallbackRuns
  /\ pServer' = IF pServer = s THEN NoOne ELSE pServer
  /\ ctl' = [ctl EXCEPT ![s] = "join"]
  /\ listening' = [listening EXCEPT ![s] = FALSE]
  /\ UNCHANGED <<mode, lastToken, token, stopping, readPaused, request,
                 nPauses, writerVars, clientVars, sharedVars>>

\* ... join the writer, and drop the clients, whose connections are closed.
StopEnds(s) ==
  /\ ctl[s] = "join"
  /\ wpc[s] \in {"none", "ended"}
  /\ ctl' = [ctl EXCEPT ![s] = "stopped"]
  /\ vClient' = [vClient EXCEPT ![s] = <<>>]
  /\ ioOpen' = [c \in Clients |-> ioOpen[c] /\ ~Contains(vClient[s], c)]
  /\ conn' = [c \in Clients |->
                IF Contains(vClient[s], c) THEN "gone" ELSE conn[c]]
  /\ UNCHANGED <<globalVars, token, stopping, readPaused, request, listening,
                 nPauses, writerVars, context, cpc, inside, stamp, nMessages,
                 readMutex, output, clock>>

\* loadConfig() of a server that was stopped makes a new reader thread, and it
\* can be started again.
LoadConfig(s) ==
  /\ ctl[s] = "stopped"
  /\ ctl' = [ctl EXCEPT ![s] = "new"]
  /\ wpc' = [wpc EXCEPT ![s] = "none"]
  /\ UNCHANGED <<globalVars, token, stopping, readPaused, request, listening,
                 nPauses, front, fetched, iBp, toSend, bSent, cursor, got, missed,
                 clientVars, sharedVars>>

-----------------------------------------------------------------------------
(* A packet is sent: the cursor of the writer moves past it *)

MovePast(s) ==
  /\ cursor' = [cursor EXCEPT ![s] = iBp[s] + 1]
  /\ iBp' = [iBp EXCEPT ![s] = @ + 1]

-----------------------------------------------------------------------------
(* Mutants: plausible mistakes of the callbacks and of the writer *)

\* The read mutex is given up before the message is added.
TimeUnlocks(c) ==
  /\ cpc[c] = "time"
  /\ clock' \in {clock, clock + 1}
  /\ stamp' = [stamp EXCEPT ![c] = clock']
  /\ cpc' = [cpc EXCEPT ![c] = "add"]
  /\ readMutex' = [readMutex EXCEPT ![inside[c]] = NoOne]
  /\ UNCHANGED <<globalVars, ownerVars, writerVars, conn, context, inside,
                 nMessages, vClient, ioOpen, output>>

\* The fetched packets are counted one too far.
SendFrontTooFar(s) ==
  /\ wpc[s] = "packet"
  /\ request[s] # "stop"
  /\ iBp[s] <= fetched[s]
  /\ ~mode.broadcast
  /\ IF conn[front[s]] = "open"
     THEN /\ got' = [got EXCEPT ![front[s]] = Append(@, <<s, iBp[s] + 1>>)]
          /\ MovePast(s)
          /\ UNCHANGED wpc
     ELSE /\ wpc' = [wpc EXCEPT ![s] = "pass"]
          /\ UNCHANGED <<got, iBp, cursor>>
  /\ UNCHANGED <<globalVars, ownerVars, front, fetched, toSend, bSent, missed,
                 clientVars, sharedVars>>

\* A packet is sent again unless everyone got it.
SendNextAll(s) ==
  /\ wpc[s] = "send"
  /\ toSend[s] = {}
  /\ IF \A c \in Clients : Contains(vClient[s], c) => conn[c] = "open"
     THEN /\ MovePast(s)
          /\ wpc' = [wpc EXCEPT ![s] = "packet"]
     ELSE /\ wpc' = [wpc EXCEPT ![s] = "pass"]
          /\ UNCHANGED <<iBp, cursor>>
  /\ UNCHANGED <<globalVars, ownerVars, front, fetched, toSend, bSent, got,
                 missed, clientVars, sharedVars>>

-----------------------------------------------------------------------------
(* The threads of the library *)

\* A connection is accepted, with the token of the listener as its context.
Connect(c, s) ==
  /\ listening[s]
  /\ conn[c] = "none"
  /\ conn' = [conn EXCEPT ![c] = "open"]
  /\ context' = [context EXCEPT ![c] = token[s]]
  /\ cpc' = [cpc EXCEPT ![c] = "opening"]
  /\ UNCHANGED <<globalVars, ownerVars, writerVars, inside, stamp, nMessages,
                 sharedVars>>

\* The peer leaves, or the line breaks.
Disconnect(c) ==
  /\ conn[c] = "open"
  /\ conn' = [conn EXCEPT ![c] = "gone"]
  /\ UNCHANGED <<globalVars, ownerVars, writerVars, context, cpc, inside,
                 stamp, nMessages, sharedVars>>

\* sCbOpen, sCbClose, sCbMessage: into the callback "into" of the target, if
\* there is one, or else past it to "past".
Enter(c, into, past) ==
  /\ inside' = [inside EXCEPT ![c] = Target(c)]
  /\ cpc' = [cpc EXCEPT ![c] = IF Target(c) = NoOne THEN past ELSE into]
  /\ UNCHANGED <<globalVars, ownerVars, writerVars, conn, context, stamp,
                 sharedVars>>

EnterOpen(c) ==
  /\ cpc[c] = "opening"
  /\ Enter(c, "cbOpen", "idle")
  /\ UNCHANGED nMessages

EnterMessage(c) ==
  /\ cpc[c] = "idle"
  /\ conn[c] = "open"
  /\ nMessages[c] < MaxMessages
  /\ nMessages' = [nMessages EXCEPT ![c] = @ + 1]
  /\ Enter(c, "lock", "idle")

EnterClose(c) ==
  /\ cpc[c] = "idle"
  /\ conn[c] = "gone"
  /\ Enter(c, "cbClose", "ended")
  /\ UNCHANGED nMessages

\* cbOpen: beyond the limit the connection is left to itself.
CbOpen(c) ==
  LET s == inside[c] IN
  /\ cpc[c] = "cbOpen"
  /\ IF mode.nClientMax >= 0 /\ Len(vClient[s]) >= mode.nClientMax
     THEN UNCHANGED <<vClient, ioOpen>>
     ELSE /\ vClient' = [vClient EXCEPT ![s] = Append(@, c)]
          /\ ioOpen' = [ioOpen EXCEPT ![c] = TRUE]
  /\ Leave(c, "idle")
  /\ UNCHANGED <<globalVars, ownerVars, writerVars, conn, context, stamp,
                 nMessages, readMutex, output, clock>>

CbClose(c) ==
  LET s == inside[c] IN
  /\ cpc[c] = "cbClose"
  /\ vClient' = [vClient EXCEPT ![s] = RemoveFirst(@, c)]
  /\ ioOpen' = [ioOpen EXCEPT ![c] = FALSE]
  /\ Leave(c, "ended")
  /\ UNCHANGED <<globalVars, ownerVars, writerVars, conn, context, stamp,
                 nMessages, readMutex, output, clock>>

\* cbMessage takes the read mutex and looks at the flags, again each time it
\* is woken; then who the first client is decides whether the stream of the
\* module is fed, unless all clients feed it.
Lock(c) ==
  LET s == inside[c]
      Feeds == /\ ~stopping[s]
               /\ Contains(vClient[s], c)
               /\ mode.readAll \/ Head(vClient[s]) = c
  IN
  /\ cpc[c] = "lock"
  /\ readMutex[s] = NoOne
  /\ IF readPaused[s] /\ ~stopping[s]
     THEN /\ cpc' = [cpc EXCEPT ![c] = "waiting"]
          /\ UNCHANGED <<readMutex, inside>>
     ELSE IF Feeds
     THEN /\ readMutex' = [readMutex EXCEPT ![s] = c]
          /\ cpc' = [cpc EXCEPT ![c] = "time"]
          /\ UNCHANGED inside
     ELSE Leave(c, "idle") /\ UNCHANGED readMutex
  /\ UNCHANGED <<globalVars, ownerVars, writerVars, conn, context, stamp,
                 nMessages, vClient, ioOpen, output, clock>>

\* The time is taken before the lock of the stream; the clock may stand still
\* between two readings.
Time(c) ==
  /\ cpc[c] = "time"
  /\ clock' \in {clock, clock + 1}
  /\ stamp' = [stamp EXCEPT ![c] = clock']
  /\ cpc' = [cpc EXCEPT ![c] = "add"]
  /\ UNCHANGED <<globalVars, ownerVars, writerVars, conn, context, inside,
                 nMessages, readMutex, vClient, ioOpen, output>>

Add(c) ==
  LET s == inside[c] IN
  /\ cpc[c] = "add"
  /\ output' = [output EXCEPT ![s] = Append(@, stamp[c])]
  /\ stamp' = [stamp EXCEPT ![c] = 0]
  /\ readMutex' = [readMutex EXCEPT ![s] = NoOne]
  /\ Leave(c, "idle")
  /\ UNCHANGED <<globalVars, ownerVars, writerVars, conn, context, nMessages,
                 vClient, ioOpen, clock>>

-----------------------------------------------------------------------------
(* The writer: updateW and sendPacket *)

\* The last packet that get() does not return once n have been added: the
\* writer is past it, or it has been overwritten.
Behind(s, n) == IF n > cursor[s] + Capacity THEN n - Capacity ELSE cursor[s]

\* The head of the loop, where a pause holds it; it fetches what is newer than
\* its cursor and still in the ring.
Pass(s) ==
  /\ wpc[s] = "pass"
  /\ request[s] = "run"
  /\ s \in Senders
  /\ vClient[s] # <<>>
  /\ front' = [front EXCEPT ![s] = Head(vClient[s])]
  /\ \E n \in fetched[s] .. MaxPackets :
       LET behind == Behind(s, n) IN
       /\ n > cursor[s]
       /\ fetched' = [fetched EXCEPT ![s] = n]
       /\ iBp' = [iBp EXCEPT ![s] = behind]
       /\ missed' = [missed EXCEPT ![s] = @ \cup (cursor[s] + 1 .. behind)]
  /\ wpc' = [wpc EXCEPT ![s] = "packet"]
  /\ UNCHANGED <<globalVars, ownerVars, toSend, bSent, cursor, got,
                 clientVars, sharedVars>>

\* It looks at the request before every packet and every client.
End(s) ==
  /\ wpc[s] \in {"pass", "packet"} \/ (wpc[s] = "send" /\ toSend[s] # {})
  /\ request[s] = "stop"
  /\ wpc' = [wpc EXCEPT ![s] = "ended"]
  /\ UNCHANGED <<globalVars, ownerVars, front, fetched, iBp, toSend, bSent,
                 cursor, got, missed, clientVars, sharedVars>>

\* All that was fetched has been sent.
PassEnds(s) ==
  /\ wpc[s] = "packet"
  /\ iBp[s] = fetched[s]
  /\ wpc' = [wpc EXCEPT ![s] = "pass"]
  /\ UNCHANGED <<globalVars, ownerVars, front, fetched, iBp, toSend, bSent,
                 cursor, got, missed, clientVars, sharedVars>>

\* The next packet goes to the client that was first at the head of the loop; if
\* that fails the packet is fetched again.
SendFront(s) ==
  /\ wpc[s] = "packet"
  /\ request[s] # "stop"
  /\ iBp[s] < fetched[s]
  /\ ~mode.broadcast
  /\ IF conn[front[s]] = "open"
     THEN /\ got' = [got EXCEPT ![front[s]] = Append(@, <<s, iBp[s] + 1>>)]
          /\ MovePast(s)
          /\ UNCHANGED wpc
     ELSE /\ wpc' = [wpc EXCEPT ![s] = "pass"]
          /\ UNCHANGED <<got, iBp, cursor>>
  /\ UNCHANGED <<globalVars, ownerVars, front, fetched, toSend, bSent, missed,
                 clientVars, sharedVars>>

\* It goes to everyone who is a client now, ...
Broadcast(s) ==
  /\ wpc[s] = "packet"
  /\ request[s] # "stop"
  /\ iBp[s] < fetched[s]
  /\ mode.broadcast
  /\ toSend' = [toSend EXCEPT ![s] = ToSet(vClient[s])]
  /\ bSent' = [bSent EXCEPT ![s] = FALSE]
  /\ wpc' = [wpc EXCEPT ![s] = "send"]
  /\ UNCHANGED <<globalVars, ownerVars, front, fetched, iBp, cursor, got,
                 missed, clientVars, sharedVars>>

\* ... one after the other, ...
SendTo(s, c) ==
  /\ wpc[s] = "send"
  /\ request[s] # "stop"
  /\ c \in toSend[s]
  /\ toSend' = [toSend EXCEPT ![s] = @ \ {c}]
  /\ IF ioOpen[c] /\ conn[c] = "open"
     THEN /\ got' = [got EXCEPT ![c] = Append(@, <<s, iBp[s] + 1>>)]
          /\ bSent' = [bSent EXCEPT ![s] = TRUE]
     ELSE UNCHANGED <<got, bSent>>
  /\ UNCHANGED <<globalVars, ownerVars, wpc, front, fetched, iBp, cursor,
                 missed, clientVars, sharedVars>>

\* ... and counts as sent when it has reached one of them.
SendNext(s) ==
  /\ wpc[s] = "send"
  /\ toSend[s] = {}
  /\ IF bSent[s]
     THEN /\ MovePast(s)
          /\ wpc' = [wpc EXCEPT ![s] = "packet"]
     ELSE /\ wpc' = [wpc EXCEPT ![s] = "pass"]
          /\ UNCHANGED <<iBp, cursor>>
  /\ UNCHANGED <<globalVars, ownerVars, front, fetched, toSend, bSent, got,
                 missed, clientVars, sharedVars>>

Owner(s) ==
  \/ Start(s) \/ StartWorkers(s) \/ StartFails(s)
  \/ Pause(s) \/ PauseWorkers(s)
  \/ Resume(s) \/ ResumeNotify(s) \/ ResumeWorkers(s)
  \/ Stop(s) \/ StopNotify(s) \/ StopWriter(s) \/ Drain(s) \/ StopEnds(s)
  \/ LoadConfig(s)

Writer(s) ==
  \/ Pass(s) \/ End(s) \/ PassEnds(s) \/ SendFront(s) \/ Broadcast(s)
  \/ (\E c \in Clients : SendTo(s, c)) \/ SendNext(s)

\* A callback, from its entry to its end.
Callback(c) ==
  \/ EnterOpen(c) \/ EnterClose(c)
  \/ CbOpen(c) \/ CbClose(c) \/ Lock(c) \/ Time(c) \/ Add(c)

Next ==
  \/ \E s \in Servers : Owner(s) \/ Writer(s)
  \/ \E c \in Clients : \/ \E s \in Servers : Connect(c, s)
                        \/ Disconnect(c) \/ EnterMessage(c) \/ Callback(c)

\* Threads run, and an owner finishes the call it is in.
Fairness ==
  /\ \A s \in Servers :
       /\ WF_vars(Writer(s))
       /\ WF_vars(StartWorkers(s) \/ PauseWorkers(s) \/ ResumeNotify(s)
                    \/ ResumeWorkers(s))
       /\ WF_vars((ctl[s] = "stop" /\ Stop(s)) \/ StopNotify(s) \/ StopWriter(s)
                    \/ Drain(s) \/ StopEnds(s))
  /\ \A c \in Clients : WF_vars(Callback(c))

Spec == Init /\ [][Next]_vars
FairSpec == Spec /\ Fairness

-----------------------------------------------------------------------------
(* Properties *)

\* Every variable holds values of its type, and a client is listed once.
TypeOK ==
  /\ mode \in Modes
  /\ pServer \in Servers \cup {NoOne}
  /\ lastToken \in 0 .. MaxStarts
  /\ ctl \in [Servers -> {"new", "starting", "run", "pausing", "paused",
                          "resumed", "resuming", "stop", "stopFlag",
                          "stopWriter", "drain", "join", "stopped"}]
  /\ token \in [Servers -> 0 .. lastToken]
  /\ stopping \in [Servers -> BOOLEAN]
  /\ readPaused \in [Servers -> BOOLEAN]
  /\ readMutex \in [Servers -> Clients \cup {NoOne}]
  /\ listening \in [Servers -> BOOLEAN]
  /\ \A s \in Servers : /\ vClient[s] \in Seq(Clients)
                        /\ IsInjective(vClient[s])
                        /\ output[s] \in Seq(0 .. clock)
  /\ nPauses \in [Servers -> 0 .. MaxPauses]
  /\ request \in [Servers -> {"run", "pause", "stop"}]
  /\ wpc \in [Servers -> {"none", "pass", "packet", "send", "ended"}]
  /\ front \in [Servers -> Clients \cup {NoOne}]
  /\ fetched \in [Servers -> 0 .. MaxPackets]
  /\ iBp \in [Servers -> 0 .. MaxPackets]
  /\ toSend \in [Servers -> SUBSET Clients]
  /\ bSent \in [Servers -> BOOLEAN]
  /\ cursor \in [Servers -> 0 .. MaxPackets]
  /\ conn \in [Clients -> {"none", "open", "gone"}]
  /\ context \in [Clients -> 0 .. lastToken]
  /\ cpc \in [Clients -> {"none", "opening", "cbOpen", "idle", "lock",
                          "waiting", "time", "add", "cbClose", "ended"}]
  /\ inside \in [Clients -> Servers \cup {NoOne}]
  /\ ioOpen \in [Clients -> BOOLEAN]
  /\ stamp \in [Clients -> 0 .. clock]
  /\ nMessages \in [Clients -> 0 .. MaxMessages]
  /\ \A c \in Clients : got[c] \in Seq(Servers \X (1 .. MaxPackets))
  /\ missed \in [Servers -> SUBSET (1 .. MaxPackets)]
  /\ clock \in Nat

\* A callback runs only in the server that accepted its connection, and none
\* once the server's stop() is past the drain, though connections live on and
\* another server may have taken its place; nor does its writer or a client
\* outlive stop().
NothingOutlivesStop ==
  /\ \A c \in Clients : inside[c] # NoOne =>
       /\ token[inside[c]] = context[c]
       /\ ctl[inside[c]] \notin {"join", "stopped"}
  /\ \A s \in Servers : ctl[s] = "stopped" =>
       /\ vClient[s] = <<>>
       /\ wpc[s] \in {"none", "ended"}
       /\ pServer # s

\* Readers of the stream keep a stamp as their cursor: callbacks that run at
\* the same time add their messages in the order of their stamps, so that none
\* is added behind a reader.  (Two may have the same stamp.)
StampsNeverDecrease ==
  \A s \in Servers : \A i, j \in 1 .. Len(output[s]) :
    i < j => output[s][i] <= output[s][j]

\* Once the pause flag is set nothing is added until it is reset, not by a
\* callback that was already running.
PausedMeansNoInput ==
  [][\A s \in Servers : readPaused[s] => output'[s] = output[s]]_vars

\* Someone has been sent packet p of s.
HasGot(s, p) == \E c \in Clients : Contains(got[c], <<s, p>>)

\* What a client is sent comes from one server, in order and without repetition,
\* although other clients come, go and fail.  A packet is passed over by one
\* client, or by all of them, only if it was overwritten in the ring before the
\* writer asked for it, with Capacity newer ones.
PacketsAreSentOnce ==
  /\ \A c \in Clients : \A i \in 1 .. Len(got[c]) - 1 :
       LET was == got[c][i]
           is == got[c][i + 1]
       IN /\ is[1] = was[1]
          /\ was[2] < is[2]
          /\ was[2] + 1 .. is[2] - 1 \subseteq missed[is[1]]
  /\ \A s \in Servers :
       /\ \A p \in 1 .. cursor[s] : p \in missed[s] \/ HasGot(s, p)
       /\ \A p \in missed[s] : p + Capacity <= fetched[s]

\* stop() returns although callbacks wait for the end of a pause; only another
\* server that stays paused can hold it, the callback mutex being shared.
StopReturns ==
  \A s \in Servers :
    ctl[s] \in {"stop", "stopFlag", "stopWriter", "drain", "join"}
      ~> \/ ctl[s] = "stopped"
         \/ \E other \in Servers \ {s} : readPaused[other]

\* Once resume() has reset the flag, a callback that waits for it gets through,
\* to its end, unless there is another pause.
ResumeReleases ==
  \A s \in Servers : \A c \in Clients :
    cpc[c] = "waiting" /\ inside[c] = s /\ ~readPaused[s]
      ~> inside[c] = NoOne \/ readPaused[s]
=============================================================================
