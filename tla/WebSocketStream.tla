--------------------------- MODULE WebSocketStream ---------------------------
(***************************************************************************)
(* Snapshots for browsers (src/IO/WebSocketStream.cpp), with the worker    *)
(* that publishes them from a pool of reused buffers (_WebGeometry.cpp)    *)
(* and the browser's end of a connection (geometryConnection.js).          *)
(*                                                                         *)
(* Three kinds of actors: the producer, which only takes the mutex to      *)
(* publish; the network thread, which runs one handler at a time and owns  *)
(* the sessions; the browsers, behind two channels.  A handler is one step *)
(* except the notification, which visits the sessions one after the other. *)
(* Snapshot number n is the n-th published one: n is its version.          *)
(***************************************************************************)
EXTENDS Integers, FiniteSets, Sequences

CONSTANTS
  Sessions,      \* places for browser connections
  MaxClients,    \* State::limit
  Modes,         \* of "BinaryAcknowledged" and "TextPush"
  Buffers,       \* snapshot buffers, numbered in the order they are allocated
  NoBuffer,      \* a null Frame
  MaxVersions,   \* bound: snapshots published
  MaxUpgrades,   \* bound: connections accepted
  MaxCommands    \* bound: commands a browser sends out of turn

ASSUME WebSocketAssumption ==
  /\ MaxClients \in Nat
  /\ Modes \subseteq {"BinaryAcknowledged", "TextPush"}
  /\ Buffers \subseteq Nat
  /\ NoBuffer \notin Buffers
  /\ MaxVersions \in Nat
  /\ MaxUpgrades \in Nat
  /\ MaxCommands \in Nat

VARIABLES
  mode,          \* the Mode of the stream
  latest,        \* State::latest
  version,       \* State::version
  notification,  \* State::notification: a handler is posted to the io_context
  toNotify,      \* sessions the running notification has still to visit
  session,       \* the sessions, as their members
  stopped,       \* stop() was called, after HttpServer::stop()
  filling,       \* the buffer the producer is working on
  filled,        \* the producer has finished it
  pool,          \* Stream::buffers
  content,       \* the snapshot a buffer holds, 0 while it is overwritten
  down,          \* messages on their way to each browser, 0 is the hello
  up,            \* commands on their way back
  lost,          \* the browser has gone or cannot be reached
  shown,         \* the snapshot each browser has drawn
  nUpgrades,     \* bound counters
  nCommands

stateVars == <<mode, latest, version, notification>>
producerVars == <<filling, filled, pool, content>>
browserVars == <<up, lost, shown, nCommands>>
vars == <<stateVars, toNotify, session, stopped, producerVars, down,
          browserVars, nUpgrades>>

Acknowledged == mode = "BinaryAcknowledged"

\* The members of a Session; "pending" are its outstanding asynchronous
\* operations, each of which keeps the object alive.
NoSession ==
  [status |-> "free", pending |-> {}, writing |-> TRUE, enabled |-> FALSE,
   awaitingAck |-> FALSE, sending |-> NoBuffer, sentVersion |-> 0]

Init ==
  /\ mode \in Modes
  /\ latest = NoBuffer
  /\ version = 0
  /\ notification = FALSE
  /\ toNotify = {}
  /\ session = [s \in Sessions |-> NoSession]
  /\ stopped = FALSE
  /\ filling = NoBuffer
  /\ filled = FALSE
  /\ pool = {}
  /\ content = [b \in Buffers |-> 0]
  /\ down = [s \in Sessions |-> <<>>]
  /\ up = [s \in Sessions |-> <<>>]
  /\ lost = [s \in Sessions |-> FALSE]
  /\ shown = [s \in Sessions |-> 0]
  /\ nUpgrades = 0
  /\ nCommands = 0

Clients == {s \in Sessions : session[s].status # "free"}

\* One handler at a time, and none once the server has stopped.
NetworkIsFree == toNotify = {} /\ ~stopped

-----------------------------------------------------------------------------
(* Mutants: plausible mistakes in Session *)

\* The credit is taken only for the first snapshot.
AfterSendForgetsCredit(S) ==
  [S EXCEPT !.sending = latest, !.sentVersion = version, !.writing = TRUE,
            !.awaitingAck = Acknowledged /\ S.sentVersion = 0,
            !.pending = @ \cup {"write"}]

\* A session does not remember which snapshot it has sent.
AfterSendForgetsVersion(S) ==
  [S EXCEPT !.sending = latest, !.writing = TRUE,
            !.awaitingAck = Acknowledged, !.pending = @ \cup {"write"}]

\* A session dies with operations outstanding.
ClosedAtOnce(S) == [S EXCEPT !.status = "free"]

-----------------------------------------------------------------------------
(* Session *)

\* close() of a session, which dies when its last operation has ended.
Closed(S) ==
  IF S.pending = {} THEN NoSession ELSE [S EXCEPT !.status = "closed"]

Without(S, op) == [S EXCEPT !.pending = @ \ {op}]

\* send() goes ahead: nothing in flight, subscribed, credit, something new.
MaySend(S) ==
  /\ S.status = "open"
  /\ ~S.writing
  /\ S.enabled
  /\ ~S.awaitingAck
  /\ latest # NoBuffer
  /\ version # S.sentVersion

AfterSend(S) ==
  [S EXCEPT !.sending = latest, !.sentVersion = version, !.writing = TRUE,
            !.awaitingAck = Acknowledged, !.pending = @ \cup {"write"}]

\* Session s becomes S, on which send() is called.
Send(s, S) ==
  /\ session' = [session EXCEPT ![s] = IF MaySend(S) THEN AfterSend(S) ELSE S]
  /\ down' = [down EXCEPT ![s] = IF MaySend(S) THEN Append(@, version) ELSE @]

\* The session ends, or stays closed until its other operation has ended.
CloseSession(s, S) ==
  /\ session' = [session EXCEPT ![s] = Closed(S)]
  /\ UNCHANGED down

-----------------------------------------------------------------------------
(* Mutants: plausible mistakes in WebSocketStream and _WebGeometry *)

\* The pool ignores the snapshots that sessions are still sending.
InUseForgetsSessions == {latest}

\* The producer allocates a buffer for every snapshot.
ReusableNever == {}

\* The completion handler relies on the acknowledgement to send again.
WriteDoneDoesNotSend(s) ==
  /\ NetworkIsFree
  /\ "write" \in session[s].pending
  /\ LET S == [Without(session[s], "write") EXCEPT !.sending = NoBuffer]
     IN IF S.status = "open" /\ ~lost[s]
        THEN /\ session' = [session EXCEPT ![s] = [S EXCEPT !.writing = FALSE]]
             /\ UNCHANGED down
        ELSE CloseSession(s, S)
  /\ UNCHANGED <<stateVars, toNotify, stopped, producerVars, browserVars,
                 nUpgrades>>

-----------------------------------------------------------------------------
(* The network thread *)

\* upgradeHandler(): a session is made unless there are too many.
Upgrade(s) ==
  /\ NetworkIsFree
  /\ session[s] = NoSession
  /\ Cardinality(Clients) < MaxClients
  /\ nUpgrades < MaxUpgrades
  /\ nUpgrades' = nUpgrades + 1
  /\ session' = [session EXCEPT ![s] =
                   [NoSession EXCEPT !.status = "accepting",
                                     !.pending = {"accept"},
                                     !.enabled = ~Acknowledged]]
  /\ down' = [down EXCEPT ![s] = <<>>]
  /\ up' = [up EXCEPT ![s] = <<>>]
  /\ lost' = [lost EXCEPT ![s] = FALSE]
  /\ shown' = [shown EXCEPT ![s] = 0]
  /\ UNCHANGED <<stateVars, toNotify, stopped, producerVars, nCommands>>

\* The handshake is done: greet and listen.
Accept(s) ==
  /\ NetworkIsFree
  /\ "accept" \in session[s].pending
  /\ IF lost[s]
     THEN CloseSession(s, Without(session[s], "accept"))
     ELSE /\ session' = [session EXCEPT ![s].status = "open",
                                        ![s].pending = {"write", "read"}]
          /\ down' = [down EXCEPT ![s] = Append(@, 0)]
  /\ UNCHANGED <<stateVars, toNotify, stopped, producerVars, browserVars,
                 nUpgrades>>

\* The write of the hello or of a snapshot has ended.
WriteDone(s) ==
  /\ NetworkIsFree
  /\ "write" \in session[s].pending
  /\ LET S == [Without(session[s], "write") EXCEPT !.sending = NoBuffer]
     IN IF S.status = "open" /\ ~lost[s]
        THEN Send(s, [S EXCEPT !.writing = FALSE])
        ELSE CloseSession(s, S)
  /\ UNCHANGED <<stateVars, toNotify, stopped, producerVars, browserVars,
                 nUpgrades>>

\* A command of the browser; anything else ends the connection, and so does
\* any message where the browser has nothing to say.
Command(S, cmd) ==
  CASE cmd = "start" -> [S EXCEPT !.enabled = TRUE]
    [] cmd = "pause" -> [S EXCEPT !.enabled = FALSE]
    [] cmd = "next"  -> [S EXCEPT !.awaitingAck = FALSE]

Read(s) ==
  /\ NetworkIsFree
  /\ "read" \in session[s].pending
  /\ session[s].status = "open"
  /\ up[s] # <<>>
  /\ up' = [up EXCEPT ![s] = Tail(@)]
  /\ IF Acknowledged /\ Head(up[s]) \in {"start", "pause", "next"}
     THEN Send(s, Command(session[s], Head(up[s])))
     ELSE CloseSession(s, Without(session[s], "read"))
  /\ UNCHANGED <<stateVars, toNotify, stopped, producerVars, lost, shown,
                 nCommands, nUpgrades>>

\* The read fails: the browser has gone, or the session was closed.
ReadError(s) ==
  /\ NetworkIsFree
  /\ "read" \in session[s].pending
  /\ lost[s] \/ session[s].status = "closed"
  /\ CloseSession(s, Without(session[s], "read"))
  /\ UNCHANGED <<stateVars, toNotify, stopped, producerVars, browserVars,
                 nUpgrades>>

\* The posted notification: reset the flag, then visit every session.
NotifyStart ==
  /\ NetworkIsFree
  /\ notification
  /\ notification' = FALSE
  /\ toNotify' = {s \in Sessions : session[s].status \in {"accepting", "open"}}
  /\ UNCHANGED <<mode, latest, version, session, stopped, producerVars,
                 down, browserVars, nUpgrades>>

Notify(s) ==
  /\ s \in toNotify
  /\ toNotify' = toNotify \ {s}
  /\ Send(s, session[s])
  /\ UNCHANGED <<stateVars, stopped, producerVars, browserVars, nUpgrades>>

\* The owner's stop(): the producer is joined, the server stopped, then every
\* session is closed; handlers that were outstanding never run.
Stop ==
  /\ NetworkIsFree
  /\ filling = NoBuffer
  /\ stopped' = TRUE
  /\ session' = [s \in Sessions |-> Closed(session[s])]
  /\ latest' = NoBuffer
  /\ UNCHANGED <<mode, version, notification, toNotify, producerVars, down,
                 browserVars, nUpgrades>>

-----------------------------------------------------------------------------
(* The producer: _WebGeometry::publish *)

\* Buffers that someone besides the pool refers to.
InUse == {latest} \cup {session[s].sending : s \in Sessions}

Reusable == pool \ InUse

\* Take the first buffer nobody uses, or else a new one, and start to overwrite
\* it.
Candidates == IF Reusable # {} THEN Reusable ELSE Buffers \ pool

Begin(b) ==
  /\ ~stopped
  /\ filling = NoBuffer
  /\ Clients # {}
  /\ version < MaxVersions
  /\ b \in Candidates
  /\ \A other \in Candidates : b <= other
  /\ pool' = pool \cup {b}
  /\ content' = [content EXCEPT ![b] = 0]
  /\ filling' = b
  /\ filled' = FALSE
  /\ UNCHANGED <<stateVars, toNotify, session, stopped, down, browserVars,
                 nUpgrades>>

Finish ==
  /\ filling # NoBuffer
  /\ ~filled
  /\ content' = [content EXCEPT ![filling] = version + 1]
  /\ filled' = TRUE
  /\ UNCHANGED <<stateVars, toNotify, session, stopped, filling, pool, down,
                 browserVars, nUpgrades>>

\* publish(frame) under the mutex; one notification is outstanding at most.
Publish ==
  /\ filling # NoBuffer
  /\ filled
  /\ latest' = filling
  /\ version' = version + 1
  /\ notification' = TRUE
  /\ filling' = NoBuffer
  /\ filled' = FALSE
  /\ UNCHANGED <<mode, toNotify, session, stopped, pool, content, down,
                 browserVars, nUpgrades>>

-----------------------------------------------------------------------------
(* The browsers *)

\* A message arrives: subscribe on the hello, draw a snapshot and give the
\* credit back.
Receive(s) ==
  /\ session[s].status = "open"
  /\ ~lost[s]
  /\ down[s] # <<>>
  /\ down' = [down EXCEPT ![s] = Tail(@)]
  /\ shown' = [shown EXCEPT ![s] = Head(down[s])]
  /\ up' = [up EXCEPT ![s] =
              IF ~Acknowledged THEN @
              ELSE Append(@, IF Head(down[s]) = 0 THEN "start" ELSE "next")]
  /\ UNCHANGED <<stateVars, toNotify, session, stopped, producerVars, lost,
                 nCommands, nUpgrades>>

\* Some other client pauses, resumes or says something else.
Say(s) ==
  /\ session[s].status = "open"
  /\ ~lost[s]
  /\ nCommands < MaxCommands
  /\ nCommands' = nCommands + 1
  /\ \E cmd \in {"start", "pause", "hello?"} :
       up' = [up EXCEPT ![s] = Append(@, cmd)]
  /\ UNCHANGED <<stateVars, toNotify, session, stopped, producerVars, down,
                 lost, shown, nUpgrades>>

\* The browser leaves, the line drops, or a timeout expires.
Leave(s) ==
  /\ session[s].status # "free"
  /\ ~lost[s]
  /\ lost' = [lost EXCEPT ![s] = TRUE]
  /\ UNCHANGED <<stateVars, toNotify, session, stopped, producerVars, down, up,
                 shown, nCommands, nUpgrades>>

NetworkStep(s) ==
  Accept(s) \/ WriteDone(s) \/ Read(s) \/ ReadError(s) \/ Notify(s)

Next ==
  \/ \E s \in Sessions :
       Upgrade(s) \/ NetworkStep(s) \/ Receive(s) \/ Say(s) \/ Leave(s)
  \/ NotifyStart \/ Stop
  \/ \E b \in Buffers : Begin(b)
  \/ Finish \/ Publish

\* The network thread runs every handler that is due, the producer finishes
\* what it has begun, a browser handles what it receives.
Fairness ==
  /\ \A s \in Sessions : /\ SF_vars(Accept(s))
                         /\ SF_vars(WriteDone(s))
                         /\ SF_vars(Read(s))
                         /\ SF_vars(ReadError(s))
                         /\ WF_vars(Notify(s))
                         /\ WF_vars(Receive(s))
  /\ SF_vars(NotifyStart)
  /\ WF_vars(Finish)
  /\ WF_vars(Publish)

Spec == Init /\ [][Next]_vars
FairSpec == Spec /\ Fairness

-----------------------------------------------------------------------------
(* Properties *)

Frames == Buffers \cup {NoBuffer}
Commands == {"start", "pause", "next", "hello?"}
Session ==
  [status : {"free", "accepting", "open", "closed"},
   pending : SUBSET {"accept", "read", "write"}, writing : BOOLEAN,
   enabled : BOOLEAN, awaitingAck : BOOLEAN, sending : Frames,
   sentVersion : 0 .. MaxVersions]

\* Sessions, buffers and channels hold values of their types.
TypeOK ==
  /\ mode \in Modes
  /\ latest \in Frames
  /\ version \in 0 .. MaxVersions
  /\ notification \in BOOLEAN
  /\ toNotify \subseteq Sessions
  /\ session \in [Sessions -> Session]
  /\ \A s \in Sessions : session[s].status = "free" <=> session[s] = NoSession
  /\ stopped \in BOOLEAN
  /\ filling \in Frames
  /\ filled \in BOOLEAN
  /\ pool \subseteq Buffers
  /\ content \in [Buffers -> 0 .. MaxVersions]
  /\ down \in [Sessions -> Seq(0 .. MaxVersions)]
  /\ up \in [Sessions -> Seq(Commands)]
  /\ lost \in [Sessions -> BOOLEAN]
  /\ shown \in [Sessions -> 0 .. MaxVersions]
  /\ nUpgrades \in 0 .. MaxUpgrades
  /\ nCommands \in 0 .. MaxCommands

\* A published snapshot is immutable although its buffer is reused: the newest
\* one and every one still being sent are intact and are what they are said to
\* be, while the producer overwrites another.
SnapshotsAreStable ==
  /\ latest # NoBuffer => content[latest] = version
  /\ \A s \in Sessions :
       session[s].sending # NoBuffer =>
         content[session[s].sending] = session[s].sentVersion

\* However slow the browsers are, the producer keeps at most one snapshot for
\* each of them, the newest one and the one it is working on.
PoolIsBounded == Cardinality(pool) <= MaxClients + 2

\* The snapshots on their way to s, and the credits on their way back, by
\* their places in the channels.
Places(q, X) == {i \in DOMAIN q : q[i] \in X}
Snapshots == 1 .. MaxVersions
InFlight(s) == Places(down[s], Snapshots)
Returning(s) == Places(up[s], {"next"})

\* A browser that acknowledges has one credit: it is with the server, with a
\* snapshot under way, or on its way back, whatever else the browser says.
OneCredit ==
  Acknowledged =>
    \A s \in Sessions : session[s].status = "open" =>
      Cardinality(InFlight(s)) + Cardinality(Returning(s))
        = IF session[s].awaitingAck THEN 1 ELSE 0

\* What comes after snapshot n in the channel q goes forward.
Forward(n, q) ==
  \A i \in Places(q, Snapshots) :
    /\ n < q[i]
    /\ \A j \in Places(q, Snapshots) : i < j => q[i] < q[j]

\* What a browser is sent goes forward: it never gets a snapshot twice, nor an
\* older one after a newer one.
SnapshotsGoForward == \A s \in Sessions : Forward(shown[s], down[s])

\* Nothing newer is forgotten: whenever publications pause, a browser that is
\* connected and subscribed draws the newest snapshot, though notifications are
\* merged and a completion, an acknowledgement and a publication come in any
\* order.  (The bound on publications makes every behaviour end in such a pause.)
NewestIsShown ==
  \A s \in Sessions :
    []<>(session[s].status = "open" /\ session[s].enabled /\ ~lost[s]
           /\ ~stopped => shown[s] = version)
=============================================================================
