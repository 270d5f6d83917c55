------------------------ MODULE WebSocketStreamProofs ------------------------
(***************************************************************************)
(* Proofs about WebSocketStream: for any number of connections, buffers,   *)
(* publications and commands, in every interleaving of the producer with   *)
(* the network thread.                                                     *)
(***************************************************************************)
EXTENDS WebSocketStream, FiniteSetTheorems, FunctionTheorems,
        SequenceTheorems, TLAPS

\* The buffer being overwritten belongs to the pool, and nobody else refers to
\* it; once it is finished it holds the snapshot that comes next.
FillingInv ==
  /\ InUse \subseteq pool \cup {NoBuffer}
  /\ filling # NoBuffer => filling \in pool /\ filling \notin InUse
  /\ filled => content[filling] = version + 1

\* A snapshot is only begun when there may be one more.
RoomInv == filling # NoBuffer => version < MaxVersions

TypeInv == TypeOK /\ RoomInv

StableInv == TypeInv /\ FillingInv /\ SnapshotsAreStable

\* Only clients send, and there are never too many of them.
ClientsInv ==
  /\ IsFiniteSet(Clients)
  /\ Cardinality(Clients) <= MaxClients
  /\ \A s \in Sessions : session[s].sending # NoBuffer => s \in Clients

PoolInv == IsFiniteSet(pool) /\ PoolIsBounded

\* The actions that change a session which exists already.
SessionStep ==
  Stop \/ \E s \in Sessions : NetworkStep(s)

\* S is a session that is there or is not.
Proper(S) == S \in Session /\ (S.status = "free" <=> S = NoSession)

\* What one operation may do to what a session sends: go on with it, end it, or
\* take the newest snapshot.
Follows(S, T) ==
  /\ T.sending # NoBuffer =>
       \/ T.sending = S.sending /\ T.sentVersion = S.sentVersion
       \/ T.sending = latest /\ T.sentVersion = version
  /\ S = NoSession => T = NoSession

-----------------------------------------------------------------------------
\* A session as it is when its place is free.
LEMMA NoSessionProper == NoSession \in Session /\ NoSession.status = "free"
                         /\ NoSession.sending = NoBuffer
BY WebSocketAssumption DEF NoSession, Session, Frames

\* close() leaves a proper session, which sends nothing new.
LEMMA ClosedEffect ==
  ASSUME NEW S \in Session
  PROVE  Proper(Closed(S)) /\ Follows(S, Closed(S))
<1>1. CASE S.pending = {}
  BY <1>1, NoSessionProper DEF Closed, Proper, Follows
<1>2. CASE S.pending # {}
  <2>1. Closed(S) = [S EXCEPT !.status = "closed"]
    BY <1>2 DEF Closed
  <2>2. Closed(S) \in Session /\ Closed(S).status = "closed"
        /\ Closed(S).sending = S.sending /\ Closed(S).sentVersion = S.sentVersion
    BY <2>1 DEF Session
  <2>3. S # NoSession
    BY <1>2 DEF NoSession
  <2> QED BY <2>2, <2>3, NoSessionProper DEF Proper, Follows
<1> QED BY <1>1, <1>2

\* send() leaves a proper session, and the newest snapshot as the one it sends.
LEMMA SendEffect ==
  ASSUME TypeOK, NEW S \in Session, Proper(S), MaySend(S)
  PROVE  Proper(AfterSend(S)) /\ Follows(S, AfterSend(S))
<1>1. AfterSend(S) \in Session /\ AfterSend(S).status = "open"
      /\ AfterSend(S).sending = latest /\ AfterSend(S).sentVersion = version
  BY DEF TypeOK, AfterSend, MaySend, Session, Acknowledged
<1>2. S # NoSession
  BY NoSessionProper DEF MaySend
<1> QED BY <1>1, <1>2, NoSessionProper DEF Proper, Follows

\* A session may take a new value on which send() or close() is then called.
LEMMA UpdateEffect ==
  ASSUME TypeOK, NEW s \in Sessions, NEW S \in Session, Proper(S),
         Follows(session[s], S), session[s] # NoSession,
         Send(s, S) \/ CloseSession(s, S)
  PROVE  /\ session' \in [Sessions -> Session]
         /\ \A u \in Sessions : /\ Proper(session'[u])
                                /\ Follows(session[u], session'[u])
<1>1. PICK T : /\ session' = [session EXCEPT ![s] = T]
               /\ \/ T = S
                  \/ T = AfterSend(S) /\ MaySend(S)
                  \/ T = Closed(S)
  BY DEF Send, CloseSession
<1>2. T \in Session /\ Proper(T) /\ Follows(S, T)
  BY <1>1, ClosedEffect, SendEffect DEF Proper, Follows
<1>3. Follows(session[s], T)
  BY <1>2 DEF Follows
<1>4. \A u \in Sessions : Proper(session[u]) /\ Follows(session[u], session[u])
  BY DEF TypeOK, Proper, Follows
<1> QED BY <1>1, <1>2, <1>3, <1>4 DEF TypeOK
-----------------------------------------------------------------------------
\* The values a handler starts from.
LEMMA WithoutEffect ==
  ASSUME NEW S \in Session, NEW op, S # NoSession, Proper(S)
  PROVE  /\ Without(S, op) \in Session
         /\ Proper(Without(S, op)) /\ Follows(S, Without(S, op))
<1>1. Without(S, op) = [S EXCEPT !.pending = S.pending \ {op}]
  BY DEF Without
<1>2. Without(S, op) \in Session /\ Without(S, op).status = S.status
      /\ Without(S, op).sending = S.sending
      /\ Without(S, op).sentVersion = S.sentVersion
  BY <1>1 DEF Session
<1> QED BY <1>2, NoSessionProper DEF Proper, Follows

\* The network thread accepts the handshake of a browser.
LEMMA AcceptEffect ==
  ASSUME TypeOK, NEW s \in Sessions, Accept(s), ~lost[s],
         session[s] # NoSession
  PROVE  /\ session' \in [Sessions -> Session]
         /\ \A u \in Sessions : /\ Proper(session'[u])
                                /\ Follows(session[u], session'[u])
<1> DEFINE S == [session[s] EXCEPT !.status = "open",
                                   !.pending = {"write", "read"}]
<1>1. session' = [session EXCEPT ![s] = S]
  BY DEF Accept, TypeOK
<1>0. session[s] \in Session
  BY DEF TypeOK
<1>2. S \in Session /\ S.status = "open" /\ S.sending = session[s].sending
      /\ S.sentVersion = session[s].sentVersion
  BY <1>0 DEF Session
<1>3. Proper(S) /\ Follows(session[s], S)
  BY <1>2, NoSessionProper DEF Proper, Follows
<1>4. \A u \in Sessions : Proper(session[u]) /\ Follows(session[u], session[u])
  BY DEF Follows, Proper, TypeOK
<1> HIDE DEF S
<1> QED BY <1>1, <1>2, <1>3, <1>4 DEF TypeOK

\* The write of a session has ended.
LEMMA WriteDoneEffect ==
  ASSUME TypeOK, NEW s \in Sessions, WriteDone(s)
  PROVE  \E S \in Session : /\ Proper(S) /\ Follows(session[s], S)
                            /\ Send(s, S) \/ CloseSession(s, S)
<1> DEFINE S0 == Without(session[s], "write")
           S == [S0 EXCEPT !.sending = NoBuffer]
           T == [S EXCEPT !.writing = FALSE]
<1>1. session[s] # NoSession
  BY DEF WriteDone, NoSession
<1>2. session[s] \in Session /\ Proper(session[s])
  BY DEF TypeOK, Proper
<1>3. S0 \in Session /\ Proper(S0)
  BY <1>1, <1>2, WithoutEffect
<1>4. S0.status # "free"
  BY <1>1, <1>2 DEF Proper, Without, Session
<1>5. S \in Session /\ S.sending = NoBuffer /\ S.status = S0.status
  BY <1>3 DEF Session, Frames
<1>6. T \in Session /\ T.sending = NoBuffer /\ T.status = S0.status
  BY <1>5 DEF Session
<1>7. Proper(S) /\ Follows(session[s], S) /\ Proper(T) /\ Follows(session[s], T)
  BY <1>1, <1>4, <1>5, <1>6, NoSessionProper DEF Proper, Follows
<1>8. Send(s, T) \/ CloseSession(s, S)
  BY DEF WriteDone
<1> HIDE DEF S0, S, T
<1> QED BY <1>5, <1>6, <1>7, <1>8

\* A command of the browser changes no more than the subscription.
LEMMA CommandEffect ==
  ASSUME TypeOK, NEW s \in Sessions, NEW cmd \in {"start", "pause", "next"},
         session[s] # NoSession
  PROVE  /\ Command(session[s], cmd) \in Session
         /\ Proper(Command(session[s], cmd))
         /\ Follows(session[s], Command(session[s], cmd))
<1> DEFINE S == Command(session[s], cmd)
<1>0. session[s] \in Session
  BY DEF TypeOK
<1>1. S \in Session /\ S.status = session[s].status
      /\ S.sending = session[s].sending
      /\ S.sentVersion = session[s].sentVersion
  <2>1. CASE cmd = "start"
    BY <1>0, <2>1 DEF Command, Session
  <2>2. CASE cmd = "pause"
    BY <1>0, <2>2 DEF Command, Session
  <2>3. CASE cmd = "next"
    BY <1>0, <2>3 DEF Command, Session
  <2> QED BY <2>1, <2>2, <2>3
<1>2. session[s].status # "free"
  BY DEF TypeOK
<1>3. Proper(S) /\ Follows(session[s], S)
  BY <1>1, <1>2, NoSessionProper DEF Proper, Follows
<1> QED BY <1>1, <1>3

\* What the network thread does to the sessions that exist.
LEMMA SessionEffect ==
  ASSUME TypeOK, SessionStep
  PROVE  /\ session' \in [Sessions -> Session]
         /\ \A s \in Sessions : /\ Proper(session'[s])
                                /\ Follows(session[s], session'[s])
<1>1. \A s \in Sessions : /\ session[s] \in Session /\ Proper(session[s])
                          /\ Follows(session[s], session[s])
  BY DEF TypeOK, Proper, Follows
<1>2. CASE Stop
  <2>1. session' = [s \in Sessions |-> Closed(session[s])]
    BY <1>2 DEF Stop
  <2>2. \A s \in Sessions : /\ Proper(Closed(session[s]))
                            /\ Follows(session[s], Closed(session[s]))
    BY <1>1, ClosedEffect
  <2> QED BY <2>1, <2>2 DEF Proper
<1>3. ASSUME NEW s \in Sessions, NetworkStep(s)
      PROVE  /\ session' \in [Sessions -> Session]
             /\ \A u \in Sessions : /\ Proper(session'[u])
                                    /\ Follows(session[u], session'[u])
  <2>1. ASSUME NEW op, op \in session[s].pending,
               CloseSession(s, Without(session[s], op))
        PROVE  /\ session' \in [Sessions -> Session]
               /\ \A u \in Sessions : /\ Proper(session'[u])
                                      /\ Follows(session[u], session'[u])
    <3>1. session[s] # NoSession
      BY <2>1 DEF NoSession
    <3> QED BY <2>1, <3>1, <1>1, WithoutEffect, UpdateEffect
  <2>2. CASE Accept(s)
    <3>1. session[s] # NoSession
      BY <2>2 DEF Accept, NoSession
    <3>2. CASE lost[s]
      BY <2>1, <2>2, <3>2 DEF Accept
    <3> QED BY <2>2, <3>1, <3>2, AcceptEffect
  <2>3. CASE WriteDone(s)
    <3>1. session[s] # NoSession
      BY <2>3 DEF WriteDone, NoSession
    <3> QED BY <2>3, <3>1, WriteDoneEffect, UpdateEffect
  <2>4. CASE Read(s)
    <3>1. session[s] # NoSession
      BY <2>4 DEF Read, NoSession
    <3>2. CASE Acknowledged /\ Head(up[s]) \in {"start", "pause", "next"}
      <4>1. Send(s, Command(session[s], Head(up[s])))
        BY <2>4, <3>2 DEF Read
      <4> QED BY <3>1, <3>2, <4>1, CommandEffect, UpdateEffect
    <3> QED BY <2>1, <2>4, <3>2 DEF Read
  <2>5. CASE ReadError(s)
    BY <2>1, <2>5 DEF ReadError
  <2>6. CASE Notify(s)
    <3>1. Send(s, session[s])
      BY <2>6 DEF Notify
    <3>2. CASE session[s] # NoSession
      BY <3>1, <3>2, <1>1, UpdateEffect
    <3>3. CASE session[s] = NoSession
      <4>1. ~MaySend(session[s])
        BY <3>3 DEF MaySend, NoSession
      <4>2. session' = session
        BY <3>1, <4>1 DEF Send, TypeOK
      <4> QED BY <4>2, <1>1 DEF TypeOK
    <3> QED BY <3>2, <3>3
  <2> QED BY <1>3, <2>2, <2>3, <2>4, <2>5, <2>6 DEF NetworkStep
<1> QED BY <1>2, <1>3 DEF SessionStep

-----------------------------------------------------------------------------
\* Messages put on their way keep the type of the channel.
LEMMA DownType ==
  ASSUME TypeOK, NEW s \in Sessions, NEW S,
         Send(s, S) \/ CloseSession(s, S)
  PROVE  down' \in [Sessions -> Seq(0 .. MaxVersions)]
<1>1. down' = down \/ down' = [down EXCEPT ![s] = Append(down[s], version)]
  BY DEF Send, CloseSession, TypeOK
<1>2. down[s] \in Seq(0 .. MaxVersions) /\ version \in 0 .. MaxVersions
  BY DEF TypeOK
<1>3. Append(down[s], version) \in Seq(0 .. MaxVersions)
  BY <1>2
<1> QED BY <1>1, <1>3 DEF TypeOK

\* A handler of the network thread keeps the types.
LEMMA SessionStepType ==
  ASSUME TypeOK, SessionStep
  PROVE  TypeOK'
<1>1. /\ session' \in [Sessions -> Session]
      /\ \A s \in Sessions : session'[s].status = "free" <=> session'[s] = NoSession
  BY SessionEffect DEF Proper
<1>2. CASE Stop
  BY <1>1, <1>2 DEF Stop, TypeOK, Frames, producerVars, browserVars
<1>3. ASSUME NEW s \in Sessions, NetworkStep(s)
      PROVE  TypeOK'
  <2>1. CASE Accept(s)
    <3>1. down' \in [Sessions -> Seq(0 .. MaxVersions)]
      <4>1. CASE lost[s]
        BY <2>1, <4>1, DownType DEF Accept
      <4>2. CASE ~lost[s]
        <5>1. down' = [down EXCEPT ![s] = Append(down[s], 0)]
          BY <2>1, <4>2 DEF Accept
        <5>2. Append(down[s], 0) \in Seq(0 .. MaxVersions)
          BY WebSocketAssumption DEF TypeOK
        <5> QED BY <5>1, <5>2 DEF TypeOK
      <4> QED BY <4>1, <4>2
    <3> QED BY <1>1, <2>1, <3>1
        DEF Accept, TypeOK, stateVars, producerVars, browserVars
  <2>2. CASE WriteDone(s)
    <3>1. down' \in [Sessions -> Seq(0 .. MaxVersions)]
      BY <2>2, WriteDoneEffect, DownType
    <3> QED BY <1>1, <2>2, <3>1
        DEF WriteDone, TypeOK, stateVars, producerVars, browserVars
  <2>3. CASE Read(s)
    <3>1. down' \in [Sessions -> Seq(0 .. MaxVersions)]
      <4>1. \E S : Send(s, S) \/ CloseSession(s, S)
        BY <2>3 DEF Read
      <4> QED BY <4>1, DownType
    <3>2. up' \in [Sessions -> Seq(Commands)]
      <4>1. up' = [up EXCEPT ![s] = Tail(up[s])] /\ up[s] # <<>>
        BY <2>3 DEF Read
      <4>2. Tail(up[s]) \in Seq(Commands)
        BY <4>1 DEF TypeOK
      <4> QED BY <4>1, <4>2 DEF TypeOK
    <3> QED BY <1>1, <2>3, <3>1, <3>2 DEF Read, TypeOK, stateVars, producerVars
  <2>4. CASE ReadError(s)
    <3>1. down' \in [Sessions -> Seq(0 .. MaxVersions)]
      BY <2>4, DownType DEF ReadError
    <3> QED BY <1>1, <2>4, <3>1
        DEF ReadError, TypeOK, stateVars, producerVars, browserVars
  <2>5. CASE Notify(s)
    <3>1. down' \in [Sessions -> Seq(0 .. MaxVersions)]
      BY <2>5, DownType DEF Notify
    <3> QED BY <1>1, <2>5, <3>1
        DEF Notify, TypeOK, stateVars, producerVars, browserVars
  <2> QED BY <1>3, <2>1, <2>2, <2>3, <2>4, <2>5 DEF NetworkStep
<1> QED BY <1>2, <1>3 DEF SessionStep

\* A browser is accepted.
LEMMA UpgradeEffect ==
  ASSUME TypeOK, NEW s \in Sessions, Upgrade(s)
  PROVE  /\ session' \in [Sessions -> Session]
         /\ \A u \in Sessions : /\ Proper(session'[u])
                                /\ u # s => session'[u] = session[u]
         /\ session'[s].sending = NoBuffer /\ session'[s].status = "accepting"
<1> DEFINE S == [NoSession EXCEPT !.status = "accepting",
                                  !.pending = {"accept"},
                                  !.enabled = ~Acknowledged]
<1>1. session' = [session EXCEPT ![s] = S]
  BY DEF Upgrade
<1>2. S \in Session /\ S.status = "accepting" /\ S.sending = NoBuffer
  BY NoSessionProper DEF Session, NoSession, Acknowledged
<1>3. Proper(S)
  BY <1>2, NoSessionProper DEF Proper
<1>4. \A u \in Sessions : Proper(session[u])
  BY DEF TypeOK, Proper
<1> HIDE DEF S
<1> QED BY <1>1, <1>2, <1>3, <1>4 DEF TypeOK

\* Sessions, buffers and channels keep their types, whatever happens.
LEMMA TypeStep ==
  TypeInv /\ [Next]_vars => TypeOK'
<1> SUFFICES ASSUME TypeOK, RoomInv, [Next]_vars
             PROVE  TypeOK'
  BY DEF TypeInv
<1>1. ASSUME NEW s \in Sessions, Upgrade(s)
      PROVE  TypeOK'
  <2>1. /\ session' \in [Sessions -> Session]
        /\ \A u \in Sessions : session'[u].status = "free" <=> session'[u] = NoSession
    BY <1>1, UpgradeEffect DEF Proper
  <2>2. <<>> \in Seq(0 .. MaxVersions) /\ <<>> \in Seq(Commands)
    OBVIOUS
  <2> QED BY <1>1, <2>1, <2>2, WebSocketAssumption
      DEF Upgrade, TypeOK, stateVars, producerVars
<1>2. ASSUME NEW s \in Sessions, NetworkStep(s)
      PROVE  TypeOK'
  BY <1>2, SessionStepType DEF SessionStep
<1>3. ASSUME NEW s \in Sessions, Receive(s)
      PROVE  TypeOK'
  <2> DEFINE answer == IF Head(down[s]) = 0 THEN "start" ELSE "next"
  <2>1. down[s] \in Seq(0 .. MaxVersions) /\ down[s] # <<>> /\ up[s] \in Seq(Commands)
    BY <1>3 DEF Receive, TypeOK
  <2>2. Tail(down[s]) \in Seq(0 .. MaxVersions) /\ Head(down[s]) \in 0 .. MaxVersions
    BY <2>1, HeadTailProperties
  <2>3. answer \in Commands
    BY DEF Commands
  <2>4. Append(up[s], answer) \in Seq(Commands)
    BY <2>1, <2>3
  <2>5. up' = up \/ up' = [up EXCEPT ![s] = Append(up[s], answer)]
    BY <1>3 DEF Receive, TypeOK
  <2> HIDE DEF answer
  <2>6. up' \in [Sessions -> Seq(Commands)]
    BY <2>4, <2>5 DEF TypeOK
  <2>7. /\ down' \in [Sessions -> Seq(0 .. MaxVersions)]
        /\ shown' \in [Sessions -> 0 .. MaxVersions]
    BY <1>3, <2>2 DEF Receive, TypeOK
  <2> QED BY <1>3, <2>6, <2>7 DEF Receive, TypeOK, stateVars, producerVars
<1>4. ASSUME NEW s \in Sessions, Say(s)
      PROVE  TypeOK'
  <2>1. up' \in [Sessions -> Seq(Commands)]
    <3>1. PICK cmd \in {"start", "pause", "hello?"} :
            up' = [up EXCEPT ![s] = Append(up[s], cmd)]
      BY <1>4 DEF Say
    <3>2. Append(up[s], cmd) \in Seq(Commands)
      BY DEF TypeOK, Commands
    <3> QED BY <3>1, <3>2 DEF TypeOK
  <2>2. nCommands' \in 0 .. MaxCommands
    BY <1>4, WebSocketAssumption DEF Say, TypeOK
  <2> QED BY <1>4, <2>1, <2>2 DEF Say, TypeOK, stateVars, producerVars
<1>5. ASSUME NEW s \in Sessions, Leave(s)
      PROVE  TypeOK'
  BY <1>5 DEF Leave, TypeOK, stateVars, producerVars
<1>6. CASE NotifyStart
  BY <1>6 DEF NotifyStart, TypeOK, producerVars, browserVars
<1>7. CASE Stop
  BY <1>7, SessionStepType DEF SessionStep
<1>8. ASSUME NEW b \in Buffers, Begin(b)
      PROVE  TypeOK'
  <2>1. content' \in [Buffers -> 0 .. MaxVersions] /\ filling' \in Frames
        /\ pool' \subseteq Buffers
    BY <1>8, WebSocketAssumption DEF Begin, TypeOK, Frames
  <2> QED BY <1>8, <2>1 DEF Begin, TypeOK, stateVars, browserVars
<1>9. CASE Finish
  <2>1. version + 1 \in 0 .. MaxVersions
    BY <1>9, WebSocketAssumption DEF Finish, RoomInv, TypeOK
  <2>2. content' \in [Buffers -> 0 .. MaxVersions]
    BY <1>9, <2>1 DEF Finish, TypeOK, Frames
  <2> QED BY <1>9, <2>2 DEF Finish, TypeOK, stateVars, browserVars
<1>10. CASE Publish
  <2>1. version' \in 0 .. MaxVersions
    BY <1>10, WebSocketAssumption DEF Publish, RoomInv, TypeOK
  <2> QED BY <1>10, <2>1 DEF Publish, TypeOK, Frames, browserVars
<1>11. CASE UNCHANGED vars
  BY <1>11 DEF vars, TypeOK, stateVars, producerVars, browserVars
<1> QED BY <1>1, <1>2, <1>3, <1>4, <1>5, <1>6, <1>7, <1>8, <1>9, <1>10, <1>11
    DEF Next

\* Initially there is no session and no snapshot.
LEMMA TypeInit == Init => TypeInv
<1> SUFFICES ASSUME Init PROVE TypeInv
  OBVIOUS
<1>1. NoBuffer \in Frames /\ 0 \in 0 .. MaxVersions
      /\ <<>> \in Seq(0 .. MaxVersions) /\ <<>> \in Seq(Commands)
      /\ 0 \in 0 .. MaxUpgrades /\ 0 \in 0 .. MaxCommands
  BY WebSocketAssumption DEF Frames
<1> QED BY <1>1, NoSessionProper DEF Init, TypeInv, TypeOK, RoomInv

LEMMA RoomStep == TypeInv /\ [Next]_vars => RoomInv'
<1> SUFFICES ASSUME TypeInv, [Next]_vars PROVE RoomInv'
  OBVIOUS
<1>1. \/ UNCHANGED <<filling, version>>
      \/ \E b \in Buffers : Begin(b)
      \/ Publish
  BY DEF Next, NetworkStep, Upgrade, Accept, WriteDone, Read, ReadError, Notify,
         Receive, Say, Leave, NotifyStart, Stop, Finish, vars, stateVars,
         producerVars
<1> QED BY <1>1 DEF TypeInv, RoomInv, Begin, Publish, stateVars

\* Sessions, buffers, channels and counters hold values of their types in every
\* interleaving of the producer with the network thread (WebSocketStream.cpp).
THEOREM TypeCorrect == Spec => []TypeOK
<1>1. TypeInv /\ [Next]_vars => TypeInv'
  BY TypeStep, RoomStep DEF TypeInv
<1>2. TypeInv => TypeOK
  BY DEF TypeInv
<1> QED BY TypeInit, <1>1, <1>2, PTL DEF Spec

-----------------------------------------------------------------------------
\* What the sessions send after a step that neither publishes nor overwrites:
\* what they sent before, or the newest snapshot.
LEMMA SendingEffect ==
  ASSUME TypeOK, [Next]_vars, ~Publish
  PROVE  /\ \A s \in Sessions :
              session'[s].sending # NoBuffer =>
                \/ /\ session'[s].sending = session[s].sending
                   /\ session'[s].sentVersion = session[s].sentVersion
                \/ /\ session'[s].sending = latest
                   /\ session'[s].sentVersion = version
         /\ latest' \in {latest, NoBuffer} /\ version' = version
<1>1. CASE SessionStep
  <2>1. latest' \in {latest, NoBuffer} /\ version' = version
    BY <1>1 DEF SessionStep, NetworkStep, Accept, WriteDone, Read, ReadError,
                Notify, Stop, stateVars
  <2> QED BY <1>1, <2>1, SessionEffect DEF Follows
<1>2. ASSUME NEW s \in Sessions, Upgrade(s)
      PROVE  /\ \A u \in Sessions : session'[u] = session[u]
                                    \/ session'[u].sending = NoBuffer
             /\ latest' = latest /\ version' = version
  BY <1>2, UpgradeEffect DEF Upgrade, stateVars
<1>3. CASE UNCHANGED <<session, latest, version>>
  BY <1>3
<1>4. \/ SessionStep
      \/ \E s \in Sessions : Upgrade(s)
      \/ UNCHANGED <<session, latest, version>>
  BY DEF Next, SessionStep, Receive, Say, Leave, NotifyStart, Begin, Finish,
         vars, stateVars
<1> QED BY <1>1, <1>2, <1>3, <1>4

\* What is done to the buffers.
LEMMA BufferEffect ==
  ASSUME [Next]_vars
  PROVE  \/ UNCHANGED <<producerVars>>
         \/ Finish \/ Publish
         \/ \E b \in Buffers : Begin(b)
BY DEF Next, NetworkStep, Upgrade, Accept, WriteDone, Read, ReadError, Notify,
       Receive, Say, Leave, NotifyStart, Stop, vars

\* Only a buffer nobody else refers to is overwritten.
LEMMA StableStep == StableInv /\ [Next]_vars => StableInv'
<1> SUFFICES ASSUME StableInv, [Next]_vars PROVE StableInv'
  OBVIOUS
<1>1. TypeInv' /\ TypeOK
  BY TypeStep, RoomStep DEF StableInv, TypeInv
<1>2. FillingInv /\ SnapshotsAreStable
  BY DEF StableInv
<1>3. CASE Publish
  <2>1. /\ latest' = filling /\ version' = version + 1 /\ filling' = NoBuffer
        /\ filled /\ ~filled' /\ session' = session /\ content' = content
        /\ pool' = pool /\ filling # NoBuffer
    BY <1>3 DEF Publish
  <2>2. FillingInv'
    BY <1>2, <2>1 DEF FillingInv, InUse
  <2>3. SnapshotsAreStable'
    BY <1>2, <2>1 DEF FillingInv, SnapshotsAreStable
  <2> QED BY <1>1, <2>2, <2>3 DEF StableInv
<1>4. CASE ~Publish
  <2>1. InUse' \subseteq InUse \cup {NoBuffer}
    BY <1>1, <1>4, SendingEffect DEF InUse
  <2>2. CASE UNCHANGED producerVars
    <3>1. FillingInv'
      <4>1. filling # NoBuffer => filling \notin InUse'
        BY <1>2, <2>1 DEF FillingInv
      <4>2. version' = version
        BY <1>1, <1>4, SendingEffect
      <4> QED BY <1>2, <2>1, <2>2, <4>1, <4>2 DEF FillingInv, producerVars
    <3>2. SnapshotsAreStable'
      BY <1>1, <1>2, <1>4, <2>2, SendingEffect DEF SnapshotsAreStable, producerVars
    <3> QED BY <1>1, <3>1, <3>2 DEF StableInv
  <2>3. ASSUME NEW b \in Buffers, Begin(b)
        PROVE  FillingInv' /\ SnapshotsAreStable'
    <3>1. /\ UNCHANGED <<session, latest, version>>
          /\ pool' = pool \cup {b} /\ filling' = b /\ ~filled'
          /\ content' = [content EXCEPT ![b] = 0]
      BY <2>3 DEF Begin, stateVars
    <3>2. b \notin InUse
      BY <1>2, <2>3, WebSocketAssumption
      DEF Begin, Candidates, Reusable, FillingInv
    <3>3. FillingInv'
      BY <1>2, <3>1, <3>2 DEF FillingInv, InUse
    <3>4. SnapshotsAreStable'
      <4>1. \A f \in Buffers : f # b => content'[f] = content[f]
        BY <3>1, <1>1 DEF TypeOK
      <4>2. \A f \in InUse : f # NoBuffer => f \in Buffers /\ f # b
        BY <1>1, <3>2 DEF InUse, TypeOK, Frames, Session
      <4> QED BY <1>2, <3>1, <4>1, <4>2 DEF SnapshotsAreStable, InUse
    <3> QED BY <3>3, <3>4
  <2>4. CASE Finish
    <3>1. /\ UNCHANGED <<session, latest, version, filling, pool>>
          /\ filling # NoBuffer
          /\ content' = [content EXCEPT ![filling] = version + 1]
      BY <2>4 DEF Finish, stateVars
    <3>2. filling \notin InUse /\ filling \in Buffers
      BY <1>1, <1>2, <3>1 DEF FillingInv, TypeOK
    <3>3. FillingInv'
      BY <1>1, <1>2, <3>1, <3>2 DEF FillingInv, InUse, TypeOK
    <3>4. SnapshotsAreStable'
      <4>1. \A f \in Buffers : f # filling => content'[f] = content[f]
        BY <3>1, <1>1 DEF TypeOK
      <4>2. \A f \in InUse : f # NoBuffer => f \in Buffers /\ f # filling
        BY <1>1, <3>2 DEF InUse, TypeOK, Frames, Session
      <4> QED BY <1>2, <3>1, <4>1, <4>2 DEF SnapshotsAreStable, InUse
    <3> QED BY <1>1, <3>3, <3>4 DEF StableInv
  <2> QED BY <1>1, <1>4, <2>2, <2>3, <2>4, BufferEffect DEF StableInv
<1> QED BY <1>3, <1>4

\* The newest snapshot, and every one that is still being sent, are intact and
\* are the ones they are said to be while the producer reuses buffers
\* (_WebGeometry::publish against Session::send).
THEOREM SnapshotsAreAlwaysStable == Spec => []SnapshotsAreStable
<1>1. Init => StableInv
  <2>1. Init => FillingInv /\ SnapshotsAreStable
    BY NoSessionProper DEF Init, FillingInv, InUse, SnapshotsAreStable
  <2> QED BY <2>1, TypeInit DEF StableInv
<1>2. StableInv => SnapshotsAreStable
  BY DEF StableInv
<1> QED BY <1>1, <1>2, StableStep, PTL DEF Spec

-----------------------------------------------------------------------------
\* A session that sends is a client, and a session can only be made where there
\* is room for one.
LEMMA ClientsStep ==
  TypeInv /\ ClientsInv /\ [Next]_vars => ClientsInv'
<1> SUFFICES ASSUME TypeInv, ClientsInv, [Next]_vars PROVE ClientsInv'
  OBVIOUS
<1>1. TypeOK
  BY DEF TypeInv
<1>2. CASE SessionStep
  <2>1. \A s \in Sessions : Proper(session'[s]) /\ Follows(session[s], session'[s])
    BY <1>1, <1>2, SessionEffect
  <2>2. Clients' \subseteq Clients
    BY <1>1, <2>1 DEF Clients, TypeOK, Proper, Follows
  <2>3. IsFiniteSet(Clients') /\ Cardinality(Clients') <= MaxClients
    <3>1. IsFiniteSet(Clients') /\ Cardinality(Clients') <= Cardinality(Clients)
      BY <2>2, FS_Subset DEF ClientsInv
    <3>2. Cardinality(Clients) \in Nat /\ Cardinality(Clients') \in Nat
      BY <3>1, FS_CardinalityType DEF ClientsInv
    <3> QED BY <3>1, <3>2, WebSocketAssumption DEF ClientsInv
  <2>4. \A s \in Sessions : session'[s].sending # NoBuffer => s \in Clients'
    BY <2>1, NoSessionProper DEF Clients, Proper
  <2> QED BY <2>3, <2>4 DEF ClientsInv
<1>3. ASSUME NEW s \in Sessions, Upgrade(s)
      PROVE  ClientsInv'
  <2>1. Clients' \subseteq Clients \cup {s}
    BY <1>1, <1>3, UpgradeEffect DEF Clients
  <2>2. IsFiniteSet(Clients \cup {s}) /\ Cardinality(Clients \cup {s}) <= MaxClients
    <3>1. IsFiniteSet(Clients) /\ Cardinality(Clients) < MaxClients
      BY <1>3 DEF ClientsInv, Upgrade
    <3>2. Cardinality(Clients) \in Nat
      BY <3>1, FS_CardinalityType
    <3>3. /\ IsFiniteSet(Clients \cup {s})
          /\ \/ Cardinality(Clients \cup {s}) = Cardinality(Clients)
             \/ Cardinality(Clients \cup {s}) = Cardinality(Clients) + 1
      BY <3>1, FS_AddElement
    <3> QED BY <3>1, <3>2, <3>3, WebSocketAssumption
  <2>3. IsFiniteSet(Clients') /\ Cardinality(Clients') <= Cardinality(Clients \cup {s})
    BY <2>1, <2>2, FS_Subset
  <2>4. Cardinality(Clients') \in Nat /\ Cardinality(Clients \cup {s}) \in Nat
    BY <2>2, <2>3, FS_CardinalityType
  <2>5. Cardinality(Clients') <= MaxClients
    BY <2>2, <2>3, <2>4, WebSocketAssumption
  <2>6. \A u \in Sessions : session'[u].sending # NoBuffer => u \in Clients'
    BY <1>1, <1>3, UpgradeEffect DEF ClientsInv, Clients
  <2> QED BY <2>3, <2>5, <2>6 DEF ClientsInv
<1>4. CASE UNCHANGED session
  BY <1>4 DEF ClientsInv, Clients
<1>5. \/ SessionStep
      \/ \E s \in Sessions : Upgrade(s)
      \/ UNCHANGED session
  BY DEF Next, SessionStep, Receive, Say, Leave, NotifyStart, Begin, Finish,
         Publish, vars
<1> QED BY <1>2, <1>3, <1>4, <1>5

\* The buffers in use are the newest snapshot and at most one for each client.
LEMMA FewInUse ==
  ASSUME ClientsInv, NEW P \in SUBSET InUse, NoBuffer \notin P
  PROVE  IsFiniteSet(P) /\ Cardinality(P) <= MaxClients + 1
<1> DEFINE f == [s \in Clients |-> session[s].sending]
           Sent == {session[s].sending : s \in Clients}
<1>1. f \in Surjection(Clients, Sent)
  BY DEF Surjection
<1>2. IsFiniteSet(Sent) /\ Cardinality(Sent) <= Cardinality(Clients)
  BY <1>1, FS_Surjection DEF ClientsInv
<1>3. P \subseteq Sent \cup {latest}
  BY DEF InUse, ClientsInv, Clients
<1> HIDE DEF f, Sent
<1>4. /\ IsFiniteSet(Sent \cup {latest})
      /\ \/ Cardinality(Sent \cup {latest}) = Cardinality(Sent)
         \/ Cardinality(Sent \cup {latest}) = Cardinality(Sent) + 1
  BY <1>2, FS_AddElement
<1>5. IsFiniteSet(P) /\ Cardinality(P) <= Cardinality(Sent \cup {latest})
  BY <1>3, <1>4, FS_Subset
<1>6. Cardinality(P) \in Nat /\ Cardinality(Sent) \in Nat
      /\ Cardinality(Clients) \in Nat
  BY <1>2, <1>5, FS_CardinalityType DEF ClientsInv
<1> QED BY <1>2, <1>4, <1>5, <1>6, WebSocketAssumption DEF ClientsInv

\* The pool only grows when every buffer of it is in use.
LEMMA PoolStep ==
  TypeInv /\ ClientsInv /\ PoolInv /\ [Next]_vars => PoolInv'
<1> SUFFICES ASSUME TypeInv, ClientsInv, PoolInv, [Next]_vars PROVE PoolInv'
  OBVIOUS
<1>1. CASE UNCHANGED pool
  BY <1>1 DEF PoolInv, PoolIsBounded
<1>2. ASSUME NEW b \in Buffers, Begin(b)
      PROVE  PoolInv'
  <2>1. pool' = pool \cup {b} /\ b \in Candidates
    BY <1>2 DEF Begin
  <2>2. CASE Reusable # {}
    <3>1. pool' = pool
      BY <2>1, <2>2 DEF Candidates, Reusable
    <3> QED BY <1>1, <3>1
  <2>3. CASE Reusable = {}
    <3>1. pool \subseteq InUse /\ NoBuffer \notin pool
      BY <2>3, WebSocketAssumption DEF Reusable, TypeInv, TypeOK
    <3>2. IsFiniteSet(pool) /\ Cardinality(pool) <= MaxClients + 1
      BY <3>1, FewInUse
    <3>3. /\ IsFiniteSet(pool')
          /\ \/ Cardinality(pool') = Cardinality(pool)
             \/ Cardinality(pool') = Cardinality(pool) + 1
      BY <2>1, <3>2, FS_AddElement
    <3>4. Cardinality(pool) \in Nat
      BY <3>2, FS_CardinalityType
    <3>5. Cardinality(pool') <= MaxClients + 2
      BY <3>2, <3>3, <3>4, WebSocketAssumption
    <3> QED BY <3>3, <3>5 DEF PoolInv, PoolIsBounded
  <2> QED BY <2>2, <2>3
<1> QED BY <1>1, <1>2, BufferEffect DEF Finish, Publish, producerVars

\* However slow the browsers are, the producer keeps at most one buffer for each
\* client, the newest one and the one it works on (_WebGeometry::publish with
\* the limit of WebSocketStream).
THEOREM PoolIsAlwaysBounded == Spec => []PoolIsBounded
<1>1. Init => ClientsInv /\ PoolInv
  <2>1. ASSUME Init PROVE Clients = {} /\ pool = {}
                          /\ \A s \in Sessions : session[s].sending = NoBuffer
    BY <2>1, NoSessionProper DEF Init, Clients
  <2> QED BY <2>1, FS_EmptySet, WebSocketAssumption
      DEF ClientsInv, PoolInv, PoolIsBounded
<1>2. TypeInv /\ [Next]_vars => TypeInv'
  BY TypeStep, RoomStep DEF TypeInv
<1>3. PoolInv => PoolIsBounded
  BY DEF PoolInv
<1> QED BY TypeInit, <1>1, <1>2, <1>3, ClientsStep, PoolStep, PTL DEF Spec

-----------------------------------------------------------------------------
(* The credit of a browser and the order of what it is sent *)

None(q, X) == Places(q, X) = {}
One(q, X) == \E i \in DOMAIN q : Places(q, X) = {i}

\* The one credit of the session S: with the server, with the one snapshot of
\* its channel d, or with the one acknowledgement of its channel u.
Credit(S, d, u) ==
  /\ S.status = "accepting" => ~S.awaitingAck /\ d = <<>> /\ u = <<>>
  /\ S.status = "open" =>
       IF S.awaitingAck
       THEN \/ One(d, Snapshots) /\ None(u, {"next"})
            \/ None(d, Snapshots) /\ One(u, {"next"})
       ELSE None(d, Snapshots) /\ None(u, {"next"})

\* Of the snapshots up to v, the session S has sent those up to the one it
\* remembers; its channel d holds what comes after the one that is shown, n.
Line(S, n, d, v) ==
  /\ Forward(n, d)
  /\ S.sentVersion <= v
  /\ S.status \in {"accepting", "open"} =>
       n <= S.sentVersion /\ \A i \in DOMAIN d : d[i] <= S.sentVersion

\* A session waits for its handshake first, and for nothing else.
Handshake(S) ==
  "accept" \in S.pending => S.status = "accepting" /\ S.pending = {"accept"}

Good(S, n, d, u) ==
  /\ Line(S, n, d, version)
  /\ Acknowledged => Credit(S, d, u)
  /\ stopped \/ Handshake(S)

DialogueInv == \A s \in Sessions : Good(session[s], shown[s], down[s], up[s])

-----------------------------------------------------------------------------
\* A message that is not looked for changes nothing; one that is looked for is
\* the only one if there was none.
LEMMA PlacesOfAppend ==
  ASSUME NEW T, NEW q \in Seq(T), NEW e \in T, NEW X
  PROVE  /\ e \notin X => Places(Append(q, e), X) = Places(q, X)
         /\ e \in X => Places(Append(q, e), X) = Places(q, X) \cup {Len(q) + 1}
<1> DEFINE r == Append(q, e)
<1>1. /\ r \in Seq(T) /\ Len(r) = Len(q) + 1 /\ Len(q) \in Nat
      /\ \A i \in 1 .. Len(q) : r[i] = q[i]
      /\ r[Len(q) + 1] = e
  BY AppendProperties, LenProperties
<1>2. DOMAIN q = 1 .. Len(q) /\ DOMAIN r = 1 .. Len(q) + 1
  BY <1>1, LenProperties
<1> HIDE DEF r
<1>3. \A i : i \in DOMAIN r <=> i \in DOMAIN q \/ i = Len(q) + 1
  BY <1>1, <1>2
<1>4. ASSUME NEW i
      PROVE  i \in Places(r, X) <=> \/ i \in Places(q, X)
                                    \/ i = Len(q) + 1 /\ e \in X
  <2>1. CASE i \in DOMAIN q
    <3>1. r[i] = q[i] /\ i # Len(q) + 1
      BY <1>1, <1>2, <2>1
    <3> QED BY <1>3, <2>1, <3>1 DEF Places
  <2>2. CASE i = Len(q) + 1
    <3>1. i \notin DOMAIN q
      BY <1>1, <1>2, <2>2
    <3> QED BY <1>1, <1>3, <2>2, <3>1 DEF Places
  <2>3. CASE i \notin DOMAIN q /\ i # Len(q) + 1
    BY <1>3, <2>3 DEF Places
  <2> QED BY <2>1, <2>2, <2>3
<1> QED BY <1>4 DEF r

LEMMA CountOfAppend ==
  ASSUME NEW T, NEW q \in Seq(T), NEW e \in T, NEW X
  PROVE  /\ e \notin X /\ None(q, X) => None(Append(q, e), X)
         /\ e \notin X /\ One(q, X) => One(Append(q, e), X)
         /\ e \in X /\ None(q, X) => One(Append(q, e), X)
<1>1. /\ Len(Append(q, e)) = Len(q) + 1 /\ Len(q) \in Nat
      /\ DOMAIN q = 1 .. Len(q) /\ DOMAIN Append(q, e) = 1 .. Len(q) + 1
  BY AppendProperties, LenProperties
<1>2. DOMAIN q \subseteq DOMAIN Append(q, e) /\ Len(q) + 1 \in DOMAIN Append(q, e)
  BY <1>1
<1>3. CASE e \notin X
  <2>1. Places(Append(q, e), X) = Places(q, X)
    BY <1>3, PlacesOfAppend
  <2> QED BY <1>2, <1>3, <2>1 DEF None, One
<1>4. CASE e \in X
  <2>1. Places(Append(q, e), X) = Places(q, X) \cup {Len(q) + 1}
    BY <1>4, PlacesOfAppend
  <2> QED BY <1>2, <1>4, <2>1 DEF None, One
<1> QED BY <1>3, <1>4

\* What is left when the first message has been taken.
LEMMA PlacesOfTail ==
  ASSUME NEW T, NEW q \in Seq(T), q # <<>>, NEW X
  PROVE  /\ Tail(q) \in Seq(T) /\ Head(q) = q[1] /\ 1 \in DOMAIN q
         /\ \A i \in Places(Tail(q), X) : i + 1 \in Places(q, X)
         /\ \A i \in Places(q, X) :
              i = 1 \/ i - 1 \in Places(Tail(q), X)
         /\ Places(q, X) \subseteq Int
         /\ Places(Tail(q), X) \subseteq Nat \ {0}
         /\ 1 \in Places(q, X) <=> Head(q) \in X
<1>1. /\ Tail(q) \in Seq(T) /\ Len(Tail(q)) = Len(q) - 1 /\ Head(q) = q[1]
      /\ \A i \in 1 .. Len(Tail(q)) : Tail(q)[i] = q[i + 1]
      /\ Len(q) \in Nat \ {0}
  BY HeadTailProperties, EmptySeq, LenProperties
<1>2. DOMAIN q = 1 .. Len(q) /\ DOMAIN Tail(q) = 1 .. Len(q) - 1
  BY <1>1, LenProperties
<1>3. \A i \in DOMAIN Tail(q) : i + 1 \in DOMAIN q /\ i \in Nat \ {0}
  BY <1>1, <1>2
<1>4. \A i \in DOMAIN q : i \in Int /\ (i = 1 \/ i - 1 \in DOMAIN Tail(q))
  BY <1>1, <1>2
<1>5. 1 \in DOMAIN q
  BY <1>1, <1>2
<1>6. \A i \in DOMAIN Tail(q) : Tail(q)[i] = q[i + 1]
  BY <1>1, <1>2
<1>7. \A i \in Places(q, X) : i = 1 \/ i - 1 \in Places(Tail(q), X)
  <2>1. ASSUME NEW i \in Places(q, X), i # 1
        PROVE  i - 1 \in Places(Tail(q), X)
    <3>1. i \in DOMAIN q /\ q[i] \in X
      BY DEF Places
    <3>2. i \in Int /\ i - 1 \in DOMAIN Tail(q)
      BY <1>4, <2>1, <3>1
    <3>3. (i - 1) + 1 = i
      BY <3>2
    <3>4. Tail(q)[i - 1] = q[i]
      BY <1>6, <3>2, <3>3
    <3> QED BY <3>1, <3>2, <3>4 DEF Places
  <2> QED BY <2>1
<1> QED BY <1>1, <1>3, <1>4, <1>5, <1>6, <1>7 DEF Places

LEMMA CountOfTail ==
  ASSUME NEW T, NEW q \in Seq(T), q # <<>>, NEW X
  PROVE  /\ Head(q) \notin X /\ None(q, X) => None(Tail(q), X)
         /\ Head(q) \notin X /\ One(q, X) => One(Tail(q), X)
         /\ Head(q) \in X => ~None(q, X)
         /\ Head(q) \in X /\ One(q, X) => None(Tail(q), X)
<1> DEFINE P == Places(q, X)
           R == Places(Tail(q), X)
<1>1. /\ \A i \in R : i + 1 \in P
      /\ \A i \in P : i = 1 \/ i - 1 \in R
      /\ P \subseteq Int /\ R \subseteq Nat \ {0}
      /\ 1 \in P <=> Head(q) \in X
      /\ R \subseteq DOMAIN Tail(q)
  BY PlacesOfTail DEF Places
<1> HIDE DEF P, R
<1>2. P = {} => R = {}
  BY <1>1
<1>3. ASSUME NEW i, P = {i}, 1 \notin P
      PROVE  R = {i - 1} /\ i - 1 \in DOMAIN Tail(q)
  <2>1. i \in Int /\ i # 1 /\ i - 1 \in R
    BY <1>1, <1>3
  <2>2. ASSUME NEW j \in R PROVE j = i - 1
    <3>1. j + 1 = i /\ j \in Int
      BY <1>1, <1>3
    <3> QED BY <2>1, <3>1
  <2> QED BY <1>1, <2>1, <2>2
<1>4. ASSUME NEW i, P = {i}, 1 \in P
      PROVE  R = {}
  <2>1. ASSUME NEW j \in R PROVE FALSE
    <3>1. j + 1 = 1 /\ j \in Nat \ {0}
      BY <1>1, <1>4
    <3> QED BY <3>1
  <2> QED BY <2>1
<1> QED BY <1>1, <1>2, <1>3, <1>4 DEF None, One, P, R

\* What comes after the snapshot that is taken, or after the greeting.
LEMMA ForwardOfTail ==
  ASSUME NEW T, \A e \in T : e \in Snapshots \/ e = 0,
         NEW q \in Seq(T), q # <<>>, NEW n, Forward(n, q)
  PROVE  Forward(Head(q), Tail(q))
<1> DEFINE P == Places(q, Snapshots)
           R == Places(Tail(q), Snapshots)
<1>1. /\ \A i \in R : i + 1 \in P /\ Tail(q)[i] = q[i + 1]
      /\ R \subseteq Nat \ {0}
      /\ Head(q) = q[1] /\ 1 \in DOMAIN q
      /\ 1 \in P <=> Head(q) \in Snapshots
  <2>0. \A i \in R : i + 1 \in P
    BY PlacesOfTail
  <2>5. \A i \in R : Tail(q)[i] = q[i + 1]
    <3>1. /\ Tail(q) \in Seq(T)
          /\ \A i \in 1 .. Len(Tail(q)) : Tail(q)[i] = q[i + 1]
      BY HeadTailProperties
    <3>2. R \subseteq 1 .. Len(Tail(q))
      BY <3>1, LenProperties DEF Places
    <3> QED BY <3>1, <3>2
  <2>1. \A i \in R : i + 1 \in P /\ Tail(q)[i] = q[i + 1]
    BY <2>0, <2>5
  <2>2. R \subseteq Nat \ {0}
    BY PlacesOfTail
  <2>3. Head(q) = q[1] /\ 1 \in DOMAIN q
    BY PlacesOfTail
  <2>4. 1 \in P <=> Head(q) \in Snapshots
    BY PlacesOfTail
  <2> QED BY <2>1, <2>2, <2>3, <2>4
<1>2. \A i \in P : n < q[i] /\ \A j \in P : i < j => q[i] < q[j]
  BY DEF Forward
<1>3. q[1] \in T
  BY <1>1, ElementOfSeq, LenProperties
<1>4. \A i \in P : q[i] \in Snapshots
  BY DEF Places
<1>5. q[1] \in Snapshots \/ q[1] = 0
  BY <1>3
<1> HIDE DEF P, R
<1>6. ASSUME NEW i \in R PROVE Head(q) < Tail(q)[i]
  <2>1. CASE Head(q) \in Snapshots
    <3>1. 1 \in P /\ i + 1 \in P /\ 1 < i + 1
      BY <1>1, <2>1
    <3> QED BY <1>1, <1>2, <3>1
  <2>2. CASE Head(q) \notin Snapshots
    <3>1. 0 < q[i + 1]
      BY <1>1, <1>4 DEF Snapshots
    <3> QED BY <1>1, <1>5, <2>2, <3>1
  <2> QED BY <2>1, <2>2
<1>7. ASSUME NEW i \in R, NEW j \in R, i < j PROVE Tail(q)[i] < Tail(q)[j]
  <2>1. i + 1 \in P /\ j + 1 \in P /\ i + 1 < j + 1
    BY <1>1, <1>7
  <2> QED BY <1>1, <1>2, <2>1
<1> QED BY <1>6, <1>7 DEF Forward, R

\* A channel in which snapshots go forward keeps doing so.
LEMMA ForwardKept ==
  ASSUME NEW q \in Seq(0 .. MaxVersions), NEW n \in 0 .. MaxVersions,
         Forward(n, q)
  PROVE  /\ Forward(n, Append(q, 0))
         /\ \A v \in Snapshots :
              n < v /\ (\A i \in DOMAIN q : q[i] < v) => Forward(n, Append(q, v))
         /\ q # <<>> => Forward(Head(q), Tail(q))
<1> DEFINE P == Places(q, Snapshots)
           T == 0 .. MaxVersions
<1>9. q \in Seq(T) /\ 0 \in T /\ Snapshots \subseteq T
  BY WebSocketAssumption DEF Snapshots
<1> HIDE DEF T
<1>0. Snapshots \subseteq 0 .. MaxVersions /\ 0 \in 0 .. MaxVersions
      /\ 0 \notin Snapshots /\ Snapshots \subseteq Nat
  BY WebSocketAssumption DEF Snapshots, T
<1>1. Len(q) \in Nat /\ DOMAIN q = 1 .. Len(q)
  BY LenProperties
<1>2. ASSUME NEW e \in 0 .. MaxVersions
      PROVE  /\ \A i \in DOMAIN q : Append(q, e)[i] = q[i]
             /\ Append(q, e)[Len(q) + 1] = e
  BY <1>1, AppendProperties
<1>3. P \subseteq DOMAIN q
  BY DEF Places
<1>4. Forward(n, Append(q, 0))
  <2>1. Places(Append(q, 0), Snapshots) = P
    BY <1>0, <1>9, PlacesOfAppend
  <2> QED BY <1>0, <1>2, <1>3, <2>1 DEF Forward
<1>5. ASSUME NEW v \in Snapshots, n < v, \A i \in DOMAIN q : q[i] < v
      PROVE  Forward(n, Append(q, v))
  <2>1. Places(Append(q, v), Snapshots) = P \cup {Len(q) + 1}
    BY <1>9, PlacesOfAppend
  <2>2. \A i \in DOMAIN q : ~(Len(q) + 1 < i)
    BY <1>1
  <2>3. ~(Len(q) + 1 < Len(q) + 1)
    BY <1>1
  <2>4. v \in 0 .. MaxVersions
    BY <1>0
  <2> HIDE DEF P
  <2>5. /\ \A i \in P : Append(q, v)[i] = q[i] /\ i \in DOMAIN q
        /\ Append(q, v)[Len(q) + 1] = v
    BY <1>2, <1>3, <2>4
  <2>6. \A i \in P : n < q[i] /\ \A j \in P : i < j => q[i] < q[j]
    BY DEF Forward, P
  <2> QED BY <1>5, <2>1, <2>2, <2>3, <2>5, <2>6 DEF Forward
<1>6. q # <<>> => Forward(Head(q), Tail(q))
  <2>1. \A e \in T : e \in Snapshots \/ e = 0
    BY WebSocketAssumption DEF Snapshots, T
  <2> QED BY <1>9, <2>1, ForwardOfTail
<1> QED BY <1>4, <1>5, <1>6

-----------------------------------------------------------------------------
\* T is S with neither another status, nor another credit, nor another snapshot
\* sent; it waits for the same, or no longer for its handshake.
Same(S, T) ==
  /\ T.status = S.status /\ T.awaitingAck = S.awaitingAck
  /\ T.sentVersion = S.sentVersion
  /\ T.pending = S.pending \/ "accept" \notin T.pending

LEMMA SameGood ==
  ASSUME NEW S \in Session, NEW T \in Session, Same(S, T), NEW n, NEW d, NEW u,
         Good(S, n, d, u)
  PROVE  Good(T, n, d, u)
BY DEF Same, Good, Credit, Line, Handshake

\* close() gives up the credit and the order, which nobody needs any more.
LEMMA ClosedGood ==
  ASSUME TypeOK, NEW S \in Session, NEW n, NEW d, NEW u, Line(S, n, d, version)
  PROVE  /\ Line(Closed(S), n, d, version) /\ Credit(Closed(S), d, u)
         /\ "accept" \notin S.pending => Handshake(Closed(S))
<1>1. CASE S.pending = {}
  <2>1. Closed(S) = NoSession
    BY <1>1 DEF Closed
  <2>2. 0 <= version
    BY WebSocketAssumption DEF TypeOK
  <2>3. /\ NoSession.status = "free" /\ NoSession.sentVersion = 0
        /\ NoSession.pending = {}
    BY DEF NoSession
  <2> QED BY <2>1, <2>2, <2>3 DEF Line, Credit, Handshake
<1>2. CASE S.pending # {}
  <2>1. Closed(S) = [S EXCEPT !.status = "closed"]
    BY <1>2 DEF Closed
  <2>2. /\ Closed(S).status = "closed" /\ Closed(S).pending = S.pending
        /\ Closed(S).sentVersion = S.sentVersion
    BY <2>1 DEF Session
  <2> QED BY <2>2 DEF Line, Credit, Handshake
<1> QED BY <1>1, <1>2

\* send() spends the credit on a snapshot that is newer than all before.
LEMMA SendGood ==
  ASSUME TypeOK, NEW S \in Session, NEW n \in 0 .. MaxVersions,
         NEW d \in Seq(0 .. MaxVersions), NEW u, Good(S, n, d, u), MaySend(S)
  PROVE  Good(AfterSend(S), n, Append(d, version), u)
<1> DEFINE T == 0 .. MaxVersions
<1>1. /\ AfterSend(S).status = "open" /\ AfterSend(S).awaitingAck = Acknowledged
      /\ AfterSend(S).sentVersion = version
      /\ AfterSend(S).pending = S.pending \cup {"write"}
      /\ S.status = "open" /\ ~S.awaitingAck
  BY DEF AfterSend, MaySend, Session
<1>2. /\ n \in Nat /\ version \in Nat /\ version \in T
      /\ S.sentVersion \in Nat /\ S.sentVersion <= version
      /\ S.sentVersion # version /\ n <= S.sentVersion
  BY <1>1, WebSocketAssumption DEF TypeOK, Session, Good, Line, MaySend
<1>3. S.sentVersion < version /\ n < version /\ version \in Snapshots
  BY <1>2 DEF Snapshots
<1>4. d \in Seq(T) /\ Len(d) \in Nat /\ DOMAIN d = 1 .. Len(d)
  BY LenProperties
<1>5. \A i \in DOMAIN d : d[i] \in Nat /\ d[i] <= S.sentVersion
  <2>1. \A i \in 1 .. Len(d) : d[i] \in 0 .. MaxVersions
    BY ElementOfSeq
  <2> QED BY <1>1, <1>4, <2>1, WebSocketAssumption DEF Good, Line
<1>6. \A i \in DOMAIN d : d[i] < version
  BY <1>2, <1>3, <1>5
<1>7. Forward(n, Append(d, version))
  BY <1>3, <1>6, ForwardKept DEF Good, Line
<1> HIDE DEF T
<1>8. \A i \in DOMAIN Append(d, version) : Append(d, version)[i] <= version
  <2>1. /\ Len(Append(d, version)) = Len(d) + 1
        /\ \A i \in 1 .. Len(d) : Append(d, version)[i] = d[i]
        /\ Append(d, version)[Len(d) + 1] = version
        /\ DOMAIN Append(d, version) = 1 .. Len(d) + 1
    BY <1>2, <1>4, AppendProperties, LenProperties
  <2>2. \A i \in 1 .. Len(d) + 1 : i \in 1 .. Len(d) \/ i = Len(d) + 1
    BY <1>4
  <2>3. version <= version
    BY <1>2
  <2>4. \A i \in 1 .. Len(d) : d[i] <= version
    BY <1>2, <1>4, <1>5, <1>6
  <2> QED BY <2>1, <2>2, <2>3, <2>4
<1>9. Line(AfterSend(S), n, Append(d, version), version)
  BY <1>1, <1>2, <1>3, <1>7, <1>8 DEF Line
<1>10. Acknowledged => Credit(AfterSend(S), Append(d, version), u)
  <2>1. SUFFICES ASSUME Acknowledged
                 PROVE  Credit(AfterSend(S), Append(d, version), u)
    OBVIOUS
  <2>2. None(d, Snapshots) /\ None(u, {"next"})
    BY <1>1, <2>1 DEF Good, Credit
  <2>3. One(Append(d, version), Snapshots)
    BY <1>2, <1>3, <1>4, <2>2, CountOfAppend
  <2> QED BY <1>1, <2>1, <2>2, <2>3 DEF Credit
<1>11. stopped \/ Handshake(AfterSend(S))
  BY <1>1 DEF Good, Handshake
<1> QED BY <1>9, <1>10, <1>11 DEF Good

\* A handler that ends with send() or close().
LEMMA UpdateGood ==
  ASSUME TypeOK, NEW s \in Sessions, NEW S \in Session, NEW u,
         Good(S, shown[s], down[s], u),
         \/ Send(s, S)
         \/ CloseSession(s, S) /\ "accept" \notin S.pending
  PROVE  /\ Good(session'[s], shown[s], down'[s], u)
         /\ \A t \in Sessions \ {s} : session'[t] = session[t] /\ down'[t] = down[t]
<1>1. shown[s] \in 0 .. MaxVersions /\ down[s] \in Seq(0 .. MaxVersions)
  BY DEF TypeOK
<1>2. CASE Send(s, S) /\ MaySend(S)
  <2>1. /\ session' = [session EXCEPT ![s] = AfterSend(S)]
        /\ down' = [down EXCEPT ![s] = Append(down[s], version)]
    BY <1>2 DEF Send
  <2>2. Good(AfterSend(S), shown[s], Append(down[s], version), u)
    BY <1>1, <1>2, SendGood
  <2> QED BY <2>1, <2>2 DEF TypeOK
<1>3. CASE Send(s, S) /\ ~MaySend(S)
  <2>1. /\ session' = [session EXCEPT ![s] = S]
        /\ down' = [down EXCEPT ![s] = down[s]]
    BY <1>3 DEF Send
  <2> QED BY <2>1 DEF TypeOK
<1>4. CASE CloseSession(s, S) /\ "accept" \notin S.pending
  <2>1. session' = [session EXCEPT ![s] = Closed(S)] /\ down' = down
    BY <1>4 DEF CloseSession
  <2>2. Good(Closed(S), shown[s], down[s], u)
    BY <1>4, ClosedGood DEF Good
  <2> QED BY <2>1, <2>2 DEF TypeOK
<1> QED BY <1>2, <1>3, <1>4

-----------------------------------------------------------------------------
\* A step that deals with one session only.
LEMMA OneSession ==
  ASSUME DialogueInv, UNCHANGED <<mode, version, stopped>>, NEW s \in Sessions,
         Good(session'[s], shown'[s], down'[s], up'[s]),
         \A t \in Sessions \ {s} : /\ session'[t] = session[t]
                                   /\ shown'[t] = shown[t]
                                   /\ down'[t] = down[t] /\ up'[t] = up[t]
  PROVE  DialogueInv'
<1>1. ASSUME NEW t \in Sessions
      PROVE  Good(session'[t], shown'[t], down'[t], up'[t])
  <2>1. CASE t = s
    BY <2>1
  <2>2. CASE t # s
    BY <2>2 DEF DialogueInv
  <2> QED BY <2>1, <2>2
<1>2. Acknowledged' = Acknowledged
  BY DEF Acknowledged
<1> QED BY <1>1, <1>2 DEF DialogueInv, Good

\* What is left to wait for when an operation has ended.
LEMMA WithoutGood ==
  ASSUME TypeOK, DialogueInv, ~stopped, NEW s \in Sessions,
         NEW op \in session[s].pending
  PROVE  /\ Without(session[s], op) \in Session
         /\ "accept" \notin Without(session[s], op).pending
         /\ Same(session[s], Without(session[s], op))
<1>1. session[s] \in Session /\ Handshake(session[s])
  BY DEF TypeOK, DialogueInv, Good
<1>2. Without(session[s], op)
        = [session[s] EXCEPT !.pending = session[s].pending \ {op}]
  BY DEF Without
<1> QED BY <1>1, <1>2 DEF Session, Handshake, Same

LEMMA CloseGood ==
  ASSUME TypeOK, DialogueInv, ~stopped, NEW s \in Sessions, NEW u,
         NEW op \in session[s].pending, Good(session[s], shown[s], down[s], u),
         CloseSession(s, Without(session[s], op))
  PROVE  /\ Good(session'[s], shown[s], down'[s], u)
         /\ \A t \in Sessions \ {s} : session'[t] = session[t] /\ down'[t] = down[t]
<1>1. session[s] \in Session
  BY DEF TypeOK
<1> QED BY <1>1, WithoutGood, SameGood, UpdateGood

\* A new connection starts with a clean slate.
LEMMA UpgradeGood ==
  ASSUME TypeOK, DialogueInv, NEW s \in Sessions, Upgrade(s)
  PROVE  DialogueInv'
<1> DEFINE S == [NoSession EXCEPT !.status = "accepting",
                                  !.pending = {"accept"},
                                  !.enabled = ~Acknowledged]
<1>1. /\ session' = [session EXCEPT ![s] = S]
      /\ down' = [down EXCEPT ![s] = <<>>] /\ up' = [up EXCEPT ![s] = <<>>]
      /\ shown' = [shown EXCEPT ![s] = 0]
      /\ UNCHANGED <<mode, version, stopped>>
  BY DEF Upgrade, stateVars
<1>2. /\ S.status = "accepting" /\ S.pending = {"accept"} /\ ~S.awaitingAck
      /\ S.sentVersion = 0
  BY DEF NoSession
<1> HIDE DEF S
<1>3. Good(S, 0, <<>>, <<>>)
  <2>1. Places(<<>>, Snapshots) = {} /\ DOMAIN <<>> = {}
    BY DEF Places
  <2>2. 0 <= version
    BY WebSocketAssumption DEF TypeOK
  <2> QED BY <1>2, <2>1, <2>2 DEF Good, Line, Credit, Handshake, Forward
<1>4. /\ Good(session'[s], shown'[s], down'[s], up'[s])
      /\ \A t \in Sessions \ {s} : /\ session'[t] = session[t]
                                   /\ shown'[t] = shown[t]
                                   /\ down'[t] = down[t] /\ up'[t] = up[t]
  BY <1>1, <1>3 DEF TypeOK
<1> QED BY <1>1, <1>4, OneSession

\* The greeting is no snapshot and takes no credit.
LEMMA AcceptGood ==
  ASSUME TypeOK, DialogueInv, NEW s \in Sessions, Accept(s)
  PROVE  DialogueInv'
<1>1. /\ ~stopped /\ "accept" \in session[s].pending
      /\ UNCHANGED <<mode, version, stopped, shown, up>>
  BY DEF Accept, NetworkIsFree, stateVars, browserVars
<1>2. /\ session[s] \in Session /\ Good(session[s], shown[s], down[s], up[s])
      /\ shown[s] \in 0 .. MaxVersions /\ down[s] \in Seq(0 .. MaxVersions)
  BY DEF TypeOK, DialogueInv
<1>3. CASE lost[s]
  BY <1>1, <1>2, <1>3, CloseGood, OneSession DEF Accept
<1>4. CASE ~lost[s]
  <2> DEFINE S == [session[s] EXCEPT !.status = "open",
                                     !.pending = {"write", "read"}]
             d == Append(down[s], 0)
             T == 0 .. MaxVersions
  <2>1. session' = [session EXCEPT ![s] = S] /\ down' = [down EXCEPT ![s] = d]
    BY <1>4 DEF Accept, TypeOK
  <2>2. /\ S.status = "open" /\ S.pending = {"write", "read"}
        /\ S.awaitingAck = session[s].awaitingAck
        /\ S.sentVersion = session[s].sentVersion /\ session[s].sentVersion \in T
        /\ session[s].status = "accepting"
    BY <1>1, <1>2 DEF Session, Good, Handshake
  <2> HIDE DEF S
  <2>3. /\ down[s] \in Seq(T) /\ 0 \in T /\ Len(down[s]) \in Nat
        /\ DOMAIN down[s] = 1 .. Len(down[s]) /\ 0 \notin Snapshots
    BY <1>2, LenProperties, WebSocketAssumption DEF Snapshots
  <2>4. 0 <= S.sentVersion
    BY <2>2, WebSocketAssumption
  <2> HIDE DEF T
  <2>5. \A i \in DOMAIN d : d[i] <= S.sentVersion
    <3>1. /\ Len(d) = Len(down[s]) + 1 /\ d[Len(down[s]) + 1] = 0
          /\ \A i \in 1 .. Len(down[s]) : d[i] = down[s][i]
          /\ DOMAIN d = 1 .. Len(down[s]) + 1
      BY <2>3, AppendProperties, LenProperties
    <3>2. \A i \in 1 .. Len(down[s]) + 1 :
            i \in 1 .. Len(down[s]) \/ i = Len(down[s]) + 1
      BY <2>3
    <3>3. \A i \in 1 .. Len(down[s]) : down[s][i] <= S.sentVersion
      BY <1>2, <2>2, <2>3 DEF Good, Line
    <3> QED BY <2>4, <3>1, <3>2, <3>3
  <2>6. Line(S, shown[s], d, version)
    <3>1. Forward(shown[s], d)
      BY <1>2, ForwardKept DEF Good, Line
    <3> QED BY <1>2, <2>2, <2>5, <3>1 DEF Good, Line
  <2>7. Acknowledged => Credit(S, d, up[s])
    <3>1. SUFFICES ASSUME Acknowledged PROVE Credit(S, d, up[s])
      OBVIOUS
    <3>2. ~S.awaitingAck /\ down[s] = <<>> /\ up[s] = <<>>
      BY <1>2, <2>2, <3>1 DEF Good, Credit
    <3>3. None(down[s], Snapshots) /\ None(up[s], {"next"})
      BY <3>2 DEF None, Places
    <3>4. None(d, Snapshots)
      BY <2>3, <3>3, CountOfAppend
    <3> QED BY <2>2, <3>2, <3>3, <3>4 DEF Credit
  <2>8. Good(S, shown[s], d, up[s])
    BY <2>2, <2>6, <2>7 DEF Good, Handshake
  <2> HIDE DEF d
  <2>9. /\ Good(session'[s], shown'[s], down'[s], up'[s])
        /\ \A t \in Sessions \ {s} : session'[t] = session[t] /\ down'[t] = down[t]
    BY <1>1, <2>1, <2>8 DEF TypeOK
  <2> QED BY <1>1, <2>9, OneSession
<1> QED BY <1>3, <1>4

\* A completed write leaves the credit where it is, or spends it on the next
\* snapshot.
LEMMA WriteDoneGood ==
  ASSUME TypeOK, DialogueInv, NEW s \in Sessions, WriteDone(s)
  PROVE  DialogueInv'
<1> DEFINE S0 == Without(session[s], "write")
           S == [S0 EXCEPT !.sending = NoBuffer]
           T == [S EXCEPT !.writing = FALSE]
<1>1. /\ ~stopped /\ "write" \in session[s].pending
      /\ UNCHANGED <<mode, version, stopped, shown, up>>
  BY DEF WriteDone, NetworkIsFree, stateVars, browserVars
<1>2. session[s] \in Session /\ Good(session[s], shown[s], down[s], up[s])
  BY DEF TypeOK, DialogueInv
<1>3. /\ S0 \in Session /\ "accept" \notin S0.pending /\ Same(session[s], S0)
  BY <1>1, WithoutGood
<1>4. /\ S \in Session /\ "accept" \notin S.pending /\ Same(session[s], S)
  BY <1>3 DEF Session, Frames, Same
<1>5. /\ T \in Session /\ "accept" \notin T.pending /\ Same(session[s], T)
  BY <1>4 DEF Session, Same
<1>6. Send(s, T) \/ CloseSession(s, S)
  BY DEF WriteDone
<1> HIDE DEF S0, S, T
<1>7. Good(S, shown[s], down[s], up[s]) /\ Good(T, shown[s], down[s], up[s])
  BY <1>2, <1>4, <1>5, SameGood
<1>8. /\ Good(session'[s], shown[s], down'[s], up[s])
      /\ \A t \in Sessions \ {s} : session'[t] = session[t] /\ down'[t] = down[t]
  BY <1>4, <1>5, <1>6, <1>7, UpdateGood
<1> QED BY <1>1, <1>8, OneSession

\* An acknowledgement is worth one credit, and no other command is.
LEMMA ReadGood ==
  ASSUME TypeOK, DialogueInv, NEW s \in Sessions, Read(s)
  PROVE  DialogueInv'
<1> DEFINE u == Tail(up[s])
           cmd == Head(up[s])
           C == Command(session[s], cmd)
<1>1. /\ ~stopped /\ "read" \in session[s].pending /\ session[s].status = "open"
      /\ up[s] # <<>> /\ up' = [up EXCEPT ![s] = u]
      /\ UNCHANGED <<mode, version, stopped, shown>>
  BY DEF Read, NetworkIsFree, stateVars
<1>2. /\ session[s] \in Session /\ Good(session[s], shown[s], down[s], up[s])
      /\ up[s] \in Seq(Commands)
  BY DEF TypeOK, DialogueInv
<1>3. /\ cmd # "next" /\ None(up[s], {"next"}) => None(u, {"next"})
      /\ cmd # "next" /\ One(up[s], {"next"}) => One(u, {"next"})
      /\ cmd = "next" => ~None(up[s], {"next"})
      /\ cmd = "next" /\ One(up[s], {"next"}) => None(u, {"next"})
  BY <1>1, <1>2, CountOfTail
<1>4. /\ Line(session[s], shown[s], down[s], version) /\ Handshake(session[s])
      /\ Acknowledged => Credit(session[s], down[s], up[s])
  BY <1>1, <1>2 DEF Good
<1>5. \/ /\ cmd \in {"start", "pause", "next"} /\ Acknowledged
         /\ Send(s, C)
      \/ /\ ~(Acknowledged /\ cmd = "next")
         /\ CloseSession(s, Without(session[s], "read"))
  BY DEF Read
<1> HIDE DEF u, cmd
<1>6. /\ Good(session'[s], shown[s], down'[s], u)
      /\ \A t \in Sessions \ {s} : session'[t] = session[t] /\ down'[t] = down[t]
  <2>1. CASE ~(Acknowledged /\ cmd = "next")
             /\ CloseSession(s, Without(session[s], "read"))
    <3>1. Acknowledged => Credit(session[s], down[s], u)
      BY <1>1, <1>3, <1>4, <2>1 DEF Credit
    <3>2. Good(session[s], shown[s], down[s], u)
      BY <1>4, <3>1 DEF Good
    <3> QED BY <1>1, <2>1, <3>2, CloseGood
  <2>2. CASE cmd \in {"start", "pause"} /\ Acknowledged /\ Send(s, C)
    <3>1. C \in Session /\ Same(session[s], C)
      BY <1>2, <2>2 DEF Command, Session, Same
    <3>2. Credit(session[s], down[s], u)
      BY <1>1, <1>3, <1>4, <2>2 DEF Credit
    <3>3. Good(session[s], shown[s], down[s], u)
      BY <1>4, <3>2 DEF Good
    <3>4. Good(C, shown[s], down[s], u)
      BY <1>2, <3>1, <3>3, SameGood
    <3> QED BY <2>2, <3>1, <3>4, UpdateGood
  <2>3. CASE cmd = "next" /\ Acknowledged /\ Send(s, C)
    <3>1. /\ C \in Session /\ C.status = session[s].status /\ ~C.awaitingAck
          /\ C.sentVersion = session[s].sentVersion
          /\ C.pending = session[s].pending
      BY <1>2, <2>3 DEF Command, Session
    <3>2. None(down[s], Snapshots) /\ None(u, {"next"})
      BY <1>1, <1>3, <1>4, <2>3 DEF Credit
    <3>3. Credit(C, down[s], u)
      BY <1>1, <3>1, <3>2 DEF Credit
    <3>4. Line(C, shown[s], down[s], version) /\ Handshake(C)
      BY <1>4, <3>1 DEF Line, Handshake
    <3>5. Good(C, shown[s], down[s], u)
      BY <3>3, <3>4 DEF Good
    <3> QED BY <2>3, <3>1, <3>5, UpdateGood
  <2> QED BY <1>5, <2>1, <2>2, <2>3
<1>7. /\ Good(session'[s], shown'[s], down'[s], up'[s])
      /\ \A t \in Sessions \ {s} : up'[t] = up[t]
  BY <1>1, <1>6 DEF TypeOK
<1> QED BY <1>1, <1>6, <1>7, OneSession

\* The browser turns a snapshot into an acknowledgement, and shows them in order.
LEMMA ReceiveGood ==
  ASSUME TypeOK, DialogueInv, NEW s \in Sessions, Receive(s)
  PROVE  DialogueInv'
<1> DEFINE d == Tail(down[s])
           n == Head(down[s])
           answer == IF n = 0 THEN "start" ELSE "next"
           u == IF ~Acknowledged THEN up[s] ELSE Append(up[s], answer)
<1>1. /\ session[s].status = "open" /\ down[s] # <<>>
      /\ UNCHANGED <<mode, version, stopped, session>>
      /\ down' = [down EXCEPT ![s] = d] /\ shown' = [shown EXCEPT ![s] = n]
  BY DEF Receive, stateVars
<1>2. up' = [up EXCEPT ![s] = u]
  BY DEF Receive, TypeOK
<1>3. /\ session[s] \in Session /\ Good(session[s], shown[s], down[s], up[s])
      /\ shown[s] \in 0 .. MaxVersions /\ down[s] \in Seq(0 .. MaxVersions)
      /\ up[s] \in Seq(Commands)
  BY DEF TypeOK, DialogueInv
<1>4. /\ n = down[s][1] /\ Len(down[s]) \in Nat \ {0}
      /\ DOMAIN down[s] = 1 .. Len(down[s]) /\ DOMAIN d = 1 .. Len(down[s]) - 1
      /\ \A i \in 1 .. Len(down[s]) - 1 : d[i] = down[s][i + 1]
  BY <1>1, <1>3, HeadTailProperties, EmptySeq, LenProperties
<1>5. n \in 0 .. MaxVersions
  <2> DEFINE T == 0 .. MaxVersions
  <2>1. down[s] \in Seq(T) /\ down[s] # <<>>
    BY <1>1, <1>3
  <2> HIDE DEF T
  <2>2. n \in T
    BY <2>1, HeadTailProperties
  <2> QED BY <2>2 DEF T
<1>6. n = 0 \/ n \in Snapshots
  BY <1>5, WebSocketAssumption DEF Snapshots
<1>7. 0 \notin Snapshots
  BY DEF Snapshots
<1>8. Line(session[s], n, d, version)
  <2>1. Forward(n, d)
    BY <1>1, <1>3, ForwardKept DEF Good, Line
  <2>2. \A i \in DOMAIN down[s] : down[s][i] <= session[s].sentVersion
    BY <1>1, <1>3 DEF Good, Line
  <2>3. 1 \in DOMAIN down[s] /\ \A i \in 1 .. Len(down[s]) - 1 : i + 1 \in DOMAIN down[s]
    BY <1>4
  <2> HIDE DEF d, n
  <2>4. n <= session[s].sentVersion /\ \A i \in DOMAIN d : d[i] <= session[s].sentVersion
    BY <1>4, <2>2, <2>3
  <2> QED BY <1>3, <2>1, <2>4 DEF Good, Line
<1>9. ASSUME Acknowledged PROVE Credit(session[s], d, u)
  <2> DEFINE T == 0 .. MaxVersions
  <2>1. Credit(session[s], down[s], up[s]) /\ u = Append(up[s], answer)
    BY <1>3, <1>9 DEF Good
  <2>2. down[s] \in Seq(T)
    BY <1>3
  <2> HIDE DEF T
  <2>3. /\ n \notin Snapshots /\ None(down[s], Snapshots) => None(d, Snapshots)
        /\ n \notin Snapshots /\ One(down[s], Snapshots) => One(d, Snapshots)
        /\ n \in Snapshots => ~None(down[s], Snapshots)
        /\ n \in Snapshots /\ One(down[s], Snapshots) => None(d, Snapshots)
    BY <1>1, <2>2, CountOfTail
  <2>4. "start" \in Commands /\ "next" \in Commands
    BY DEF Commands
  <2> HIDE DEF d, n
  <2>5. CASE n = 0
    <3>1. u = Append(up[s], "start")
      BY <2>1, <2>5
    <3>2. /\ None(up[s], {"next"}) => None(u, {"next"})
          /\ One(up[s], {"next"}) => One(u, {"next"})
      BY <1>3, <2>4, <3>1, CountOfAppend
    <3> HIDE DEF u
    <3> QED BY <1>1, <1>7, <2>1, <2>3, <2>5, <3>2 DEF Credit
  <2>6. CASE n \in Snapshots
    <3>1. u = Append(up[s], "next")
      BY <1>7, <2>1, <2>6
    <3>2. None(up[s], {"next"}) => One(u, {"next"})
      BY <1>3, <2>4, <3>1, CountOfAppend
    <3> HIDE DEF u
    <3> QED BY <1>1, <2>1, <2>3, <2>6, <3>2 DEF Credit
  <2> QED BY <1>6, <2>5, <2>6
<1> HIDE DEF d, n, u
<1>10. Good(session[s], n, d, u)
  BY <1>3, <1>8, <1>9 DEF Good
<1>11. /\ Good(session'[s], shown'[s], down'[s], up'[s])
       /\ \A t \in Sessions \ {s} : /\ session'[t] = session[t]
                                    /\ shown'[t] = shown[t]
                                    /\ down'[t] = down[t] /\ up'[t] = up[t]
  BY <1>1, <1>2, <1>10 DEF TypeOK
<1> QED BY <1>1, <1>11, OneSession

\* What the browser says out of turn is no acknowledgement.
LEMMA SayGood ==
  ASSUME TypeOK, DialogueInv, NEW s \in Sessions, Say(s)
  PROVE  DialogueInv'
<1>1. PICK cmd \in {"start", "pause", "hello?"} :
        up' = [up EXCEPT ![s] = Append(up[s], cmd)]
  BY DEF Say
<1>2. /\ UNCHANGED <<mode, version, stopped, session, down, shown>>
      /\ session[s].status = "open"
  BY DEF Say, stateVars
<1>3. Good(session[s], shown[s], down[s], up[s]) /\ up[s] \in Seq(Commands)
  BY DEF TypeOK, DialogueInv
<1>4. cmd \in Commands /\ cmd \notin {"next"}
  BY DEF Commands
<1>5. /\ None(up[s], {"next"}) => None(Append(up[s], cmd), {"next"})
      /\ One(up[s], {"next"}) => One(Append(up[s], cmd), {"next"})
  BY <1>3, <1>4, CountOfAppend
<1>6. Good(session[s], shown[s], down[s], Append(up[s], cmd))
  BY <1>2, <1>3, <1>5 DEF Good, Credit
<1>7. /\ Good(session'[s], shown'[s], down'[s], up'[s])
      /\ \A t \in Sessions \ {s} : up'[t] = up[t]
  BY <1>1, <1>2, <1>6 DEF TypeOK
<1> QED BY <1>2, <1>7, OneSession

\* Nothing that happens loses or doubles a credit, or sends a snapshot back.
LEMMA DialogueStep == TypeInv /\ DialogueInv /\ [Next]_vars => DialogueInv'
<1> SUFFICES ASSUME TypeOK, DialogueInv, [Next]_vars PROVE DialogueInv'
  BY DEF TypeInv
<1>1. ASSUME NEW s \in Sessions, ReadError(s) PROVE DialogueInv'
  <2>1. /\ ~stopped /\ "read" \in session[s].pending
        /\ CloseSession(s, Without(session[s], "read"))
        /\ UNCHANGED <<mode, version, stopped, shown, up>>
    BY <1>1 DEF ReadError, NetworkIsFree, stateVars, browserVars
  <2>2. Good(session[s], shown[s], down[s], up[s])
    BY DEF DialogueInv
  <2> QED BY <2>1, <2>2, CloseGood, OneSession
<1>2. ASSUME NEW s \in Sessions, Notify(s) PROVE DialogueInv'
  <2>1. Send(s, session[s]) /\ UNCHANGED <<mode, version, stopped, shown, up>>
    BY <1>2 DEF Notify, stateVars, browserVars
  <2>2. session[s] \in Session /\ Good(session[s], shown[s], down[s], up[s])
    BY DEF TypeOK, DialogueInv
  <2>3. /\ Good(session'[s], shown[s], down'[s], up[s])
        /\ \A t \in Sessions \ {s} : session'[t] = session[t] /\ down'[t] = down[t]
    BY <2>1, <2>2, UpdateGood
  <2> QED BY <2>1, <2>3, OneSession
<1>3. CASE Stop
  <2>1. /\ stopped' /\ session' = [s \in Sessions |-> Closed(session[s])]
        /\ UNCHANGED <<mode, version, shown, down, up>>
    BY <1>3 DEF Stop, browserVars
  <2>2. ASSUME NEW s \in Sessions
        PROVE  /\ Line(session'[s], shown[s], down[s], version)
               /\ Credit(session'[s], down[s], up[s])
    <3>1. session[s] \in Session /\ Line(session[s], shown[s], down[s], version)
      BY DEF TypeOK, DialogueInv, Good
    <3>2. session'[s] = Closed(session[s])
      BY <2>1
    <3> QED BY <3>1, <3>2, ClosedGood
  <2> QED BY <2>1, <2>2 DEF DialogueInv, Good
<1>4. CASE Publish
  <2>1. /\ version' = version + 1
        /\ UNCHANGED <<mode, stopped, session, shown, down, up>>
    BY <1>4 DEF Publish, browserVars
  <2>2. \A s \in Sessions : Line(session[s], shown[s], down[s], version')
    <3>1. ASSUME NEW s \in Sessions PROVE session[s].sentVersion <= version'
      <4>1. session[s].sentVersion \in 0 .. MaxVersions /\ version \in 0 .. MaxVersions
        BY DEF TypeOK, Session
      <4>2. session[s].sentVersion <= version
        BY DEF DialogueInv, Good, Line
      <4> QED BY <2>1, <4>1, <4>2, WebSocketAssumption
    <3> QED BY <3>1 DEF DialogueInv, Good, Line
  <2>3. Acknowledged' = Acknowledged
    BY <2>1 DEF Acknowledged
  <2> QED BY <2>1, <2>2, <2>3 DEF DialogueInv, Good
<1>5. CASE UNCHANGED <<mode, version, stopped, session, shown, down, up>>
  BY <1>5 DEF DialogueInv, Good, Acknowledged
<1>6. \/ \E s \in Sessions : \/ Upgrade(s) \/ Accept(s) \/ WriteDone(s)
                             \/ Read(s) \/ ReadError(s) \/ Notify(s)
                             \/ Receive(s) \/ Say(s)
      \/ Stop \/ Publish
      \/ UNCHANGED <<mode, version, stopped, session, shown, down, up>>
  BY DEF Next, NetworkStep, Leave, NotifyStart, Begin, Finish, vars, stateVars,
         browserVars
<1> QED BY <1>1, <1>2, <1>3, <1>4, <1>5, <1>6, UpgradeGood, AcceptGood,
           WriteDoneGood, ReadGood, ReceiveGood, SayGood

LEMMA DialogueInit == Init => DialogueInv
<1> SUFFICES ASSUME Init, NEW s \in Sessions
             PROVE  Good(session[s], shown[s], down[s], up[s])
  BY DEF DialogueInv
<1>1. /\ session[s] = NoSession /\ shown[s] = 0 /\ down[s] = <<>>
      /\ version = 0
  BY DEF Init
<1>2. /\ NoSession.status = "free" /\ NoSession.sentVersion = 0
      /\ NoSession.pending = {}
  BY DEF NoSession
<1>3. Forward(0, <<>>)
  BY DEF Forward, Places
<1> QED BY <1>1, <1>2, <1>3 DEF Good, Line, Credit, Handshake

\* Where a credit is, is where one place of a channel is.
LEMMA CreditCounted == TypeOK /\ DialogueInv => OneCredit
<1> SUFFICES ASSUME TypeOK, DialogueInv, Acknowledged, NEW s \in Sessions,
                    session[s].status = "open"
             PROVE  Cardinality(InFlight(s)) + Cardinality(Returning(s))
                      = IF session[s].awaitingAck THEN 1 ELSE 0
  BY DEF OneCredit
<1>1. Credit(session[s], down[s], up[s])
  BY DEF DialogueInv, Good
<1>2. /\ None(down[s], Snapshots) => Cardinality(InFlight(s)) = 0
      /\ None(up[s], {"next"}) => Cardinality(Returning(s)) = 0
  BY FS_EmptySet DEF None, InFlight, Returning
<1>3. /\ One(down[s], Snapshots) => Cardinality(InFlight(s)) = 1
      /\ One(up[s], {"next"}) => Cardinality(Returning(s)) = 1
  BY FS_Singleton DEF One, InFlight, Returning
<1> QED BY <1>1, <1>2, <1>3 DEF Credit

\* A browser that acknowledges has one credit, in whatever order completions,
\* acknowledgements, publications and other commands come (Session::send and
\* Session::onRead of WebSocketStream.cpp).
THEOREM OneCreditAlways == Spec => []OneCredit
<1>1. TypeInv /\ [Next]_vars => TypeInv'
  BY TypeStep, RoomStep DEF TypeInv
<1>2. TypeInv /\ DialogueInv => OneCredit
  BY CreditCounted DEF TypeInv
<1> QED BY TypeInit, DialogueInit, DialogueStep, <1>1, <1>2, PTL DEF Spec

\* No browser is sent a snapshot twice, nor an older one after a newer one
\* (Session::send of WebSocketStream.cpp).
THEOREM SnapshotsAlwaysGoForward == Spec => []SnapshotsGoForward
<1>1. TypeInv /\ [Next]_vars => TypeInv'
  BY TypeStep, RoomStep DEF TypeInv
<1>2. DialogueInv => SnapshotsGoForward
  BY DEF DialogueInv, SnapshotsGoForward, Good, Line
<1> QED BY TypeInit, DialogueInit, DialogueStep, <1>1, <1>2, PTL DEF Spec
=============================================================================
