---------------------------- MODULE InstanceProofs ----------------------------
(***************************************************************************)
(* Proofs about Instance: for any number of modules of any kinds, calling  *)
(* each other in any way, whichever of them fails in whatever phase and    *)
(* whenever SIGINT comes.                                                  *)
(***************************************************************************)
EXTENDS Instance, TLAPS

Before == {"load", "create", "init", "link"}
Deleting == {"members gone", "reader", "writer"}

\* How far the modules are in each phase before they are started.
PrepareInv ==
  /\ phase = "load" => \A m \in Modules : obj[m] = "none"
  /\ phase = "create" => \A m \in Modules : obj[m] \in {"none", "made"}
  /\ phase = "init" =>
       \A m \in Modules : obj[m] \in {"none", IF m < at THEN "loaded" ELSE "made"}
  /\ phase = "link" =>
       \A m \in Modules : obj[m] \in {"none", IF m < at THEN "linked" ELSE "loaded"}
  /\ phase \in {"start", "wait"} => \A m \in Modules : obj[m] \in {"none", "linked"}

\* How far they are when they are deleted.
DeleteInv ==
  /\ step # "begin" => at \in Modules
  /\ phase \notin {"clean", "gone"} =>
       \A m \in Modules : obj[m] \notin {"hollow", "deleted"}
  /\ phase = "clean" =>
       \A m \in Modules :
         /\ m < at => obj[m] \in {"none", "deleted"}
         /\ m > at => obj[m] \notin {"hollow", "deleted"}
         /\ m = at => /\ obj[m] # "deleted"
                      /\ obj[m] = "hollow" <=> step \in Deleting
  /\ phase = "gone" => \A m \in Modules : obj[m] \in {"none", "deleted"}

\* Only modules that are linked, and not yet deleted, have workers; with the
\* first worker all modules are.
WorkerInv ==
  /\ phase \in Before => \A m \in Modules, w \in Workers : worker[m][w] = "none"
  /\ \A m \in Modules, w \in Workers : Alive(m, w) =>
       /\ obj[m] \in {"linked", "hollow"}
       /\ w = Reader => m \in Pairs
       /\ \A u \in Modules : obj[u] \notin {"made", "loaded"}
  /\ phase = "start" /\ step # "begin" => at \in Pairs
  /\ phase = "clean" /\ step = "writer" => ~Alive(at, Reader)

\* The modules that join have no workers from then on.
JoinInv ==
  /\ phase = "stop" => \A m \in Joiners : m < at => Quiet(m)
  /\ phase \in {"clean", "gone"} => \A m \in Joiners : Quiet(m)
  /\ \A m \in LateJoiners : obj[m] = "hollow" => Quiet(m)

IInv == TypeOK /\ PrepareInv /\ DeleteInv /\ WorkerInv /\ JoinInv

-----------------------------------------------------------------------------
\* The numbers of the modules.
LEMMA Counting ==
  /\ 1 \in 1 .. N + 1
  /\ \A i \in Modules : i \in Int /\ i \in 1 .. N + 1 /\ i + 1 \in 1 .. N + 1 /\ i <= N
BY InstanceAssumption DEF Modules

LEMMA Ordering ==
  /\ \A i \in Modules : ~(i < 1) /\ i < N + 1 /\ ~(i > N + 1) /\ i # N + 1
  /\ \A i, j \in Modules : /\ i < j + 1 <=> i < j \/ i = j
                           /\ i > j + 1 => i > j
                           /\ i = j + 1 => i > j
BY InstanceAssumption DEF Modules

\* Every module has at most two workers.
LEMMA Both == Writer \in Workers /\ Reader \in Workers /\ Writer # Reader
             /\ \A w \in Workers : w = Writer \/ w = Reader
BY DEF Writer, Reader, Workers

\* What telling workers to stop, and starting one, leave of the types.
LEMMA AskType ==
  ASSUME TypeOK, NEW m \in Modules, NEW W, Ask(m, W)
  PROVE  asked' \in [Modules -> [Workers -> BOOLEAN]]
<1>1. [w \in Workers |-> w \in W \/ asked[m][w]] \in [Workers -> BOOLEAN]
  OBVIOUS
<1> QED BY <1>1 DEF Ask, TypeOK

LEMMA StartType ==
  ASSUME TypeOK, at \in Modules, NEW w \in Workers, StartThread(w)
  PROVE  /\ worker' \in [Modules -> [Workers -> {"none", "waiting", "pass", "ended"}]]
         /\ asked' \in [Modules -> [Workers -> BOOLEAN]]
         /\ cancelled' \in [Modules -> [Workers -> BOOLEAN]]
<1> QED BY DEF StartThread, TypeOK

LEMMA Following ==
  /\ DOMAIN After = {"load", "create", "init", "link", "start", "stop", "clean"}
  /\ After["load"] = "create" /\ After["create"] = "init" /\ After["init"] = "link"
  /\ After["link"] = "start" /\ After["start"] = "wait" /\ After["stop"] = "clean"
  /\ After["clean"] = "gone"
BY DEF After

\* What NextPhase and the workers do, without their alternatives.
LEMMA NextPhaseEffect ==
  ASSUME TypeOK, NextPhase
  PROVE  /\ at = N + 1 /\ at' = 1 /\ step' = "begin"
         /\ UNCHANGED <<signalled, obj, worker, asked, cancelled>>
         /\ \/ phase = "load" /\ phase' = "create"
            \/ phase = "create" /\ phase' = "init"
            \/ phase = "init" /\ phase' = "link"
            \/ phase = "link" /\ phase' = "start"
            \/ phase = "start" /\ phase' = "wait"
            \/ phase = "stop" /\ phase' = "clean"
            \/ phase = "clean" /\ phase' = "gone"
            \/ phase \in Before /\ phase' = "stop"
<1>1. at = N + 1
  BY InstanceAssumption DEF TypeOK, NextPhase
<1>2. at' = 1 /\ step' = "begin"
  BY DEF NextPhase, Goes, Exit
<1>3. UNCHANGED <<signalled, obj, worker, asked, cancelled>>
  BY DEF NextPhase, threads
<1>4. CASE signalled /\ phase \in Before
  <2>1. phase' = "stop"
    BY <1>4 DEF NextPhase, Goes, Exit, Before
  <2> QED BY <1>1, <1>2, <1>3, <1>4, <2>1
<1>5. CASE ~(signalled /\ phase \in Before)
  <2>1. phase \in DOMAIN After /\ phase' = After[phase]
    BY <1>5 DEF NextPhase, Goes, Before
  <2> QED BY <1>1, <1>2, <1>3, <2>1, Following
<1> QED BY <1>4, <1>5

LEMMA WorkerEffect ==
  ASSUME TypeOK, NEW m \in Modules, NEW w \in Workers, WorkerStep(m, w)
  PROVE  /\ Alive(m, w)
         /\ UNCHANGED <<signalled, phase, at, step, obj, asked, cancelled>>
         /\ \E pc \in {"waiting", "pass", "ended"} :
              worker' = [worker EXCEPT ![m][w] = pc]
<1> USE DEF Moves, Alive, main
<1>1. CASE BeginPass(m, w)
  BY <1>1 DEF BeginPass
<1>2. CASE EndPass(m, w)
  BY <1>2 DEF EndPass
<1>3. CASE Cancelled(m, w)
  BY <1>3 DEF Cancelled
<1> QED BY <1>1, <1>2, <1>3 DEF WorkerStep

\* Every step keeps the types.
LEMMA TypeStep == TypeOK /\ [Next]_vars => TypeOK'
<1> SUFFICES ASSUME TypeOK, [Next]_vars PROVE TypeOK'
  OBVIOUS
<1> USE Counting, Both DEF TypeOK, Steps, Phases, main, threads
<1>1. CASE UNCHANGED vars
  BY <1>1 DEF vars
<1>2. CASE Signal
  BY <1>2 DEF Signal
<1>3. CASE MainStep
  <2>1. CASE Skip
    BY <2>1 DEF Skip, Advance, Goes
  <2>2. CASE NextPhase
    BY <2>2, NextPhaseEffect DEF Before
  <2>3. CASE Create
    BY <2>3 DEF Create, Walks, Advance, Goes
  <2>4. CASE InitModule
    BY <2>4 DEF InitModule, Prepare, Walks, Advance, Goes, Exit
  <2>5. CASE LinkModule
    BY <2>5 DEF LinkModule, Prepare, Walks, Advance, Goes, Exit
  <2>6. CASE StartWriter
    BY <2>6, StartType DEF StartWriter, Walks, Goes, Advance, Exit
  <2>7. CASE StartReader
    BY <2>7, StartType DEF StartReader, Walks, Goes, Advance, Exit
  <2>8. CASE Undo
    BY <2>8, AskType DEF Undo, Walks, Goes
  <2>9. CASE Undone
    BY <2>9 DEF Undone, Walks, Exit, Goes
  <2>10. CASE Wait
    BY <2>10 DEF Wait, Exit, Goes
  <2>11. CASE StopModule
    BY <2>11, AskType DEF StopModule, Walks, Goes, Advance
  <2>12. CASE StopJoined
    BY <2>12 DEF StopJoined, Walks, Advance, Goes
  <2>13. CASE DeleteModule
    BY <2>13, AskType DEF DeleteModule, Walks, Goes
  <2>14. CASE LateJoined
    BY <2>14 DEF LateJoined, Walks, Goes
  <2>15. CASE DeleteReader
    BY <2>15, AskType DEF DeleteReader, DeleteThread, Walks, Goes
  <2>16. CASE DeleteWriter
    <3>1. /\ at \in Modules /\ Ask(at, {Writer}) /\ Goes("clean", at, "writer")
          /\ cancelled' = [cancelled EXCEPT ![at][Writer] = TRUE]
          /\ UNCHANGED <<signalled, obj, worker>>
      BY <2>16 DEF DeleteWriter, DeleteThread, Walks
    <3> QED BY <3>1, AskType DEF Goes
  <2>17. CASE Deleted
    BY <2>17 DEF Deleted, Walks, Advance, Goes
  <2> QED BY <1>3, <2>1, <2>2, <2>3, <2>4, <2>5, <2>6, <2>7, <2>8, <2>9, <2>10,
             <2>11, <2>12, <2>13, <2>14, <2>15, <2>16, <2>17 DEF MainStep
<1>4. ASSUME NEW m \in Modules, NEW w \in Workers, WorkerStep(m, w)
      PROVE  TypeOK'
  <2>1. PICK pc \in {"waiting", "pass", "ended"} :
               worker' = [worker EXCEPT ![m][w] = pc]
    BY <1>4, WorkerEffect
  <2>2. worker' \in [Modules -> [Workers -> {"none", "waiting", "pass", "ended"}]]
    BY <2>1
  <2>3. UNCHANGED <<signalled, phase, at, step, obj, asked, cancelled>>
    BY <1>4, WorkerEffect
  <2> QED BY <2>2, <2>3
<1>5. ASSUME NEW m \in Modules, NEW u \in Modules, Wake(m, u)
      PROVE  TypeOK'
  BY <1>5 DEF Wake
<1> QED BY <1>1, <1>2, <1>3, <1>4, <1>5 DEF Next

\* The phases come in order, each for all modules.
LEMMA PrepareStep ==
  TypeOK /\ PrepareInv /\ [Next]_vars => PrepareInv'
<1> SUFFICES ASSUME TypeOK, PrepareInv, [Next]_vars
             PROVE  PrepareInv'
  OBVIOUS
<1> USE Counting, Both DEF TypeOK, Phases, Steps, PrepareInv, main, threads
<1>1. CASE UNCHANGED vars
  BY <1>1 DEF vars
<1>2. CASE Signal
  BY <1>2 DEF Signal
<1>3. CASE MainStep
  <2>1. CASE Skip
    <3>1. at \in Modules /\ obj[at] = "none"
      BY <2>1 DEF Skip
    <3>2. \A m \in Modules : /\ m < at + 1 <=> m < at \/ m = at
                             /\ m > at + 1 => m > at
                             /\ m = at + 1 => m > at
      BY <3>1, Ordering
    <3>3. /\ phase' = phase /\ at' = at + 1 /\ step' = "begin"
          /\ UNCHANGED <<obj, worker>>
          /\ phase \notin {"load", "create", "wait", "gone"}
      BY <2>1 DEF Skip, Advance, Goes
    <3> QED BY <3>1, <3>2, <3>3
  <2>2. CASE NextPhase
    <3>1. /\ at = N + 1 /\ at' = 1 /\ step' = "begin"
          /\ UNCHANGED <<obj, worker>>
      BY <2>2, NextPhaseEffect
    <3>2. \A m \in Modules : m < at /\ ~(m > at) /\ m # at /\ ~(m < at')
      BY <3>1, Ordering
    <3>3. \/ phase = "load" /\ phase' = "create"
          \/ phase = "create" /\ phase' = "init"
          \/ phase = "init" /\ phase' = "link"
          \/ phase = "link" /\ phase' = "start"
          \/ phase = "start" /\ phase' = "wait"
          \/ phase = "stop" /\ phase' = "clean"
          \/ phase = "clean" /\ phase' = "gone"
          \/ phase \in Before /\ phase' = "stop"
      BY <2>2, NextPhaseEffect
    <3> QED BY <3>1, <3>2, <3>3 DEF Before
  <2>3. CASE Create
    BY <2>3 DEF Create, Walks, Advance, Goes
  <2>4. CASE InitModule
    BY <2>4 DEF InitModule, Prepare, Walks, Advance, Goes, Exit
  <2>5. CASE LinkModule
    BY <2>5 DEF LinkModule, Prepare, Walks, Advance, Goes, Exit
  <2>6. CASE StartWriter
    BY <2>6 DEF StartWriter, Walks, StartThread, Goes, Advance, Exit
  <2>7. CASE StartReader
    BY <2>7 DEF StartReader, Walks, StartThread, Goes, Advance, Exit
  <2>8. CASE Undo
    BY <2>8 DEF Undo, Walks, Ask, Goes
  <2>9. CASE Undone
    BY <2>9 DEF Undone, Walks, Exit, Goes
  <2>10. CASE Wait
    BY <2>10 DEF Wait, Exit, Goes
  <2>11. CASE StopModule
    BY <2>11 DEF StopModule, Walks, Ask, Goes, Advance
  <2>12. CASE StopJoined
    BY <2>12 DEF StopJoined, Walks, Advance, Goes
  <2>13. CASE DeleteModule
    BY <2>13 DEF DeleteModule, Walks, Ask, Goes
  <2>14. CASE LateJoined
    BY <2>14 DEF LateJoined, Walks, Goes
  <2>15. CASE DeleteReader
    BY <2>15 DEF DeleteReader, DeleteThread, Walks, Ask, Goes
  <2>16. CASE DeleteWriter
    BY <2>16 DEF DeleteWriter, DeleteThread, Walks, Ask, Goes
  <2>17. CASE Deleted
    BY <2>17 DEF Deleted, Walks, Advance, Goes
  <2> QED BY <1>3, <2>1, <2>2, <2>3, <2>4, <2>5, <2>6, <2>7, <2>8, <2>9, <2>10,
             <2>11, <2>12, <2>13, <2>14, <2>15, <2>16, <2>17 DEF MainStep
<1>4. ASSUME NEW m \in Modules, NEW w \in Workers, WorkerStep(m, w)
      PROVE  PrepareInv'
  BY <1>4, WorkerEffect
<1>5. ASSUME NEW m \in Modules, NEW u \in Modules, Wake(m, u)
      PROVE  PrepareInv'
  BY <1>5 DEF Wake
<1> QED BY <1>1, <1>2, <1>3, <1>4, <1>5 DEF Next

\* Modules are deleted one by one.
LEMMA DeleteStep ==
  TypeOK /\ PrepareInv /\ DeleteInv /\ [Next]_vars => DeleteInv'
<1> SUFFICES ASSUME TypeOK, PrepareInv, DeleteInv, [Next]_vars
             PROVE  DeleteInv'
  OBVIOUS
<1> USE Counting, Both DEF TypeOK, Phases, Steps, PrepareInv, DeleteInv,
                           Deleting, main, threads
<1>1. CASE UNCHANGED vars
  BY <1>1 DEF vars
<1>2. CASE Signal
  BY <1>2 DEF Signal
<1>3. CASE MainStep
  <2>1. CASE Skip
    <3>1. at \in Modules /\ obj[at] = "none"
      BY <2>1 DEF Skip
    <3>2. \A m \in Modules : /\ m < at + 1 <=> m < at \/ m = at
                             /\ m > at + 1 => m > at
                             /\ m = at + 1 => m > at
      BY <3>1, Ordering
    <3>3. /\ phase' = phase /\ at' = at + 1 /\ step' = "begin"
          /\ UNCHANGED <<obj, worker>>
          /\ phase \notin {"load", "create", "wait", "gone"}
      BY <2>1 DEF Skip, Advance, Goes
    <3> QED BY <3>1, <3>2, <3>3
  <2>2. CASE NextPhase
    <3>1. /\ at = N + 1 /\ at' = 1 /\ step' = "begin"
          /\ UNCHANGED <<obj, worker>>
      BY <2>2, NextPhaseEffect
    <3>2. \A m \in Modules : m < at /\ ~(m > at) /\ m # at /\ ~(m < at')
      BY <3>1, Ordering
    <3>3. \/ phase = "load" /\ phase' = "create"
          \/ phase = "create" /\ phase' = "init"
          \/ phase = "init" /\ phase' = "link"
          \/ phase = "link" /\ phase' = "start"
          \/ phase = "start" /\ phase' = "wait"
          \/ phase = "stop" /\ phase' = "clean"
          \/ phase = "clean" /\ phase' = "gone"
          \/ phase \in Before /\ phase' = "stop"
      BY <2>2, NextPhaseEffect
    <3> QED BY <3>1, <3>2, <3>3 DEF Before
  <2>3. CASE Create
    BY <2>3 DEF Create, Walks, Advance, Goes
  <2>4. CASE InitModule
    BY <2>4 DEF InitModule, Prepare, Walks, Advance, Goes, Exit
  <2>5. CASE LinkModule
    BY <2>5 DEF LinkModule, Prepare, Walks, Advance, Goes, Exit
  <2>6. CASE StartWriter
    BY <2>6 DEF StartWriter, Walks, StartThread, Goes, Advance, Exit
  <2>7. CASE StartReader
    BY <2>7 DEF StartReader, Walks, StartThread, Goes, Advance, Exit
  <2>8. CASE Undo
    BY <2>8 DEF Undo, Walks, Ask, Goes
  <2>9. CASE Undone
    BY <2>9 DEF Undone, Walks, Exit, Goes
  <2>10. CASE Wait
    BY <2>10 DEF Wait, Exit, Goes
  <2>11. CASE StopModule
    BY <2>11 DEF StopModule, Walks, Ask, Goes, Advance
  <2>12. CASE StopJoined
    BY <2>12 DEF StopJoined, Walks, Advance, Goes
  <2>13. CASE DeleteModule
    BY <2>13 DEF DeleteModule, Walks, Ask, Goes
  <2>14. CASE LateJoined
    BY <2>14 DEF LateJoined, Walks, Goes
  <2>15. CASE DeleteReader
    BY <2>15 DEF DeleteReader, DeleteThread, Walks, Ask, Goes
  <2>16. CASE DeleteWriter
    BY <2>16 DEF DeleteWriter, DeleteThread, Walks, Ask, Goes
  <2>17. CASE Deleted
    BY <2>17 DEF Deleted, Walks, Advance, Goes
  <2> QED BY <1>3, <2>1, <2>2, <2>3, <2>4, <2>5, <2>6, <2>7, <2>8, <2>9, <2>10,
             <2>11, <2>12, <2>13, <2>14, <2>15, <2>16, <2>17 DEF MainStep
<1>4. ASSUME NEW m \in Modules, NEW w \in Workers, WorkerStep(m, w)
      PROVE  DeleteInv'
  BY <1>4, WorkerEffect
<1>5. ASSUME NEW m \in Modules, NEW u \in Modules, Wake(m, u)
      PROVE  DeleteInv'
  BY <1>5 DEF Wake
<1> QED BY <1>1, <1>2, <1>3, <1>4, <1>5 DEF Next

\* Workers begin when all modules are linked, and end before theirs is freed.
LEMMA WorkerStepInv ==
  TypeOK /\ PrepareInv /\ DeleteInv /\ WorkerInv /\ [Next]_vars => WorkerInv'
<1> SUFFICES ASSUME TypeOK, PrepareInv, DeleteInv, WorkerInv, [Next]_vars
             PROVE  WorkerInv'
  OBVIOUS
<1> USE Counting, Both DEF TypeOK, Phases, Steps, PrepareInv, DeleteInv,
                           Deleting, WorkerInv, Before, Alive, main, threads
<1>1. CASE UNCHANGED vars
  BY <1>1 DEF vars
<1>2. CASE Signal
  BY <1>2 DEF Signal
<1>3. CASE MainStep
  <2>1. CASE Skip
    BY <2>1 DEF Skip, Advance, Goes
  <2>2. CASE NextPhase
    <3>1. step' = "begin" /\ UNCHANGED <<obj, worker>>
      BY <2>2, NextPhaseEffect
    <3>2. phase' \in Before => phase \in Before
      BY <2>2, NextPhaseEffect DEF Before
    <3> QED BY <3>1, <3>2
  <2>3. CASE Create
    BY <2>3 DEF Create, Walks, Advance, Goes
  <2>4. CASE InitModule
    BY <2>4 DEF InitModule, Prepare, Walks, Advance, Goes, Exit
  <2>5. CASE LinkModule
    BY <2>5 DEF LinkModule, Prepare, Walks, Advance, Goes, Exit
  <2>6. CASE StartWriter
    BY <2>6 DEF StartWriter, Walks, StartThread, Goes, Advance, Exit
  <2>7. CASE StartReader
    BY <2>7 DEF StartReader, Walks, StartThread, Goes, Advance, Exit
  <2>8. CASE Undo
    BY <2>8 DEF Undo, Walks, Ask, Goes
  <2>9. CASE Undone
    BY <2>9 DEF Undone, Walks, Exit, Goes
  <2>10. CASE Wait
    BY <2>10 DEF Wait, Exit, Goes
  <2>11. CASE StopModule
    BY <2>11 DEF StopModule, Walks, Ask, Goes, Advance
  <2>12. CASE StopJoined
    BY <2>12 DEF StopJoined, Walks, Advance, Goes
  <2>13. CASE DeleteModule
    BY <2>13 DEF DeleteModule, Walks, Ask, Goes
  <2>14. CASE LateJoined
    BY <2>14 DEF LateJoined, Walks, Goes
  <2>15. CASE DeleteReader
    BY <2>15 DEF DeleteReader, DeleteThread, Walks, Ask, Goes
  <2>16. CASE DeleteWriter
    BY <2>16 DEF DeleteWriter, DeleteThread, Walks, Ask, Goes
  <2>17. CASE Deleted
    BY <2>17 DEF Deleted, Walks, Advance, Goes
  <2> QED BY <1>3, <2>1, <2>2, <2>3, <2>4, <2>5, <2>6, <2>7, <2>8, <2>9, <2>10,
             <2>11, <2>12, <2>13, <2>14, <2>15, <2>16, <2>17 DEF MainStep
<1>4. ASSUME NEW m \in Modules, NEW w \in Workers, WorkerStep(m, w)
      PROVE  WorkerInv'
  <2>1. PICK pc \in {"waiting", "pass", "ended"} :
               worker' = [worker EXCEPT ![m][w] = pc]
    BY <1>4, WorkerEffect
  <2>2. /\ Alive(m, w)
        /\ UNCHANGED <<signalled, phase, at, step, obj, asked, cancelled>>
    BY <1>4, WorkerEffect
  <2>3. \A n \in Modules, v \in Workers : Alive(n, v)' => Alive(n, v)
    BY <2>1, <2>2
  <2>4. phase \notin Before
    BY <2>2
  <2>5. step = "writer" => at \in Modules
    OBVIOUS
  <2> QED BY <2>2, <2>3, <2>4, <2>5, Both
<1>5. ASSUME NEW m \in Modules, NEW u \in Modules, Wake(m, u)
      PROVE  WorkerInv'
  BY <1>5 DEF Wake
<1> QED BY <1>1, <1>2, <1>3, <1>4, <1>5 DEF Next

\* Only startAll() gives a module a worker.
LEMMA QuietStays ==
  ASSUME TypeOK, [Next]_vars, phase # "start", NEW m \in Modules, Quiet(m)
  PROVE  Quiet(m)'
<1> USE DEF Quiet, Alive
<1>1. CASE worker' = worker
  BY <1>1
<1>2. ASSUME NEW n \in Modules, NEW w \in Workers, WorkerStep(n, w)
      PROVE  Quiet(m)'
  <2>1. n # m
    BY <1>2, WorkerEffect
  <2> QED BY <1>2, <2>1, WorkerEffect DEF TypeOK
<1>3. worker' = worker \/ \E n \in Modules : \E w \in Workers : WorkerStep(n, w)
  <2>1. MainStep => worker' = worker
    BY DEF MainStep, Skip, NextPhase, Create, InitModule, LinkModule, Prepare,
           StartWriter, StartReader, Undo, Undone, Wait, StopModule, StopJoined,
           DeleteModule, LateJoined, DeleteReader, DeleteWriter, DeleteThread,
           Deleted, Walks, threads
  <2> QED BY <2>1 DEF Next, Signal, Wake, vars, threads
<1> QED BY <1>1, <1>2, <1>3

\* What has been joined stays quiet.
LEMMA JoinStep ==
  TypeOK /\ DeleteInv /\ WorkerInv /\ JoinInv /\ [Next]_vars => JoinInv'
<1> SUFFICES ASSUME TypeOK, DeleteInv, WorkerInv, JoinInv, [Next]_vars
             PROVE  JoinInv'
  OBVIOUS
<1>1. phase # "start" => \A m \in Modules : Quiet(m) => Quiet(m)'
  BY QuietStays
<1>2. \A m \in Modules : obj[m] \in {"none", "made", "loaded", "deleted"} => Quiet(m)
  BY DEF WorkerInv, Quiet
<1>3. Joiners \subseteq Modules /\ LateJoiners \subseteq Modules
  BY InstanceAssumption
<1> USE <1>1, <1>2, <1>3, Counting DEF TypeOK, DeleteInv, JoinInv, main, threads
<1>4. CASE UNCHANGED vars \/ Signal \/ (\E m, u \in Modules : Wake(m, u))
  <2>1. UNCHANGED <<phase, at, obj, worker>>
    BY <1>4 DEF vars, Signal, Wake
  <2>2. \A m \in Modules : Quiet(m)' = Quiet(m)
    BY <2>1 DEF Quiet, Alive
  <2> QED BY <2>1, <2>2
<1>5. ASSUME NEW m \in Modules, NEW w \in Workers, WorkerStep(m, w)
      PROVE  JoinInv'
  <2>1. UNCHANGED <<phase, at, obj>>
    BY <1>5, WorkerEffect
  <2>2. phase = "start" => \A n \in Modules : obj[n] # "hollow"
    OBVIOUS
  <2> QED BY <2>1, <2>2
<1>6. CASE MainStep
  <2>1. CASE Skip
    BY <2>1 DEF Skip, Advance, Goes
  <2>2. CASE NextPhase
    BY <2>2, NextPhaseEffect DEF Before
  <2>3. CASE Create
    BY <2>3 DEF Create, Walks, Advance, Goes
  <2>4. CASE InitModule
    BY <2>4 DEF InitModule, Prepare, Walks, Advance, Goes, Exit
  <2>5. CASE LinkModule
    BY <2>5 DEF LinkModule, Prepare, Walks, Advance, Goes, Exit
  <2>6. CASE StartWriter
    BY <2>6 DEF StartWriter, Walks, Goes, Advance, Exit
  <2>7. CASE StartReader
    BY <2>7 DEF StartReader, Walks, Goes, Advance, Exit
  <2>8. CASE Undo
    BY <2>8 DEF Undo, Walks, Goes
  <2>9. CASE Undone
    BY <2>9 DEF Undone, Walks, Exit, Goes
  <2>10. CASE Wait
    BY <2>10 DEF Wait, Exit, Goes
  <2>11. CASE StopModule
    BY <2>11 DEF StopModule, Walks, Goes, Advance
  <2>12. CASE StopJoined
    BY <2>12 DEF StopJoined, Walks, Advance, Goes
  <2>13. CASE DeleteModule
    BY <2>13 DEF DeleteModule, Walks, Goes
  <2>14. CASE LateJoined
    BY <2>14 DEF LateJoined, Walks, Goes
  <2>15. CASE DeleteReader
    BY <2>15 DEF DeleteReader, DeleteThread, Walks, Goes
  <2>16. CASE DeleteWriter
    BY <2>16 DEF DeleteWriter, DeleteThread, Walks, Goes
  <2>17. CASE Deleted
    BY <2>17 DEF Deleted, Walks, Advance, Goes
  <2> QED BY <1>6, <2>1, <2>2, <2>3, <2>4, <2>5, <2>6, <2>7, <2>8, <2>9, <2>10,
             <2>11, <2>12, <2>13, <2>14, <2>15, <2>16, <2>17 DEF MainStep
<1> QED BY <1>4, <1>5, <1>6 DEF Next

-----------------------------------------------------------------------------
LEMMA InitIInv == Init => IInv
<1> SUFFICES ASSUME Init PROVE IInv
  OBVIOUS
<1> USE Counting DEF Init
<1>1. TypeOK
  <2>1. /\ worker \in [Modules -> [Workers -> {"none", "waiting", "pass", "ended"}]]
        /\ asked \in [Modules -> [Workers -> BOOLEAN]]
        /\ cancelled \in [Modules -> [Workers -> BOOLEAN]]
    OBVIOUS
  <2>2. at \in 1 .. N + 1
    BY InstanceAssumption
  <2> QED BY <2>1, <2>2 DEF TypeOK, Steps, Phases
<1>2. PrepareInv /\ DeleteInv
  BY DEF PrepareInv, DeleteInv, Deleting
<1>3. WorkerInv /\ JoinInv
  <2>1. \A m \in Modules, w \in Workers : worker[m][w] = "none"
    OBVIOUS
  <2> QED BY <2>1, InstanceAssumption DEF WorkerInv, JoinInv, Before, Quiet,
             Alive
<1> QED BY <1>1, <1>2, <1>3 DEF IInv

LEMMA NextIInv == IInv /\ [Next]_vars => IInv'
BY TypeStep, PrepareStep, DeleteStep, WorkerStepInv, JoinStep DEF IInv

LEMMA Invariance == Spec => []IInv
BY InitIInv, NextIInv, PTL DEF Spec

-----------------------------------------------------------------------------
\* The main thread, the modules and their workers are always in one of the states
\* the other theorems tell apart, however startup and shutdown interleave.
THEOREM TypeCorrect == Spec => []TypeOK
<1>1. IInv => TypeOK
  BY DEF IInv
<1> QED BY Invariance, <1>1, PTL

\* No worker calls a module before all are linked; and none calls one that is
\* being deleted if that is to come after its own module, or if its own module
\* joins its workers when it is stopped.
THEOREM CallsAlwaysReachModules == Spec => []CallsReachModules
<1>1. IInv => CallsReachModules
  <2> SUFFICES ASSUME IInv,
                      NEW m \in Modules, NEW w \in Workers, worker[m][w] = "pass"
               PROVE  /\ \A u \in Called(m) : obj[u] \notin {"made", "loaded"}
                      /\ \A u \in Lasting(m) : obj[u] \notin {"hollow", "deleted"}
    BY DEF CallsReachModules
  <2>1. Alive(m, w)
    BY DEF Alive
  <2>2. \A u \in Called(m) : obj[u] \notin {"made", "loaded"}
    BY <2>1 DEF IInv, WorkerInv, Called
  <2>3. ASSUME NEW u \in Lasting(m) PROVE obj[u] \notin {"hollow", "deleted"}
    <3>1. u \in Modules /\ (m \in Joiners \/ u > m)
      BY DEF Lasting, Called
    <3>2. m \in Joiners => phase \notin {"clean", "gone"}
      BY <2>1 DEF IInv, JoinInv, Quiet
    <3>3. obj[m] \in {"linked", "hollow"}
      BY <2>1 DEF IInv, WorkerInv
    <3>4. phase # "gone"
      BY <3>3 DEF IInv, DeleteInv
    <3>5. phase = "clean" => m >= at
      BY <3>3 DEF IInv, TypeOK, DeleteInv, Modules
    <3>6. phase = "clean" => u > at
      BY <3>1, <3>2, <3>5, InstanceAssumption DEF IInv, TypeOK, Modules
    <3> QED BY <3>1, <3>4, <3>6 DEF IInv, DeleteInv
  <2> QED BY <2>2, <2>3
<1> QED BY Invariance, <1>1, PTL

\* The members of a module that joins its workers outlive them, and no module is
\* freed while it has a worker.
THEOREM WorkersAlwaysEndFirst == Spec => []WorkersEndFirst
<1>1. IInv => WorkersEndFirst
  <2> SUFFICES ASSUME IInv, NEW m \in Modules
               PROVE  /\ obj[m] = "hollow" /\ m \in Joiners \cup LateJoiners => Quiet(m)
                      /\ obj[m] \in {"none", "deleted"} => Quiet(m)
    BY DEF WorkersEndFirst
  <2>1. obj[m] \in {"none", "deleted"} => Quiet(m)
    BY DEF IInv, WorkerInv, Quiet
  <2>2. obj[m] = "hollow" => phase \in {"clean", "gone"}
    BY DEF IInv, DeleteInv
  <2>3. obj[m] = "hollow" /\ m \in Joiners \cup LateJoiners => Quiet(m)
    BY <2>2 DEF IInv, JoinInv
  <2> QED BY <2>1, <2>3
<1> QED BY Invariance, <1>1, PTL
=============================================================================
