------------------------------ MODULE Instance ------------------------------
(***************************************************************************)
(* The life of a program (src/main.cpp and Instance/InstanceMgr.cpp): the  *)
(* main thread creates, configures, links and starts the modules of the    *)
(* configuration one after the other, waits for SIGINT, tells them all to  *)
(* stop and deletes them in the order of their creation, while the workers *)
(* of those that are still there make passes that call into each other.    *)
(*                                                                         *)
(* Modules differ in how they end.  _ModuleBase::stop() only asks the      *)
(* first worker; a joiner's stop() waits for its workers (_IObase,         *)
(* _WSconsole, _SLAMbase, the LiDARs); a late joiner waits in its own      *)
(* destructor (_TransformRigid, _GeoFence); for all others the destructor  *)
(* of _Thread, reached from those of _ProtocolBase and _ModuleBase when    *)
(* the members of the derived class are gone already, ends the workers.    *)
(***************************************************************************)
EXTENDS Integers, FiniteSets

CONSTANTS
  N,            \* modules in the configuration, numbered in its order
  Pairs,        \* modules with a second worker, m_pTr
  Joiners,      \* modules whose stop() joins their workers
  LateJoiners,  \* modules whose destructor does
  Uses,         \* <<m, u>>: the workers of m call u
  Wakes,        \* <<m, u>>: the last worker of m calls run() of u's first
  LooksAgain,   \* <<m, w>>: worker w of m tests bRun() again after autoFPS()
  MayFail       \* modules that may not be created, loaded, linked or started

Modules == 1 .. N

ASSUME InstanceAssumption ==
  /\ N \in Nat
  /\ Pairs \subseteq Modules
  /\ Joiners \subseteq Modules
  /\ LateJoiners \subseteq Modules \ (Pairs \cup Joiners)
  /\ Uses \subseteq Modules \X Modules
  /\ Wakes \subseteq Modules \X Modules
  /\ LooksAgain \subseteq Modules \X {1, 2}
  /\ MayFail \subseteq Modules

VARIABLES
  signalled,  \* g_stopRequested
  phase,      \* what the main thread does to all modules,
  at,         \* the module it has reached,
  step,       \* and how far it is with that one
  obj,        \* how much of each module there is
  worker,     \* where each worker is
  asked,      \* m_setState = thread_stop, for each worker
  cancelled   \* pthread_cancel() was called for the worker

main == <<phase, at, step>>
threads == <<worker, asked, cancelled>>
vars == <<signalled, main, obj, threads>>

Steps == {"begin", "second", "undo", "undone", "join", "members gone", "reader",
          "writer"}
Phases == {"load", "create", "init", "link", "start", "wait", "stop", "clean",
           "gone"}
Writer == 1
Reader == 2
Workers == {Writer, Reader}

Init ==
  /\ signalled = FALSE
  /\ phase = "load" /\ at = N + 1 /\ step = "begin"
  /\ obj = [m \in Modules |-> "none"]
  /\ worker = [m \in Modules |-> [w \in Workers |-> "none"]]
  /\ asked = [m \in Modules |-> [w \in Workers |-> FALSE]]
  /\ cancelled = [m \in Modules |-> [w \in Workers |-> FALSE]]

-----------------------------------------------------------------------------
(* The workers *)

Alive(m, w) == worker[m][w] \in {"waiting", "pass"}
Quiet(m) == \A w \in Workers : ~Alive(m, w)

Moves(m, w, pc) ==
  /\ worker' = [worker EXCEPT ![m][w] = pc]
  /\ UNCHANGED <<signalled, main, obj, asked, cancelled>>

\* autoFPS() returns, at the latest when the worker is told to stop.  Most loops
\* then make their pass; some (_TransformRigid::update) look at bRun() first.
BeginPass(m, w) ==
  /\ worker[m][w] = "waiting"
  /\ Moves(m, w, IF <<m, w>> \in LooksAgain /\ asked[m][w] THEN "ended" ELSE "pass")

\* The head of the loop: while (m_pT->bRun())
EndPass(m, w) ==
  /\ worker[m][w] = "pass"
  /\ Moves(m, w, IF asked[m][w] THEN "ended" ELSE "waiting")

\* A worker that is cancelled ends where it waits or blocks.
Cancelled(m, w) == Alive(m, w) /\ cancelled[m][w] /\ Moves(m, w, "ended")

\* In its pass the last worker of m calls run() of u's first one, which is then no
\* longer told to stop: _RTCMcast::updateR that of its own module; a module that
\* sets the pose of a transform (_APmav_base::updateApMavRecv) those of the
\* transform's children, through updateChildNodes, if the pose has changed.
Wake(m, u) ==
  /\ <<m, u>> \in Wakes
  /\ worker[m][IF m \in Pairs THEN Reader ELSE Writer] = "pass"
  /\ obj[u] \in {"linked", "hollow"}
  /\ asked' = [asked EXCEPT ![u][Writer] = FALSE]
  /\ UNCHANGED <<signalled, main, obj, worker, cancelled>>

-----------------------------------------------------------------------------
(* The main thread *)

Signal == signalled' = TRUE /\ UNCHANGED <<main, obj, threads>>

Goes(p, i, s) == phase' = p /\ at' = i /\ step' = s
Advance == Goes(phase, at + 1, "begin")

\* (Mutant: counts from 0.)
ExitToZero == Goes("stop", 0, "begin")

Exit == Goes("stop", 1, "begin")

\* The main thread has reached a module that there is.
Walks(p, s) ==
  phase = p /\ at \in Modules /\ step = s /\ (p # "create" => obj[at] # "none")

\* A module that was not created is not in m_vModules.
Skip ==
  /\ phase \notin {"load", "create", "wait", "gone"}
  /\ at \in Modules /\ obj[at] = "none"
  /\ Advance
  /\ UNCHANGED <<signalled, obj, threads>>

\* (Mutant: modules are started before they are linked.)
AfterStartsFirst ==
  [load |-> "create", create |-> "init", init |-> "start", start |-> "link",
   link |-> "wait", stop |-> "clean", clean |-> "gone"]

After == [load |-> "create", create |-> "init", init |-> "link",
          link |-> "start", start |-> "wait", stop |-> "clean",
          clean |-> "gone"]

\* main() looks at g_stopRequested before each phase but the last two.
NextPhase ==
  /\ phase \in DOMAIN After
  /\ at > N
  /\ IF signalled /\ phase \in {"load", "create", "init", "link"}
     THEN Exit
     ELSE Goes(After[phase], 1, "begin")
  /\ UNCHANGED <<signalled, obj, threads>>

Create ==
  /\ Walks("create", "begin")
  /\ \/ obj' = [obj EXCEPT ![at] = "made"]
     \/ at \in MayFail /\ UNCHANGED obj
  /\ Advance
  /\ UNCHANGED <<signalled, threads>>

\* loadConfig(), which creates the threads' objects, or link()
Prepare(p, state) ==
  /\ Walks(p, "begin")
  /\ \/ obj' = [obj EXCEPT ![at] = state] /\ Advance
     \/ at \in MayFail /\ UNCHANGED obj /\ Exit
  /\ UNCHANGED <<signalled, threads>>

InitModule == Prepare("init", "loaded")
LinkModule == Prepare("link", "linked")

\* start(): the first worker, then the second.  When that cannot be created
\* the first one goes on, unless it is a joiner's.
StartThread(w) ==
  /\ asked' = [asked EXCEPT ![at][w] = FALSE]
  /\ worker' = [worker EXCEPT ![at][w] = "waiting"]
  /\ UNCHANGED cancelled

StartWriter ==
  /\ Walks("start", "begin")
  /\ \/ /\ StartThread(Writer)
        /\ IF at \in Pairs THEN Goes("start", at, "second") ELSE Advance
     \/ at \in MayFail /\ UNCHANGED threads /\ Exit
  /\ UNCHANGED <<signalled, obj>>

StartReader ==
  /\ Walks("start", "second")
  /\ \/ StartThread(Reader) /\ Advance
     \/ /\ at \in MayFail
        /\ UNCHANGED threads
        /\ IF at \in Joiners THEN Goes("start", at, "undo") ELSE Exit
  /\ UNCHANGED <<signalled, obj>>

Ask(m, W) ==
  asked' = [asked EXCEPT ![m] = [w \in Workers |-> w \in W \/ @[w]]]

\* A joiner asks its workers and waits for them.
Undo ==
  /\ Walks("start", "undo")
  /\ Ask(at, Workers)
  /\ Goes("start", at, "undone")
  /\ UNCHANGED <<signalled, obj, worker, cancelled>>

Undone ==
  /\ Walks("start", "undone")
  /\ Quiet(at)
  /\ Exit
  /\ UNCHANGED <<signalled, obj, threads>>

Wait ==
  /\ phase = "wait"
  /\ signalled
  /\ Exit
  /\ UNCHANGED <<signalled, obj, threads>>

\* stopAll(); _ModuleBase::stop() does nothing if check() fails, as it does
\* without threads and in some modules whenever their device is not open.
StopModule ==
  /\ Walks("stop", "begin")
  /\ \/ /\ at \in Joiners /\ obj[at] # "made"
        /\ Ask(at, Workers)
        /\ Goes("stop", at, "join")
     \/ /\ at \notin Joiners /\ obj[at] # "made"
        /\ Ask(at, {Writer})
        /\ Advance
     \/ /\ at \notin Joiners \/ obj[at] = "made"
        /\ UNCHANGED asked
        /\ Advance
  /\ UNCHANGED <<signalled, obj, worker, cancelled>>

StopJoined ==
  /\ Walks("stop", "join")
  /\ Quiet(at)
  /\ Advance
  /\ UNCHANGED <<signalled, obj, threads>>

\* cleanAll(): the destructor of the derived class, which a late joiner's begins
\* with a join, ...
DeleteModule ==
  /\ Walks("clean", "begin")
  /\ IF at \in LateJoiners
     THEN Ask(at, {Writer}) /\ Goes("clean", at, "join") /\ UNCHANGED obj
     ELSE /\ obj' = [obj EXCEPT ![at] = "hollow"]
          /\ Goes("clean", at, "members gone")
          /\ UNCHANGED asked
  /\ UNCHANGED <<signalled, worker, cancelled>>

\* (Mutant: the destructor does not join.)
LateJoinedAtOnce ==
  /\ Walks("clean", "join")
  /\ obj' = [obj EXCEPT ![at] = "hollow"]
  /\ Goes("clean", at, "members gone")
  /\ UNCHANGED <<signalled, threads>>

LateJoined ==
  /\ Walks("clean", "join")
  /\ Quiet(at)
  /\ obj' = [obj EXCEPT ![at] = "hollow"]
  /\ Goes("clean", at, "members gone")
  /\ UNCHANGED <<signalled, threads>>

\* (Mutant: the destructor of _Thread only joins.)
DeleteThreadJoins(from, w, to) ==
  /\ Walks("clean", from)
  /\ Goes("clean", at, to)
  /\ UNCHANGED <<signalled, obj, threads>>

\* ... then DEL(m_pTr) in ~_ProtocolBase, and DEL(m_pT) in ~_ModuleBase.
DeleteThread(from, w, to) ==
  /\ Walks("clean", from)
  /\ Ask(at, {w})
  /\ cancelled' = [cancelled EXCEPT ![at][w] = TRUE]
  /\ Goes("clean", at, to)
  /\ UNCHANGED <<signalled, obj, worker>>

DeleteReader == at \in Pairs /\ DeleteThread("members gone", Reader, "reader")

DeleteWriter ==
  \/ at \notin Pairs /\ DeleteThread("members gone", Writer, "writer")
  \/ /\ at \in Modules /\ ~Alive(at, Reader)
     /\ DeleteThread("reader", Writer, "writer")

Deleted ==
  /\ Walks("clean", "writer")
  /\ ~Alive(at, Writer)
  /\ obj' = [obj EXCEPT ![at] = "deleted"]
  /\ Advance
  /\ UNCHANGED <<signalled, threads>>

MainStep ==
  \/ Skip \/ NextPhase \/ Create \/ InitModule \/ LinkModule
  \/ StartWriter \/ StartReader \/ Undo \/ Undone \/ Wait
  \/ StopModule \/ StopJoined \/ DeleteModule \/ LateJoined
  \/ DeleteReader \/ DeleteWriter \/ Deleted

WorkerStep(m, w) == BeginPass(m, w) \/ EndPass(m, w) \/ Cancelled(m, w)

Next ==
  \/ Signal \/ MainStep
  \/ \E m \in Modules : \E w \in Workers : WorkerStep(m, w)
  \/ \E m, u \in Modules : Wake(m, u)

Spec == Init /\ [][Next]_vars

\* The threads are scheduled; a pass ends and a wait is timed or signalled.
FairSpec ==
  /\ Spec
  /\ WF_vars(MainStep)
  /\ \A m \in Modules : \A w \in Workers : WF_vars(WorkerStep(m, w))

-----------------------------------------------------------------------------
(* Properties *)

TypeOK ==
  /\ signalled \in BOOLEAN
  /\ phase \in Phases
  /\ at \in 1 .. N + 1
  /\ step \in Steps
  /\ obj \in [Modules -> {"none", "made", "loaded", "linked", "hollow", "deleted"}]
  /\ worker \in [Modules -> [Workers -> {"none", "waiting", "pass", "ended"}]]
  /\ asked \in [Modules -> [Workers -> BOOLEAN]]
  /\ cancelled \in [Modules -> [Workers -> BOOLEAN]]

Called(m) == {u \in Modules : <<m, u>> \in Uses}

\* Which of the modules that m calls are there as long as its workers are: all
\* if its stop() joins them, else those that are deleted after it.
Lasting(m) == {u \in Called(m) : m \in Joiners \/ u > m}

\* A worker never calls a module that is not linked yet; nor one that is being
\* deleted, if that is to come after its own or if its stop() joins it.
CallsReachModules ==
  \A m \in Modules : \A w \in Workers : worker[m][w] = "pass" =>
    /\ \A u \in Called(m) : obj[u] \notin {"made", "loaded"}
    /\ \A u \in Lasting(m) : obj[u] \notin {"hollow", "deleted"}

\* The members of a module that joins outlive its workers, and no module at all
\* is freed, nor the data objects after them, while it has a worker.
WorkersEndFirst ==
  \A m \in Modules :
    /\ obj[m] = "hollow" /\ m \in Joiners \cup LateJoiners => Quiet(m)
    /\ obj[m] \in {"none", "deleted"} => Quiet(m)

\* After SIGINT, or when a module has failed, the program ends, although a reader
\* may take back that its writer was told to stop.
Ends == (signalled \/ phase = "stop") ~> (phase = "gone")
=============================================================================
