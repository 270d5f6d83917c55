------------------------------- MODULE Thread -------------------------------
(***************************************************************************)
(* The worker thread of every OpenKAI module (src/Base/_Thread.cpp) and    *)
(* the threads that control it through _ModuleBase: start, pause, resume,  *)
(* catchUp, stop, join and the destructor.                                 *)
(*                                                                         *)
(* One worker, one wake-up mutex and one wake-up condition variable.  Each *)
(* access of the worker or of a caller to m_setState, m_state, the mutex   *)
(* or the condition variable is a step of its own, so that they interleave *)
(* as the atomics and the pthread calls do.  Time is abstracted: a paced   *)
(* loop may or may not be early, and a timed wait may end at any moment.   *)
(***************************************************************************)
EXTENDS Naturals, FiniteSets

CONSTANTS
  Callers,            \* threads that call pause, run, catchUp and stop
  Owner,              \* the caller that also starts, joins and destroys
  Worker,             \* the worker, as a holder of the mutex
  NoOne,              \* the mutex is free
  CatchUpCallers,     \* the callers that use catchUp (parents of the module)
  PauseCallers,       \* the callers that use pause
  MaxOps,             \* bound: control calls made by each caller
  PassCap,            \* bound: the pass counter saturates here
  MaxSpurious         \* bound: returns of pthread_cond_wait without a signal,
                      \* since setState was last written

ASSUME ActorAssumption ==
  /\ IsFiniteSet(Callers)
  /\ Owner \in Callers
  /\ Worker \notin Callers
  /\ NoOne \notin Callers \cup {Worker}
  /\ CatchUpCallers \subseteq Callers
  /\ PauseCallers \subseteq Callers

ASSUME BoundAssumption ==
  /\ MaxOps \in Nat
  /\ PassCap \in Nat
  /\ MaxSpurious \in Nat

VARIABLES
  threadID,    \* m_threadID # 0
  setState,    \* m_setState, the state requested by the callers
  state,       \* m_state, the state reported to them
  mutex,       \* who holds m_wakeupMutex
  pc,          \* where the worker is
  timed,       \* the sleepT in progress has a deadline
  iUpdate,     \* m_iUpdate, incremented by catchUp without a lock
  iCatchUp,    \* m_iCatchUp
  cpc,         \* where each caller is
  reg,         \* the value of m_iUpdate each caller has read
  nOps,        \* control calls made by each caller
  passes,      \* history: passes begun since setState was last written,
  spurious     \* and spurious wake-ups

callerVars == <<cpc, reg, nOps>>
history == <<passes, spurious>>
vars == <<threadID, setState, state, mutex, pc, timed, iUpdate, iCatchUp,
          cpc, reg, nOps, passes, spurious>>

ThreadStates == {"stop", "run", "sleep", "pause"}
SetStates == {"stop", "run", "pause"}
WorkerPCs == {"none", "loop", "autoFPS", "sleepT", "lock", "check", "wait",
              "waiting", "woken", "unlock", "pauseCheck", "work",
              "exited", "cancelled"}
CallerPCs == {"idle", "create", "created", "catchUp", "signal", "stopLock",
              "stopSet", "stopSignal", "stopUnlock", "joinLock", "joinSet",
              "joinSignal", "joinUnlock", "join", "dtorLock", "dtorSet",
              "dtorSignal", "dtorUnlock", "dtorJoin", "destroyed"}

\* A caller moves from one step to another.
Go(c, from, to) == cpc[c] = from /\ cpc' = [cpc EXCEPT ![c] = to]

Finished == pc \in {"none", "exited", "cancelled"}
Alive == ~Finished

Init ==
  /\ threadID = FALSE
  /\ setState = "stop"
  /\ state = "stop"
  /\ mutex = NoOne
  /\ pc = "none"
  /\ timed = FALSE
  /\ iUpdate = 0
  /\ iCatchUp = 0
  /\ cpc = [c \in Callers |-> "idle"]
  /\ reg = [c \in Callers |-> 0]
  /\ nOps = [c \in Callers |-> 0]
  /\ passes = 0
  /\ spurious = 0

-----------------------------------------------------------------------------
(* Mutants: plausible mistakes in _Thread.cpp that the runs must catch *)

\* sleepT writes thread_sleep to m_setState, where m_state is meant.
SleepTInRequest ==
  /\ pc = "sleepT"
  /\ setState' = "sleep"
  /\ pc' = "lock"
  /\ UNCHANGED <<threadID, state, mutex, timed, iUpdate, iCatchUp,
                 callerVars, history>>

\* sleepT tests the request before it locks the mutex.
SleepCheckUnlocked ==
  /\ pc = "check"
  /\ pc' = "wait"
  /\ UNCHANGED <<threadID, setState, state, mutex, timed, iUpdate, iCatchUp,
                 callerVars, history>>

\* join() reports the stop without waiting for the worker.
JoinEarly ==
  /\ Go(Owner, "join", "idle")
  /\ threadID' = FALSE
  /\ state' = "stop"
  /\ UNCHANGED <<setState, mutex, pc, timed, iUpdate, iCatchUp, reg, nOps,
                 history>>

\* autoFPS tests for a pause only before its timed sleep, not after it.
SleepUnlockSkipsPause ==
  /\ pc = "unlock"
  /\ mutex' = NoOne
  /\ state' = "run"
  /\ pc' = "work"
  /\ timed' = FALSE
  /\ UNCHANGED <<threadID, setState, iUpdate, iCatchUp, callerVars, history>>

\* stop() writes the request and wakes nobody.
StopSignalForgotten(c) ==
  /\ \/ Go(c, "stopSignal", "stopUnlock")
     \/ Go(c, "joinSignal", "joinUnlock")
     \/ Go(c, "dtorSignal", "dtorUnlock")
  /\ UNCHANGED <<threadID, setState, state, mutex, pc, timed, iUpdate,
                 iCatchUp, reg, nOps, history>>

-----------------------------------------------------------------------------
(* The worker *)

\* while (m_pT->bRun()) at the head of every update loop.
LoopHead ==
  /\ pc = "loop"
  /\ pc' = IF setState = "stop" THEN "exited" ELSE "autoFPS"
  /\ UNCHANGED <<threadID, setState, state, mutex, timed, iUpdate, iCatchUp,
                 callerVars, history>>

\* autoFPS up to its timed sleep: pending updates of a parent skip the sleep,
\* as does a loop that is late.
AutoFPS ==
  /\ pc = "autoFPS"
  /\ \/ /\ iCatchUp < iUpdate
        /\ iCatchUp' = iUpdate
        /\ pc' = "pauseCheck"
        /\ UNCHANGED timed
     \/ /\ iCatchUp >= iUpdate
        /\ UNCHANGED iCatchUp
        /\ \/ pc' = "sleepT" /\ timed' = TRUE
           \/ pc' = "pauseCheck" /\ UNCHANGED timed
  /\ UNCHANGED <<threadID, setState, state, mutex, iUpdate, callerVars, history>>

\* autoFPS after its timed sleep: a requested pause sleeps until woken.
PauseCheck ==
  /\ pc = "pauseCheck"
  /\ \/ /\ setState = "pause"
        /\ pc' = "sleepT"
     \/ /\ setState # "pause"
        /\ pc' = "work"
  /\ UNCHANGED <<threadID, setState, state, mutex, timed, iUpdate, iCatchUp,
                 callerVars, history>>

\* One pass of the module's own work.  Modules that use the ON_PAUSE macro
\* report a pause requested meanwhile.
Work ==
  /\ pc = "work"
  /\ passes' = IF passes < PassCap THEN passes + 1 ELSE passes
  /\ \/ state' = state
     \/ /\ setState = "pause"
        /\ state' = "pause"
  /\ pc' = "loop"
  /\ UNCHANGED <<threadID, setState, mutex, timed, iUpdate, iCatchUp, callerVars,
                 spurious>>

SleepT ==
  /\ pc = "sleepT"
  /\ state' = "sleep"
  /\ pc' = "lock"
  /\ UNCHANGED <<threadID, setState, mutex, timed, iUpdate, iCatchUp,
                 callerVars, history>>

SleepLock ==
  /\ pc = "lock"
  /\ mutex = NoOne
  /\ mutex' = Worker
  /\ pc' = "check"
  /\ UNCHANGED <<threadID, setState, state, timed, iUpdate, iCatchUp,
                 callerVars, history>>

SleepCheck ==
  /\ pc = "check"
  /\ pc' = IF setState # "stop" THEN "wait" ELSE "unlock"
  /\ UNCHANGED <<threadID, setState, state, mutex, timed, iUpdate, iCatchUp,
                 callerVars, history>>

\* pthread_cond_wait releases the mutex and blocks in one step.
SleepWait ==
  /\ pc = "wait"
  /\ pc' = "waiting"
  /\ mutex' = NoOne
  /\ UNCHANGED <<threadID, setState, state, timed, iUpdate, iCatchUp,
                 callerVars, history>>

\* The deadline of a timed wait.
WaitEnds ==
  /\ pc = "waiting"
  /\ timed
  /\ pc' = "woken"
  /\ UNCHANGED <<threadID, setState, state, mutex, timed, iUpdate, iCatchUp,
                 callerVars, history>>

\* A wait without one may return though nobody has signalled, and sleepT has no
\* loop around it.  (In a timed wait that is as if the deadline had passed.)
SpuriousWakeup ==
  /\ pc = "waiting"
  /\ ~timed
  /\ spurious < MaxSpurious
  /\ spurious' = spurious + 1
  /\ pc' = "woken"
  /\ UNCHANGED <<threadID, setState, state, mutex, timed, iUpdate, iCatchUp,
                 callerVars, passes>>

SleepRelock ==
  /\ pc = "woken"
  /\ mutex = NoOne
  /\ mutex' = Worker
  /\ pc' = "unlock"
  /\ UNCHANGED <<threadID, setState, state, timed, iUpdate, iCatchUp,
                 callerVars, history>>

\* Unlock and m_state = thread_run; the sleepT returns to its caller.
SleepUnlock ==
  /\ pc = "unlock"
  /\ mutex' = NoOne
  /\ state' = "run"
  /\ pc' = IF timed THEN "pauseCheck" ELSE "work"
  /\ timed' = FALSE
  /\ UNCHANGED <<threadID, setState, iUpdate, iCatchUp, callerVars, history>>

WorkerStep ==
  \/ LoopHead \/ AutoFPS \/ PauseCheck \/ Work
  \/ SleepT \/ SleepLock \/ SleepCheck \/ SleepWait \/ SleepRelock \/ SleepUnlock

-----------------------------------------------------------------------------
(* The callers *)

\* A caller begins a control call.  No call reaches a destroyed object.
Call(c, to) ==
  /\ cpc[Owner] \notin {"dtorLock", "dtorSet", "dtorSignal", "dtorUnlock",
                        "dtorJoin", "destroyed"}
  /\ Go(c, "idle", to)
  /\ nOps[c] < MaxOps
  /\ nOps' = [nOps EXCEPT ![c] = @ + 1]

SetTo(s) == setState' = s /\ passes' = 0 /\ spurious' = 0

\* pthread_cond_signal: the worker is the only waiter.
SignalWorker == pc' = IF pc = "waiting" THEN "woken" ELSE pc

\* startThread: the request is written before the thread exists.
Start ==
  /\ ~threadID
  /\ Call(Owner, "create")
  /\ SetTo("run")
  /\ UNCHANGED <<threadID, state, mutex, pc, timed, iUpdate, iCatchUp, reg>>

\* pthread_create, which may fail: the request then stays at run.
Create ==
  /\ \/ /\ Go(Owner, "create", "created")
        /\ threadID' = TRUE
        /\ pc' = "loop"
     \/ /\ Go(Owner, "create", "idle")
        /\ UNCHANGED <<threadID, pc>>
  /\ UNCHANGED <<setState, state, mutex, timed, iUpdate, iCatchUp, reg, nOps,
                 history>>

\* m_state = thread_run by the starter, while the worker may already run.
Created ==
  /\ Go(Owner, "created", "idle")
  /\ state' = "run"
  /\ UNCHANGED <<threadID, setState, mutex, pc, timed, iUpdate, iCatchUp, reg,
                 nOps, history>>

\* run(): the request is written and signalled without the mutex.
Run(c) ==
  /\ Call(c, "signal")
  /\ SetTo("run")
  /\ UNCHANGED <<threadID, state, mutex, pc, timed, iUpdate, iCatchUp, reg>>

RunSignal(c) ==
  /\ Go(c, "signal", "idle")
  /\ SignalWorker
  /\ UNCHANGED <<threadID, setState, state, mutex, timed, iUpdate, iCatchUp,
                 reg, nOps, history>>

\* catchUp: m_iUpdate++ is a read and a write, then run().
CatchUpRead(c) ==
  /\ c \in CatchUpCallers
  /\ Call(c, "catchUp")
  /\ reg' = [reg EXCEPT ![c] = iUpdate]
  /\ UNCHANGED <<threadID, setState, state, mutex, pc, timed, iUpdate,
                 iCatchUp, history>>

CatchUpWrite(c) ==
  /\ Go(c, "catchUp", "signal")
  /\ iUpdate' = reg[c] + 1
  /\ SetTo("run")
  /\ UNCHANGED <<threadID, state, mutex, pc, timed, iCatchUp, reg, nOps>>

Pause(c) ==
  /\ c \in PauseCallers
  /\ Call(c, "idle")
  /\ SetTo("pause")
  /\ UNCHANGED <<threadID, state, mutex, pc, timed, iUpdate, iCatchUp, reg>>

\* stop(), alone, from join() and from the destructor.
StopCall(c) ==
  /\ \/ Call(c, "stopLock")
     \/ c = Owner /\ Call(c, "joinLock")
     \/ c = Owner /\ threadID /\ Call(c, "dtorLock")
  /\ UNCHANGED <<threadID, setState, state, mutex, pc, timed, iUpdate,
                 iCatchUp, reg, history>>

StopLock(c) ==
  /\ mutex = NoOne
  /\ mutex' = c
  /\ \/ Go(c, "stopLock", "stopSet")
     \/ Go(c, "joinLock", "joinSet")
     \/ Go(c, "dtorLock", "dtorSet")
  /\ UNCHANGED <<threadID, setState, state, pc, timed, iUpdate, iCatchUp, reg,
                 nOps, history>>

StopSet(c) ==
  /\ SetTo("stop")
  /\ \/ Go(c, "stopSet", "stopSignal")
     \/ Go(c, "joinSet", "joinSignal")
     \/ Go(c, "dtorSet", "dtorSignal")
  /\ UNCHANGED <<threadID, state, mutex, pc, timed, iUpdate, iCatchUp, reg,
                 nOps>>

StopSignal(c) ==
  /\ SignalWorker
  /\ \/ Go(c, "stopSignal", "stopUnlock")
     \/ Go(c, "joinSignal", "joinUnlock")
     \/ Go(c, "dtorSignal", "dtorUnlock")
  /\ UNCHANGED <<threadID, setState, state, mutex, timed, iUpdate, iCatchUp,
                 reg, nOps, history>>

StopUnlock(c) ==
  /\ mutex' = NoOne
  /\ \/ Go(c, "stopUnlock", "idle")
     \/ threadID /\ Go(c, "joinUnlock", "join")
     \/ ~threadID /\ Go(c, "joinUnlock", "idle")
     \/ Go(c, "dtorUnlock", "dtorJoin")
  /\ UNCHANGED <<threadID, setState, state, pc, timed, iUpdate, iCatchUp, reg,
                 nOps, history>>

\* pthread_join returns, then m_threadID = 0 and m_state = thread_stop.
Join ==
  /\ Finished
  /\ Go(Owner, "join", "idle")
  /\ threadID' = FALSE
  /\ state' = "stop"
  /\ UNCHANGED <<setState, mutex, pc, timed, iUpdate, iCatchUp, reg, nOps,
                 history>>

\* The destructor cancels the worker: it ends at its next cancellation point,
\* in its own work or in the wait, which takes the mutex again first.
Cancel ==
  /\ cpc[Owner] = "dtorJoin"
  /\ \/ pc = "work" /\ UNCHANGED mutex
     \/ pc \in {"waiting", "woken"} /\ mutex = NoOne /\ mutex' = Worker
  /\ pc' = "cancelled"
  /\ UNCHANGED <<threadID, setState, state, timed, iUpdate, iCatchUp,
                 callerVars, history>>

DtorJoin ==
  /\ Finished
  /\ Go(Owner, "dtorJoin", "destroyed")
  /\ threadID' = FALSE
  /\ UNCHANGED <<setState, state, mutex, pc, timed, iUpdate, iCatchUp, reg,
                 nOps, history>>

CallerStep(c) ==
  \/ RunSignal(c) \/ CatchUpWrite(c)
  \/ StopLock(c) \/ StopSet(c) \/ StopSignal(c) \/ StopUnlock(c)

OwnerStep == Create \/ Created \/ Join \/ DtorJoin

NewCall ==
  \/ Start
  \/ \E c \in Callers : Run(c) \/ CatchUpRead(c) \/ Pause(c) \/ StopCall(c)

Next ==
  \/ WorkerStep
  \/ WaitEnds
  \/ SpuriousWakeup
  \/ NewCall
  \/ \E c \in Callers : CallerStep(c)
  \/ OwnerStep
  \/ Cancel

\* Every thread is scheduled, a call once begun runs on and a deadline passes.
\* Calls need not be made, and neither a spurious wake-up nor a cancellation
\* is counted on.
Fairness ==
  /\ SF_vars(WorkerStep)
  /\ WF_vars(WaitEnds)
  /\ \A c \in Callers : SF_vars(CallerStep(c))
  /\ WF_vars(OwnerStep)

Spec == Init /\ [][Next]_vars
FairSpec == Spec /\ Fairness

-----------------------------------------------------------------------------
(* Properties *)

\* Every variable holds a value its C++ type can hold, and every program
\* counter names a step of _Thread.cpp.
TypeOK ==
  /\ threadID \in BOOLEAN
  /\ setState \in SetStates
  /\ state \in ThreadStates
  /\ mutex \in Callers \cup {Worker, NoOne}
  /\ pc \in WorkerPCs
  /\ timed \in BOOLEAN
  /\ iUpdate \in Nat
  /\ iCatchUp \in Nat
  /\ cpc \in [Callers -> CallerPCs]
  /\ reg \in [Callers -> Nat]
  /\ nOps \in [Callers -> Nat]
  /\ passes \in Nat
  /\ spurious \in Nat

Signalling(c) == cpc[c] \in {"stopSignal", "joinSignal", "dtorSignal"}

\* A worker never blocks on a stop it has missed: when stop is requested and
\* the worker is in the wait, the caller that requested it still holds the
\* mutex and has its signal to send.  sleepT checks the request and starts to
\* wait under the mutex that stop() holds from its write to its signal.
StopIsNotMissed ==
  setState = "stop" /\ pc = "waiting" =>
    \E c \in Callers : Signalling(c) /\ mutex = c

\* bStopped() tells the truth: m_state is thread_stop only while no worker
\* executes, but for the moment in startThread between pthread_create and
\* m_state = thread_run.
StoppedMeansFinished ==
  state = "stop" => Finished \/ cpc[Owner] = "created"

\* A pause takes hold: once pause() has been called a paced worker makes at
\* most the pass it had begun, one more for each other caller whose signal was
\* still on its way and one for each spurious wake-up, however many sleeps it
\* was in the middle of.
PauseTakesEffect ==
  setState = "pause" => passes <= Cardinality(Callers) + spurious

\* A stop that nobody takes back ends the worker: it leaves its sleep, timed or
\* not, finishes its pass and returns, so that join() returns.
StopTakesEffect == []([](setState = "stop") => <>Finished)
=============================================================================
