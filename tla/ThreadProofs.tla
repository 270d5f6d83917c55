---------------------------- MODULE ThreadProofs ----------------------------
(***************************************************************************)
(* Proofs about Thread: for any number of callers and of control calls, a  *)
(* worker never sleeps through a stop, and bStopped() tells the truth.     *)
(***************************************************************************)
EXTENDS Thread, FiniteSetTheorems, TLAPS

HoldingPCs == {"stopSet", "stopSignal", "stopUnlock", "joinSet", "joinSignal",
               "joinUnlock", "dtorSet", "dtorSignal", "dtorUnlock"}

\* Whoever is between a lock and an unlock of m_wakeupMutex holds it.
MutexInv ==
  /\ pc \in {"check", "wait", "unlock"} => mutex = Worker
  /\ \A c \in Callers : cpc[c] \in HoldingPCs => mutex = c

\* What sleepT has checked still holds when it starts to wait.
CheckedInv == pc = "wait" => setState # "stop"

IInv == TypeOK /\ MutexInv /\ CheckedInv /\ StopIsNotMissed

-----------------------------------------------------------------------------
\* TypeOK is inductive: every step assigns each variable a value of its type.
LEMMA TypeStep == TypeOK /\ [Next]_vars => TypeOK'
<1> SUFFICES ASSUME TypeOK, [Next]_vars PROVE TypeOK'
  OBVIOUS
<1> USE ActorAssumption, BoundAssumption
    DEF TypeOK, WorkerPCs, SetStates, ThreadStates, callerVars, history
<1>1. CASE UNCHANGED vars
  BY <1>1 DEF vars
<1>2. CASE WorkerStep
  <2>1. CASE LoopHead  BY <2>1 DEF LoopHead
  <2>2. CASE AutoFPS  BY <2>2 DEF AutoFPS
  <2>3. CASE PauseCheck  BY <2>3 DEF PauseCheck
  <2>4. CASE Work  BY <2>4 DEF Work
  <2>5. CASE SleepT  BY <2>5 DEF SleepT
  <2>6. CASE SleepLock  BY <2>6 DEF SleepLock
  <2>7. CASE SleepCheck  BY <2>7 DEF SleepCheck
  <2>8. CASE SleepWait  BY <2>8 DEF SleepWait
  <2>9. CASE SleepRelock  BY <2>9 DEF SleepRelock
  <2>10. CASE SleepUnlock  BY <2>10 DEF SleepUnlock
  <2> QED BY <1>2, <2>1, <2>2, <2>3, <2>4, <2>5, <2>6, <2>7, <2>8, <2>9, <2>10
          DEF WorkerStep
<1>3. CASE WaitEnds
  BY <1>3 DEF WaitEnds
<1>8. CASE SpuriousWakeup
  BY <1>8 DEF SpuriousWakeup
<1>4. CASE NewCall
  <2>1. CASE Start
    BY <2>1  DEF Go, Start, Call, SetTo, CallerPCs
  <2>2. ASSUME NEW c \in Callers, Run(c) PROVE TypeOK'
    BY <2>2  DEF Go, Run, Call, SetTo, CallerPCs
  <2>3. ASSUME NEW c \in Callers, CatchUpRead(c) PROVE TypeOK'
    BY <2>3  DEF Go, CatchUpRead, Call, CallerPCs
  <2>4. ASSUME NEW c \in Callers, Pause(c) PROVE TypeOK'
    BY <2>4  DEF Go, Pause, Call, SetTo, CallerPCs
  <2>5. ASSUME NEW c \in Callers, StopCall(c) PROVE TypeOK'
    BY <2>5  DEF Go, StopCall, Call, CallerPCs
  <2> QED BY <1>4, <2>1, <2>2, <2>3, <2>4, <2>5 DEF NewCall
<1>5. ASSUME NEW c \in Callers, CallerStep(c) PROVE TypeOK'
  <2>1. CASE RunSignal(c)
    BY <2>1  DEF Go, RunSignal, SignalWorker, CallerPCs
  <2>2. CASE CatchUpWrite(c)
    BY <2>2  DEF Go, CatchUpWrite, SetTo, CallerPCs
  <2>3. CASE StopLock(c)
    BY <2>3  DEF Go, StopLock, CallerPCs
  <2>4. CASE StopSet(c)
    BY <2>4  DEF Go, StopSet, SetTo, CallerPCs
  <2>5. CASE StopSignal(c)
    BY <2>5  DEF Go, StopSignal, SignalWorker, CallerPCs
  <2>6. CASE StopUnlock(c)
    BY <2>6  DEF Go, StopUnlock, CallerPCs
  <2> QED BY <1>5, <2>1, <2>2, <2>3, <2>4, <2>5, <2>6 DEF CallerStep
<1>6. CASE OwnerStep
  <2>1. CASE Create
    <3>1. /\ cpc' \in [Callers -> CallerPCs]
          /\ threadID' \in BOOLEAN
          /\ pc' \in WorkerPCs
      BY <2>1 DEF Create, Go, CallerPCs
    <3> QED BY <2>1, <3>1 DEF Create
  <2>2. CASE Created  BY <2>2  DEF Go, Created, CallerPCs
  <2>3. CASE Join  BY <2>3  DEF Go, Join, CallerPCs
  <2>4. CASE DtorJoin  BY <2>4  DEF Go, DtorJoin, CallerPCs
  <2> QED BY <1>6, <2>1, <2>2, <2>3, <2>4 DEF OwnerStep
<1>7. CASE Cancel
  BY <1>7 DEF Cancel
<1> QED BY <1>1, <1>2, <1>3, <1>4, <1>5, <1>6, <1>7, <1>8 DEF Next

LEMMA TypeInit == Init => TypeOK
<1> SUFFICES ASSUME Init PROVE TypeOK
  OBVIOUS
<1>1. cpc \in [Callers -> CallerPCs]
  BY DEF Init, CallerPCs
<1>2. reg \in [Callers -> Nat] /\ nOps \in [Callers -> Nat]
  BY DEF Init
<1> QED
  BY <1>1, <1>2 DEF Init, TypeOK, WorkerPCs, SetStates, ThreadStates

\* The variables of a worker and of its callers keep their types.
THEOREM TypeCorrect == Spec => []TypeOK
BY TypeInit, TypeStep, PTL DEF Spec

-----------------------------------------------------------------------------
\* Every step keeps the discipline of m_wakeupMutex.  With it, a worker that
\* waits has checked the request under the mutex that stop() holds from its
\* write to its signal.
LEMMA StopStep == IInv /\ [Next]_vars => (MutexInv /\ CheckedInv /\ StopIsNotMissed)'
<1> SUFFICES ASSUME IInv, [Next]_vars
             PROVE  (MutexInv /\ CheckedInv /\ StopIsNotMissed)'
  OBVIOUS
<1> USE ActorAssumption
    DEF IInv, TypeOK, MutexInv, CheckedInv, StopIsNotMissed, Signalling,
        HoldingPCs, callerVars, history
<1>1. CASE UNCHANGED vars
  BY <1>1 DEF vars
<1>2. CASE WorkerStep
  <2>1. CASE LoopHead  BY <2>1 DEF LoopHead
  <2>2. CASE AutoFPS  BY <2>2 DEF AutoFPS
  <2>3. CASE PauseCheck  BY <2>3 DEF PauseCheck
  <2>4. CASE Work  BY <2>4 DEF Work
  <2>5. CASE SleepT  BY <2>5 DEF SleepT
  <2>6. CASE SleepLock  BY <2>6 DEF SleepLock
  <2>7. CASE SleepCheck  BY <2>7 DEF SleepCheck
  <2>8. CASE SleepWait  BY <2>8 DEF SleepWait
  <2>9. CASE SleepRelock  BY <2>9 DEF SleepRelock
  <2>10. CASE SleepUnlock  BY <2>10 DEF SleepUnlock
  <2> QED BY <1>2, <2>1, <2>2, <2>3, <2>4, <2>5, <2>6, <2>7, <2>8, <2>9, <2>10
          DEF WorkerStep
<1>3. CASE WaitEnds
  BY <1>3 DEF WaitEnds
<1>8. CASE SpuriousWakeup
  BY <1>8 DEF SpuriousWakeup
<1>4. CASE NewCall
  <2>1. CASE Start
    BY <2>1 DEF Start, Call, Go, SetTo
  <2>2. ASSUME NEW c \in Callers, Run(c)
        PROVE  (MutexInv /\ CheckedInv /\ StopIsNotMissed)'
    BY <2>2 DEF Run, Call, Go, SetTo
  <2>3. ASSUME NEW c \in Callers, CatchUpRead(c)
        PROVE  (MutexInv /\ CheckedInv /\ StopIsNotMissed)'
    BY <2>3 DEF CatchUpRead, Call, Go
  <2>4. ASSUME NEW c \in Callers, Pause(c)
        PROVE  (MutexInv /\ CheckedInv /\ StopIsNotMissed)'
    BY <2>4 DEF Pause, Call, Go, SetTo
  <2>5. ASSUME NEW c \in Callers, StopCall(c)
        PROVE  (MutexInv /\ CheckedInv /\ StopIsNotMissed)'
    BY <2>5 DEF StopCall, Call, Go
  <2> QED BY <1>4, <2>1, <2>2, <2>3, <2>4, <2>5 DEF NewCall
<1>5. ASSUME NEW c \in Callers, CallerStep(c)
      PROVE  (MutexInv /\ CheckedInv /\ StopIsNotMissed)'
  <2>1. CASE RunSignal(c)
    BY <2>1 DEF RunSignal, SignalWorker, Go
  <2>2. CASE CatchUpWrite(c)
    BY <2>2 DEF CatchUpWrite, SetTo, Go
  <2>3. CASE StopLock(c)
    BY <2>3 DEF StopLock, Go
  <2>4. CASE StopSet(c)
    BY <2>4 DEF StopSet, SetTo, Go
  <2>5. CASE StopSignal(c)
    BY <2>5 DEF StopSignal, SignalWorker, Go
  <2>6. CASE StopUnlock(c)
    BY <2>6 DEF StopUnlock, Go
  <2> QED BY <1>5, <2>1, <2>2, <2>3, <2>4, <2>5, <2>6 DEF CallerStep
<1>6. CASE OwnerStep
  <2>1. CASE Create  BY <2>1 DEF Create, Go
  <2>2. CASE Created  BY <2>2 DEF Created, Go
  <2>3. CASE Join  BY <2>3 DEF Join, Go
  <2>4. CASE DtorJoin  BY <2>4 DEF DtorJoin, Go
  <2> QED BY <1>6, <2>1, <2>2, <2>3, <2>4 DEF OwnerStep
<1>7. CASE Cancel
  BY <1>7 DEF Cancel
<1> QED BY <1>1, <1>2, <1>3, <1>4, <1>5, <1>6, <1>7, <1>8 DEF Next

LEMMA StopInit == Init => MutexInv /\ CheckedInv /\ StopIsNotMissed
BY DEF Init, MutexInv, HoldingPCs, CheckedInv, StopIsNotMissed

\* A worker never sleeps through a stop: _Thread::stop against sleepT, for any
\* number of callers.
THEOREM StopIsNeverMissed == Spec => []StopIsNotMissed
<1>1. Init => IInv
  BY TypeInit, StopInit DEF IInv
<1>2. IInv /\ [Next]_vars => IInv'
  BY TypeStep, StopStep DEF IInv
<1>3. IInv => StopIsNotMissed
  BY DEF IInv
<1> QED BY <1>1, <1>2, <1>3, PTL DEF Spec

-----------------------------------------------------------------------------
\* StoppedMeansFinished is inductive with the types: the only write of
\* thread_stop to m_state follows pthread_join, and the only step that revives
\* a worker is pthread_create, in the middle of startThread.
LEMMA StoppedStep ==
  TypeOK /\ StoppedMeansFinished /\ [Next]_vars => StoppedMeansFinished'
<1> SUFFICES ASSUME TypeOK, StoppedMeansFinished, [Next]_vars
             PROVE  StoppedMeansFinished'
  OBVIOUS
<1> USE ActorAssumption DEF TypeOK, StoppedMeansFinished, Finished, callerVars, history
<1>1. CASE UNCHANGED vars
  BY <1>1 DEF vars
<1>2. CASE WorkerStep
  BY <1>2 DEF WorkerStep, LoopHead, AutoFPS, PauseCheck, Work, SleepT,
              SleepLock, SleepCheck, SleepWait, SleepRelock, SleepUnlock
<1>3. CASE WaitEnds
  BY <1>3 DEF WaitEnds
<1>8. CASE SpuriousWakeup
  BY <1>8 DEF SpuriousWakeup
<1>4. CASE NewCall
  BY <1>4 DEF NewCall, Start, Run, CatchUpRead, Pause, StopCall, Call, Go
<1>5. ASSUME NEW c \in Callers, CallerStep(c) PROVE StoppedMeansFinished'
  <2>1. CASE RunSignal(c) \/ StopSignal(c)
    BY <2>1 DEF RunSignal, StopSignal, SignalWorker, Go
  <2>2. CASE CatchUpWrite(c) \/ StopLock(c) \/ StopSet(c)
    BY <2>2 DEF CatchUpWrite, StopLock, StopSet, Go
  <2>3. CASE StopUnlock(c)
    BY <2>3 DEF StopUnlock, Go
  <2> QED BY <1>5, <2>1, <2>2, <2>3 DEF CallerStep
<1>6. CASE OwnerStep
  BY <1>6 DEF OwnerStep, Create, Created, Join, DtorJoin, Go
<1>7. CASE Cancel
  BY <1>7 DEF Cancel
<1> QED BY <1>1, <1>2, <1>3, <1>4, <1>5, <1>6, <1>7, <1>8 DEF Next

\* bStopped() is true only of a worker that does not execute.
THEOREM StoppedIsTrue == Spec => []StoppedMeansFinished
<1>1. Init => StoppedMeansFinished
  BY DEF Init, StoppedMeansFinished, Finished
<1>2. TypeOK /\ StoppedMeansFinished /\ [Next]_vars => StoppedMeansFinished'
  BY StoppedStep
<1> QED BY <1>1, <1>2, TypeCorrect, PTL DEF Spec

-----------------------------------------------------------------------------
\* The callers that have still to send a signal.
About == {c \in Callers : cpc[c] = "signal" \/ Signalling(c)}

\* The worker will make a pass without looking for a pause.
OnTheWay ==
  IF pc = "work" \/ (pc \in {"woken", "unlock"} /\ ~timed) THEN 1 ELSE 0

\* Whatever can still bring about a pass is paid for.
PauseInv ==
  setState = "pause" =>
    passes + Cardinality(About) + OnTheWay <= Cardinality(Callers) + spurious

LEMMA AboutIsFinite ==
  /\ IsFiniteSet(About)
  /\ Cardinality(About) \in Nat
  /\ Cardinality(Callers) \in Nat
  /\ Cardinality(About) <= Cardinality(Callers)
BY ActorAssumption, FS_Subset, FS_CardinalityType DEF About

\* A signal that has been sent is not sent again.
LEMMA AboutLoses ==
  ASSUME About' \subseteq About,
         NEW c \in About, c \notin About'
  PROVE  Cardinality(About') \in Nat /\ Cardinality(About') + 1 <= Cardinality(About)
<1>1. /\ IsFiniteSet(About \ {c})
      /\ Cardinality(About \ {c}) = Cardinality(About) - 1
  BY AboutIsFinite, FS_RemoveElement
<1>2. About' \subseteq About \ {c}
  OBVIOUS
<1> QED BY <1>1, <1>2, AboutIsFinite, FS_Subset, FS_CardinalityType

LEMMA AboutShrinks ==
  ASSUME About' \subseteq About
  PROVE  Cardinality(About') \in Nat /\ Cardinality(About') <= Cardinality(About)
BY AboutIsFinite, FS_Subset, FS_CardinalityType

\* What one of the three terms loses the others may gain.
LEMMA Budget ==
  ASSUME NEW p \in Nat, NEW a \in Nat, NEW w \in Nat,
         NEW q \in Nat, NEW b \in Nat, NEW v \in Nat, NEW n \in Nat,
         q + b + v <= p + a + w,
         p + a + w <= n
  PROVE  q + b + v <= n
OBVIOUS

\* Every step keeps PauseInv: a pass uses up what was on the way, and a wake-up
\* without a deadline takes a signal or is spurious.
LEMMA PauseStep == TypeOK /\ PauseInv /\ [Next]_vars => PauseInv'
<1> SUFFICES ASSUME TypeOK, PauseInv, [Next]_vars, setState' = "pause"
             PROVE  passes' + Cardinality(About') + OnTheWay'
                      <= Cardinality(Callers) + spurious'
  BY DEF PauseInv
<1> DEFINE n == Cardinality(Callers)
           a == Cardinality(About)
           b == Cardinality(About')
           w == OnTheWay
           v == OnTheWay'
<1>a. /\ n \in Nat /\ a \in Nat /\ a <= n
      /\ passes \in Nat /\ spurious \in Nat
      /\ w \in 0 .. 1 /\ v \in 0 .. 1
      /\ n + spurious \in Nat
      /\ setState = "pause" => passes + a + w <= n + spurious
  BY AboutIsFinite DEF TypeOK, OnTheWay, PauseInv
<1>b. ASSUME UNCHANGED cpc PROVE b = a
  BY <1>b DEF About, Signalling
<1>1. CASE UNCHANGED vars
  <2>1. UNCHANGED cpc /\ UNCHANGED <<setState, passes, spurious>> /\ v = w
    BY <1>1 DEF vars, OnTheWay
  <2> HIDE DEF n, a, b, w, v
  <2> QED BY <2>1, <1>a, <1>b DEF n, a, b, w, v
<1>2. CASE WorkerStep
  <2>1. UNCHANGED cpc /\ UNCHANGED <<setState, spurious>>
    BY <1>2 DEF WorkerStep, LoopHead, AutoFPS, PauseCheck, Work, SleepT, SleepLock,
                SleepCheck, SleepWait, SleepRelock, SleepUnlock, callerVars, history
  <2> DEFINE p == passes'
  <2>2. p + v <= passes + w /\ p \in Nat
    <3> USE <1>a, <2>1 DEF OnTheWay, history
    <3>1. CASE LoopHead \/ AutoFPS \/ PauseCheck
      BY <3>1 DEF LoopHead, AutoFPS, PauseCheck
    <3>2. CASE Work
      BY <3>2 DEF Work
    <3>3. CASE SleepT \/ SleepLock \/ SleepCheck \/ SleepWait
      BY <3>3 DEF SleepT, SleepLock, SleepCheck, SleepWait
    <3>4. CASE SleepRelock \/ SleepUnlock
      BY <3>4 DEF SleepRelock, SleepUnlock
    <3> QED BY <1>2, <3>1, <3>2, <3>3, <3>4 DEF WorkerStep
  <2> HIDE DEF n, a, b, w, v, p
  <2>3. p + a + v <= passes + a + w
    BY <2>2, <1>a
  <2>4. p + a + v <= n + spurious
    BY <2>1, <2>2, <2>3, <1>a, Budget
  <2> QED BY <2>1, <2>4, <1>b DEF n, a, b, w, v, p
<1>3. CASE WaitEnds
  <2>1. UNCHANGED cpc /\ UNCHANGED <<setState, passes, spurious>> /\ v = 0
    BY <1>3 DEF WaitEnds, OnTheWay, callerVars, history
  <2> HIDE DEF n, a, b, w, v
  <2> QED BY <2>1, <1>a, <1>b DEF n, a, b, w, v
<1>4. CASE SpuriousWakeup
  <2>1. /\ UNCHANGED cpc /\ UNCHANGED <<setState, passes>>
        /\ spurious' = spurious + 1
        /\ w = 0
    BY <1>4 DEF SpuriousWakeup, OnTheWay, callerVars
  <2> HIDE DEF n, a, b, w, v
  <2> QED BY <2>1, <1>a, <1>b DEF n, a, b, w, v
<1>5. ASSUME NEW c \in Callers, Pause(c) PROVE b + v <= n /\ passes' = 0 /\ spurious' = 0
  <2>1. c \notin About /\ UNCHANGED About /\ passes' = 0 /\ spurious' = 0
    BY <1>5 DEF Pause, Call, Go, SetTo, About, Signalling, TypeOK
  <2>2. About \subseteq Callers \ {c}
    BY <2>1 DEF About
  <2>3. /\ IsFiniteSet(Callers \ {c})
        /\ Cardinality(Callers \ {c}) = n - 1
    BY ActorAssumption, FS_RemoveElement
  <2>4. a <= n - 1
    BY <2>2, <2>3, FS_Subset
  <2> HIDE DEF n, a, w, v
  <2> QED BY <2>1, <2>4, <1>a DEF b, a
<1>6. CASE \/ Start \/ \E c \in Callers : Run(c) \/ CatchUpWrite(c) \/ StopSet(c)
  BY <1>6 DEF Start, Run, CatchUpWrite, StopSet, SetTo
<1>7. ASSUME NEW c \in Callers, RunSignal(c) \/ StopSignal(c)
      PROVE  passes' + b + v <= n + spurious'
  <2>1. About' \subseteq About /\ c \in About /\ c \notin About'
    BY <1>7 DEF RunSignal, StopSignal, Go, About, Signalling, TypeOK
  <2>2. b \in Nat /\ b + 1 <= a
    BY <2>1, AboutLoses
  <2>3. UNCHANGED <<setState, passes, spurious>>
    BY <1>7 DEF RunSignal, StopSignal, history
  <2> HIDE DEF n, a, b, w, v
  <2>4. v <= w + 1
    BY <1>a
  <2>5. passes' + b + v <= passes + a + w
    BY <2>2, <2>3, <2>4, <1>a
  <2> QED BY <2>2, <2>3, <2>5, <1>a, Budget
<1>8. ASSUME \/ \E c \in Callers : \/ CatchUpRead(c) \/ StopCall(c)
                                   \/ StopLock(c) \/ StopUnlock(c)
             \/ OwnerStep \/ Cancel
      PROVE  passes' + b + v <= n + spurious'
  <2>1. UNCHANGED <<setState, passes, spurious>>
    BY <1>8 DEF CatchUpRead, StopCall, StopLock, StopUnlock, OwnerStep, Create,
                Created, Join, DtorJoin, Cancel, history
  <2>2. About' \subseteq About
    BY <1>8 DEF CatchUpRead, StopCall, Call, StopLock, StopUnlock, OwnerStep, Create,
                Created, Join, DtorJoin, Cancel, Go, About, Signalling, TypeOK, callerVars
  <2>3. v <= w
    BY <1>8, <1>a DEF CatchUpRead, StopCall, StopLock, StopUnlock, OwnerStep, Create,
                Created, Join, DtorJoin, Cancel, OnTheWay
  <2>4. b \in Nat /\ b <= a
    BY <2>2, AboutShrinks
  <2> HIDE DEF n, a, b, w, v
  <2>5. passes' + b + v <= passes + a + w
    BY <2>1, <2>3, <2>4, <1>a
  <2> QED BY <2>1, <2>4, <2>5, <1>a, Budget
<1>9. CASE \E c \in Callers : Pause(c)
  <2>1. b \in Nat
    BY AboutIsFinite, <1>9, FS_Subset, FS_CardinalityType DEF Pause, Call, Go, About, Signalling, TypeOK
  <2> HIDE DEF n, a, b, w, v
  <2>2. b + v <= n /\ passes' = 0 /\ spurious' = 0
    BY <1>5, <1>9
  <2>3. 0 + b + v <= n + 0
    BY <2>1, <2>2, <1>a
  <2> QED BY <2>2, <2>3 DEF n, b, v
<1> QED
  BY <1>1, <1>2, <1>3, <1>4, <1>6, <1>7, <1>8, <1>9
  DEF Next, NewCall, CallerStep

\* A pause takes hold: for any number of callers the passes of a worker after
\* pause() are bounded by the signals on their way and the spurious wake-ups.
THEOREM PauseAlwaysTakesEffect == Spec => []PauseTakesEffect
<1>1. Init => PauseInv
  BY DEF Init, PauseInv
<1>2. TypeOK /\ PauseInv => PauseTakesEffect
  BY AboutIsFinite DEF PauseInv, PauseTakesEffect, TypeOK, OnTheWay
<1> QED BY <1>1, <1>2, PauseStep, TypeCorrect, PTL DEF Spec
=============================================================================
