---------------------------- MODULE SteadyProofs ----------------------------
(***************************************************************************)
(* Theorems about the thread pool while the application does not stop it   *)
(* (SteadySpec), for any number of WorkThreads, tasks and threads allowed: *)
(* no wakeup is lost, a thread at work is in runing_threads_, trimming     *)
(* interrupts nobody and nothing overwrites an EXIT.                       *)
(***************************************************************************)
EXTENDS ThreadPoolProofs

USE DEF workerVars, mapVars, taskVars, poolVars, callVars, loopVars, actorVars
USE DEF ThreadState, WorkerPC, ManagerPC, StopperPC, CallPC, ReturnPC, ActorPC

\* What the invariant says of worker w depends on these values only.
SameFor(w) ==
  /\ wpc'[w] = wpc[w] /\ state'[w] = state[w] /\ object'[w] = object[w]
  /\ w \in idle_threads' <=> w \in idle_threads
  /\ w \in runing_threads' <=> w \in runing_threads

SameManager == UNCHANGED <<pc, target, old_state, ret, iter>>

LEMMA LiveInvFrame ==
  ASSUME NEW w \in Workers, LiveInv(w), SameFor(w), SameManager
  PROVE  LiveInv(w)'
BY DEF SameFor, SameManager, LiveInv, StateInv, PlaceInv, CalleeInv, WakeInv, Quiet,
       Resuming, Trimming

\* A step of a worker touches nothing of another worker and nothing of the manager.
LEMMA WorkerFrame ==
  ASSUME TypeOK, NEW w \in Workers, WorkerStep(w)
  PROVE  SameManager /\ \A v \in Workers \ {w} : SameFor(v)
<1> USE DEF SameManager, SameFor, At, Step, Store
<1>1. /\ wpc \in [Workers -> WorkerPC]
      /\ state \in [Workers -> ThreadState]
      /\ object \in [Workers -> {"none", "live", "deleted"}]
  BY DEF TypeOK
<1>2. CASE RunLoop(w) BY <1>1, <1>2 DEF RunLoop
<1>3. CASE LockMutex(w) BY <1>1, <1>3 DEF LockMutex
<1>4. CASE CheckState(w) BY <1>1, <1>4 DEF CheckState
<1>5. CASE Dispatch(w) BY <1>1, <1>5 DEF Dispatch
<1>6. CASE GetTask(w) BY <1>1, <1>6 DEF GetTask
<1>7. CASE GetNothing(w) BY <1>1, <1>7 DEF GetNothing
<1>8. CASE FinishTask(w) BY <1>1, <1>8 DEF FinishTask
<1>9. CASE PauseTest(w) BY <1>1, <1>9 DEF PauseTest
<1>10. CASE PauseSet(w) BY <1>1, <1>10 DEF PauseSet
<1>11. CASE MoveToIdle(w) BY <1>1, <1>11 DEF MoveToIdle
<1>12. CASE MoveToIdleRefused(w) BY <1>1, <1>12 DEF MoveToIdleRefused
<1>13. CASE MoveToIdleErase(w) BY <1>1, <1>13 DEF MoveToIdleErase
<1>14. CASE RemoveThread(w) BY <1>1, <1>14 DEF RemoveThread
<1>15. CASE RemoveThreadErase(w) BY <1>1, <1>15 DEF RemoveThreadErase
<1> QED BY <1>2, <1>3, <1>4, <1>5, <1>6, <1>7, <1>8, <1>9, <1>10, <1>11, <1>12,
           <1>13, <1>14, <1>15 DEF WorkerStep

\* A worker's own step keeps the invariant.
LEMMA SteadyWorker ==
  ASSUME TypeOK, MapInv, SteadyInv, NEW w \in Workers, WorkerStep(w)
  PROVE  SteadyInv'
<1>1. SameManager /\ \A v \in Workers \ {w} : SameFor(v)
  BY WorkerFrame
<1>2. ManagerInv'
  BY <1>1 DEF SteadyInv, ManagerInv, SameManager
<1>3. \A v \in Workers \ {w} : LiveInv(v)'
  BY <1>1, LiveInvFrame DEF SteadyInv
<1>4. ASSUME object'[w] = "live" PROVE LiveInv(w)'
  <2>1. /\ wpc \in [Workers -> WorkerPC]
        /\ state \in [Workers -> ThreadState]
        /\ object \in [Workers -> {"none", "live", "deleted"}]
    BY DEF TypeOK
  <2>2. UNCHANGED <<pc, target, old_state, ret, iter>>
    BY <1>1 DEF SameManager
  <2>3. LiveInv(w) /\ ManagerInv
    BY DEF SteadyInv
  <2> USE <2>1, <2>2, <2>3, <1>4
      DEF LiveInv, StateInv, PlaceInv, CalleeInv, WakeInv, Quiet, Resuming, Trimming, At, Step
  <2>4. CASE RunLoop(w) BY <2>4 DEF RunLoop
  <2>5. CASE LockMutex(w) BY <2>5 DEF LockMutex
  <2>6. CASE CheckState(w) BY <2>6 DEF CheckState
  <2>7. CASE Dispatch(w) BY <2>7 DEF Dispatch
  <2>8. CASE GetTask(w) BY <2>8 DEF GetTask
  <2>9. CASE GetNothing(w) BY <2>9 DEF GetNothing
  <2>10. CASE FinishTask(w) BY <2>10 DEF FinishTask
  <2>11. CASE PauseTest(w) BY <2>11 DEF PauseTest
  <2>12. CASE PauseSet(w) BY <2>12 DEF PauseSet, Store
  <2>13. CASE MoveToIdle(w) BY <2>13 DEF MoveToIdle
  <2>14. CASE MoveToIdleRefused(w) BY <2>14 DEF MoveToIdleRefused
  <2>15. CASE MoveToIdleErase(w)
    <3>1. w \in idle_threads /\ thread_mutex = w /\ pc[Manager] # "to_running_erase"
      BY <2>15, NamesAssumption DEF MapInv, ListInv, LockInv, MoveToIdleErase, Actors
    <3> QED BY <2>15, <3>1 DEF MoveToIdleErase
  <2>16. CASE RemoveThread(w) 
    <3>1. object[w] # "live"
      BY <2>16 DEF RemoveThread, MapInv, ListInv, FreshInv, ObjectInv
    <3> QED BY <3>1, <2>16 DEF RemoveThread
  <2>17. CASE RemoveThreadErase(w) BY <2>17 DEF RemoveThreadErase, MapInv, ObjectInv
  <2> QED BY <2>4, <2>5, <2>6, <2>7, <2>8, <2>9, <2>10, <2>11, <2>12, <2>13, <2>14,
             <2>15, <2>16, <2>17 DEF WorkerStep
<1> QED BY <1>2, <1>3, <1>4 DEF SteadyInv, LiveInv

\* A step of stop_handler or resume, called by the manager, keeps it.
LEMMA SteadyCall ==
  ASSUME TypeOK, MapInv, SteadyInv, NEW a \in Actors, CallStep(a)
  PROVE  SteadyInv'
<1>1. Actors = {Manager, Stopper} /\ Manager # Stopper
  BY NamesAssumption DEF Actors
<1>2. a = Manager /\ pc[Manager] \in CallPC
  BY <1>1 DEF SteadyInv, ManagerInv, CallStep, StopRead, StopSet, CallExitTask, ResumeTest,
     ResumeSet, MoveToRunning, MoveToRunningRefused, MoveToRunningErase, Signal, Goto, Move, Return
<1>3. target[Manager] \in Workers /\ target[Manager] # None
  BY <1>1, <1>2, NamesAssumption DEF TypeOK
<1>4. ManagerInv /\ \A v \in Workers : LiveInv(v)
  BY DEF SteadyInv
<1>5. /\ wpc \in [Workers -> WorkerPC]
      /\ state \in [Workers -> ThreadState]
      /\ object \in [Workers -> {"none", "live", "deleted"}]
      /\ pc \in [Actors -> ActorPC]
      /\ target \in [Actors -> Workers \cup {None}]
      /\ old_state \in [Actors -> ThreadState \cup {None}]
      /\ ret \in [Actors -> ReturnPC]
  BY DEF TypeOK
<1> DEFINE w == target[Manager]
<1> USE <1>1, <1>2, <1>3, <1>4, <1>5
    DEF ManagerInv, LiveInv, StateInv, PlaceInv, CalleeInv, WakeInv, Quiet, Resuming, Trimming,
        Goto, Move, Return
<1>6. CASE StopRead(a) BY <1>6 DEF StopRead, SteadyInv, Seen
<1>7. CASE StopSet(a) BY <1>7 DEF StopSet, SteadyInv, Store
<1>8. CASE CallExitTask(a) BY <1>8 DEF CallExitTask, SteadyInv
<1>9. CASE ResumeTest(a) BY <1>9 DEF ResumeTest, SteadyInv, Seen
<1>10. CASE ResumeSet(a) BY <1>10 DEF ResumeSet, SteadyInv, Store
<1>11. CASE MoveToRunning(a)
  <2>1. object[w] = "live"
    BY <1>11, NamesAssumption
       DEF MoveToRunning, MapInv, LockInv, ObjectInv, FreshInv, ListInv, Fresh
  <2> QED BY <1>11, <2>1 DEF MoveToRunning, SteadyInv
<1>12. CASE MoveToRunningRefused(a)
  <2>1. w \notin idle_threads \cap runing_threads
    BY <1>12, NamesAssumption DEF MoveToRunningRefused, MapInv, ListInv, Moving
  <2> QED BY <1>12, <2>1 DEF MoveToRunningRefused, SteadyInv
<1>13. CASE MoveToRunningErase(a) BY <1>13 DEF MoveToRunningErase, SteadyInv
<1>14. CASE Signal(a) BY <1>14 DEF Signal, SteadyInv
<1> QED BY <1>6, <1>7, <1>8, <1>9, <1>10, <1>11, <1>12, <1>13, <1>14 DEF CallStep

\* A step of manage_work_threads keeps it.
LEMMA SteadyManager ==
  ASSUME TypeOK, MapInv, SteadyInv, ManagerStep
  PROVE  SteadyInv'
<1>1. Actors = {Manager, Stopper} /\ Manager # Stopper
  BY NamesAssumption DEF Actors
<1>2. ManagerInv /\ \A v \in Workers : LiveInv(v)
  BY DEF SteadyInv
<1>3. /\ wpc \in [Workers -> WorkerPC]
      /\ state \in [Workers -> ThreadState]
      /\ object \in [Workers -> {"none", "live", "deleted"}]
      /\ pc \in [Actors -> ActorPC]
      /\ target \in [Actors -> Workers \cup {None}]
      /\ ret \in [Actors -> ReturnPC]
      /\ iter \in [Actors -> Workers \cup {None}]
      /\ idle_threads \subseteq Workers
  BY DEF TypeOK
<1> USE <1>1, <1>2, <1>3, NamesAssumption
    DEF SteadyInv, ManagerInv, LiveInv, StateInv, PlaceInv, CalleeInv, WakeInv, Quiet, Resuming,
        Trimming, Goto, Move, Call, PutIter
<1>4. CASE Tick BY <1>4 DEF Tick
<1>5. CASE TestTasks BY <1>5 DEF TestTasks
<1>6. CASE CountAwake BY <1>6 DEF CountAwake
<1>7. CASE AssignLoop BY <1>7 DEF AssignLoop
<1>8. CASE ResumeFirst BY <1>8, BeginInMap DEF ResumeFirst
<1>9. CASE TestMax BY <1>9 DEF TestMax
<1>10. CASE NewThread BY <1>10 DEF NewThread
<1>11. CASE InsertIdle
  <2>1. target[Manager] \in Workers /\ Fresh(target[Manager])
    BY <1>11 DEF InsertIdle, TypeOK, Fresh
  <2>2. /\ state[target[Manager]] = "WAITING"
        /\ wpc[target[Manager]] \in {"no_thread", "loop", "lock", "check", "blocked"}
    BY <1>11, <2>1 DEF InsertIdle, MapInv, FreshInv, Fresh
  <2> QED BY <1>11, <2>1, <2>2 DEF InsertIdle
<1>12. CASE CountIdle BY <1>12 DEF CountIdle
<1>13. CASE CountRunning BY <1>13 DEF CountRunning
<1>14. CASE TrimBegin BY <1>14, BeginInMap DEF TrimBegin
<1>15. CASE TrimEnd BY <1>15 DEF TrimEnd
<1>16. CASE \E timeout \in TimeoutResults : TrimThread(timeout)
  BY <1>16, IncrementInMap DEF TrimThread
<1> QED BY <1>4, <1>5, <1>6, <1>7, <1>8, <1>9, <1>10, <1>11, <1>12, <1>13, <1>14,
           <1>15, <1>16 DEF ManagerStep

\* So do the clients, the start of the pool, spurious wakeups and crashes.
LEMMA SteadyOther ==
  ASSUME TypeOK, SteadyInv,
         \/ ClientStep \/ StartPool
         \/ \E w \in Workers : SpuriousWakeup(w)
         \/ \E a \in Actors : Crash(a)
  PROVE  SteadyInv'
<1>1. Actors = {Manager, Stopper} /\ Manager # Stopper
  BY NamesAssumption DEF Actors
<1>2. ManagerInv /\ \A v \in Workers : LiveInv(v)
  BY DEF SteadyInv
<1>3. wpc \in [Workers -> WorkerPC] /\ pc \in [Actors -> ActorPC]
  BY DEF TypeOK
<1> USE <1>1, <1>2, <1>3
    DEF SteadyInv, ManagerInv, LiveInv, StateInv, PlaceInv, CalleeInv, WakeInv, Quiet, Resuming,
        Trimming
<1>4. CASE ClientStep BY <1>4 DEF ClientStep, AddTask, Push
<1>5. CASE StartPool BY <1>5 DEF StartPool, Goto
<1>6. CASE \E w \in Workers : SpuriousWakeup(w) BY <1>6 DEF SpuriousWakeup, Step, At
<1>7. CASE \E a \in Actors : Crash(a) BY <1>7 DEF Crash
<1> QED BY <1>4, <1>5, <1>6, <1>7

-----------------------------------------------------------------------------
(* The theorems.                                                           *)

\* The initial state and every step of the steady pool keep the invariant.
LEMMA SteadyInit == Init => SteadyInv
BY NamesAssumption, InitWorkersAssumption
   DEF Init, Actors, SteadyInv, ManagerInv, LiveInv, StateInv, PlaceInv, CalleeInv, WakeInv,
       Quiet, Resuming, Trimming

LEMMA SteadyStep == TypeOK /\ MapInv /\ SteadyInv /\ [SteadyNext]_vars => SteadyInv'
<1> SUFFICES ASSUME TypeOK, MapInv, SteadyInv, [SteadyNext]_vars PROVE SteadyInv'
  OBVIOUS
<1>1. CASE UNCHANGED vars
  BY <1>1 DEF vars, SteadyInv, ManagerInv, LiveInv, StateInv, PlaceInv, CalleeInv, WakeInv,
              Quiet, Resuming, Trimming
<1>2. CASE SteadyNext
  <2>1. CASE \E w \in Workers : WorkerStep(w)
    BY <2>1, SteadyWorker
  <2>2. CASE \E a \in Actors : CallStep(a)
    BY <2>2, SteadyCall
  <2>3. CASE StopperStep
    BY <2>3, NamesAssumption DEF SteadyInv, ManagerInv, StopperStep, WaitRunning, WalkMap,
       WalkEnd, BeginIdleWalk, SetExit, SetPoolState, Goto, Move, Call
  <2> QED BY <1>2, <2>1, <2>2, <2>3, SteadyManager, SteadyOther DEF SteadyNext, ActorStep
<1> QED BY <1>1, <1>2

\* The invariant of the steady pool, with the types and the maps it rests on.
LEMMA SteadyInvariant == SteadySpec => [](TypeOK /\ MapInv /\ SteadyInv)
<1>1. [SteadyNext]_vars => [Next]_vars
  BY DEF Next
<1> QED BY <1>1, SteadyInit, SteadyStep, TypeCorrect, MapInvariant, PTL DEF SteadySpec, Spec

\* A worker that sleeps although it should not is about to be signalled, for
\* any number of workers and any interleaving of resume, stop_handler and pause.
THEOREM WakeupsKept == SteadySpec => []NoLostWakeup
<1>1. TypeOK /\ MapInv /\ SteadyInv => NoLostWakeup
  BY DEF TypeOK, MapInv, ObjectInv, SteadyInv, LiveInv, WakeInv, NoLostWakeup, Actors
<1> QED BY <1>1, SteadyInvariant, PTL

\* A worker that runs a task is in runing_threads_, or resume() is about to
\* put it there.
THEOREM WorkersListed == SteadySpec => []WorkingMeansRunning
<1>1. TypeOK /\ MapInv /\ SteadyInv => WorkingMeansRunning
  BY DEF TypeOK, MapInv, ObjectInv, SteadyInv, LiveInv, StateInv, PlaceInv, Resuming, Actors,
         WorkingMeansRunning
<1> QED BY <1>1, SteadyInvariant, PTL

LEMMA TrimOnlyDeleted == TypeOK /\ MapInv /\ SteadyInv => TrimInterruptsNobody
<1> SUFFICES ASSUME TypeOK, MapInv, SteadyInv, NEW a \in Actors, pc[a] = "call_exit"
             PROVE  object[target[a]] = "deleted"
  BY DEF TrimInterruptsNobody
<1>1. a = Manager /\ target[Manager] \in Workers /\ ret[Manager] = "trim"
  BY DEF Actors, TypeOK, SteadyInv, ManagerInv
<1>2. object[target[Manager]] # "live"
  BY <1>1 DEF SteadyInv, LiveInv, CalleeInv, Trimming
<1>3. object[target[Manager]] # "none"
  BY <1>1 DEF MapInv, FreshInv, Fresh
<1> QED BY <1>1, <1>2, <1>3 DEF TypeOK

\* Trimming calls no exit_task of a thread that exists.
THEOREM TrimHarmless == SteadySpec => []TrimInterruptsNobody
BY TrimOnlyDeleted, SteadyInvariant, PTL

\* Once stop_handler has written EXIT, no test-then-assign of pause() or
\* resume() overwrites it.
THEOREM ExitKept == SteadySpec => ExitIsFinal
<1>1. TypeOK /\ MapInv /\ SteadyInv /\ [SteadyNext]_vars
      => [\A w \in Workers : state[w] = "EXIT" /\ object[w] = "live" => state'[w] = "EXIT"]_vars
  <2> SUFFICES ASSUME TypeOK, MapInv, SteadyInv, SteadyNext, NEW w \in Workers,
                      state[w] = "EXIT", object[w] = "live"
               PROVE  state'[w] = "EXIT"
    BY DEF vars
  <2>1. state \in [Workers -> ThreadState] /\ wpc[w] # "set_waiting"
    BY DEF TypeOK, SteadyInv, LiveInv, StateInv
  <2>2. CASE \E v \in Workers : WorkerStep(v)
    BY <2>1, <2>2 DEF WorkerStep, RunLoop, LockMutex, CheckState, Dispatch, GetTask, GetNothing,
       FinishTask, PauseTest, PauseSet, MoveToIdle, MoveToIdleRefused, MoveToIdleErase,
       RemoveThread, RemoveThreadErase, Step, At, Store
  <2>3. CASE \E a \in Actors : ResumeSet(a)
    <3>1. PICK a \in Actors : ResumeSet(a) BY <2>3
    <3>2. a = Manager /\ pc[Manager] = "set_running" /\ target[Manager] \in Workers
      BY <3>1 DEF ResumeSet, Goto, Actors, TypeOK, SteadyInv, ManagerInv
    <3>3. target[Manager] # w
      BY <3>2 DEF SteadyInv, ManagerInv, LiveInv, CalleeInv, Resuming, Trimming
    <3> QED BY <2>1, <3>1, <3>2, <3>3 DEF ResumeSet, Store
  <2>4. CASE \E a \in Actors : CallStep(a) /\ ~ResumeSet(a)
    BY <2>1, <2>4 DEF CallStep, StopRead, StopSet, CallExitTask, ResumeTest, MoveToRunning,
       MoveToRunningRefused, MoveToRunningErase, Signal, Store, Move
  <2>5. CASE ManagerStep
    <3>1. CASE NewThread BY <2>1, <3>1 DEF NewThread
    <3> QED BY <2>5, <3>1 DEF ManagerStep, Tick, TestTasks, CountAwake, AssignLoop, ResumeFirst,
         TestMax, InsertIdle, CountIdle, CountRunning, TrimBegin, TrimEnd, TrimThread, Move
  <2>6. CASE StopperStep
    BY <2>6 DEF StopperStep, WaitRunning, WalkMap, WalkEnd, BeginIdleWalk, SetExit, SetPoolState,
       Move
  <2>7. CASE \/ ClientStep \/ StartPool
             \/ \E v \in Workers : SpuriousWakeup(v)
             \/ \E a \in Actors : Crash(a)
    BY <2>7 DEF ClientStep, AddTask, Push, StartPool, SpuriousWakeup, Step, Crash
  <2> QED BY <2>2, <2>3, <2>4, <2>5, <2>6, <2>7 DEF SteadyNext, ActorStep
<1> QED BY <1>1, SteadyInvariant, PTL DEF SteadySpec, ExitIsFinal

=============================================================================
