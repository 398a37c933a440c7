-------------------------- MODULE ThreadPoolProofs --------------------------
(***************************************************************************)
(* Theorems about the thread pool, for any number of WorkThreads, tasks,   *)
(* threads allowed and any shutdown action: the type invariant, that every *)
(* WorkThread is in exactly one of the two maps, that no task is lost or   *)
(* run twice, and that the pool implements TaskService.                    *)
(***************************************************************************)
EXTENDS PoolProperties, FiniteSetTheorems, TLAPS

USE DEF workerVars, mapVars, taskVars, poolVars, callVars, loopVars, actorVars

\* An iterator set to begin() stands on a key of the map or at its end.
LEMMA BeginInMap ==
  ASSUME NEW S
  PROVE  Begin(S) \subseteq S \cup {None}
BY DEF Begin

\* So does one that was advanced, even from an erased node.
LEMMA IncrementInMap ==
  ASSUME NEW S, NEW w
  PROVE  Increment(S, w) \subseteq S \cup {None}
BY BeginInMap DEF Increment, Begin

\* size() of a map of WorkThreads is a natural number.
LEMMA MapSizes ==
  ASSUME TypeOK
  PROVE  Cardinality(idle_threads) \in Nat /\ Cardinality(runing_threads) \in Nat
BY WorkersAssumption, FS_Subset, FS_CardinalityType DEF TypeOK

-----------------------------------------------------------------------------
(* Types.                                                                  *)

USE DEF ThreadState, WorkerPC, ManagerPC, StopperPC, CallPC, ReturnPC, ActorPC

\* A step of run_handler, or of a member it calls, keeps the types.
LEMMA TypeOKWorker ==
  ASSUME TypeOK, NEW w \in Workers, WorkerStep(w)
  PROVE  TypeOK'
<1> USE NamesAssumption, TasksAssumption DEF TypeOK, At, Step, Store
<1>1. CASE RunLoop(w)           BY <1>1 DEF RunLoop
<1>2. CASE LockMutex(w)         BY <1>2 DEF LockMutex
<1>3. CASE CheckState(w)        BY <1>3 DEF CheckState
<1>4. CASE Dispatch(w)          BY <1>4 DEF Dispatch
<1>5. CASE GetTask(w)           BY <1>5 DEF GetTask
<1>6. CASE GetNothing(w)        BY <1>6 DEF GetNothing
<1>7. CASE FinishTask(w)        BY <1>7 DEF FinishTask
<1>8. CASE PauseTest(w)         BY <1>8 DEF PauseTest
<1>9. CASE PauseSet(w)          BY <1>9 DEF PauseSet
<1>10. CASE MoveToIdle(w)       BY <1>10 DEF MoveToIdle
<1>11. CASE MoveToIdleRefused(w) BY <1>11 DEF MoveToIdleRefused
<1>12. CASE MoveToIdleErase(w)  BY <1>12 DEF MoveToIdleErase
<1>13. CASE RemoveThread(w)     BY <1>13 DEF RemoveThread
<1>14. CASE RemoveThreadErase(w) BY <1>14 DEF RemoveThreadErase
<1> QED BY <1>1, <1>2, <1>3, <1>4, <1>5, <1>6, <1>7, <1>8, <1>9, <1>10, <1>11,
           <1>12, <1>13, <1>14 DEF WorkerStep

\* So does a step of stop_handler or resume on a WorkThread.
LEMMA TypeOKCall ==
  ASSUME TypeOK, NEW a \in Actors, CallStep(a)
  PROVE  TypeOK'
<1> USE NamesAssumption, TasksAssumption DEF TypeOK, Actors, Goto, Move, Return, Store
<1>1. CASE StopRead(a)
  <2>1. Seen(target[a]) \subseteq ThreadState
    BY <1>1 DEF StopRead, Seen
  <2>2. old_state' \in [Actors -> ThreadState \cup {None}]
    BY <1>1, <2>1 DEF StopRead
  <2> QED BY <1>1, <2>2 DEF StopRead
<1>2. CASE StopSet(a)        BY <1>2 DEF StopSet
<1>3. CASE CallExitTask(a)
  <2>1. task[target[a]] \in Tasks \cup {None}
    BY <1>3 DEF CallExitTask
  <2>2. exitCalled' \subseteq Tasks
    BY <1>3, <2>1 DEF CallExitTask
  <2> QED BY <1>3, <2>2 DEF CallExitTask
<1>4. CASE ResumeTest(a)     BY <1>4 DEF ResumeTest, Seen
<1>5. CASE ResumeSet(a)      BY <1>5 DEF ResumeSet
<1>6. CASE MoveToRunning(a)  BY <1>6 DEF MoveToRunning
<1>7. CASE MoveToRunningRefused(a) BY <1>7 DEF MoveToRunningRefused
<1>8. CASE MoveToRunningErase(a)   BY <1>8 DEF MoveToRunningErase
<1>9. CASE Signal(a)         BY <1>9 DEF Signal
<1> QED BY <1>1, <1>2, <1>3, <1>4, <1>5, <1>6, <1>7, <1>8, <1>9 DEF CallStep

\* So does a step of manage_work_threads.
LEMMA TypeOKManager ==
  ASSUME TypeOK, ManagerStep
  PROVE  TypeOK'
<1> USE NamesAssumption, ConfigAssumption DEF TypeOK, Actors, Goto, Move, Call, PutIter
<1>1. CASE Tick        BY <1>1 DEF Tick
<1>2. CASE TestTasks   BY <1>2 DEF TestTasks
<1>3. CASE CountAwake  BY <1>3 DEF CountAwake
<1>4. CASE AssignLoop  BY <1>4 DEF AssignLoop
<1>5. CASE ResumeFirst BY <1>5, BeginInMap DEF ResumeFirst
<1>6. CASE TestMax     BY <1>6 DEF TestMax
<1>7. CASE NewThread   BY <1>7 DEF NewThread
<1>8. CASE InsertIdle  BY <1>8 DEF InsertIdle
<1>9. CASE CountIdle   BY <1>9, MapSizes DEF CountIdle
<1>10. CASE CountRunning BY <1>10, MapSizes DEF CountRunning
<1>11. CASE TrimBegin  BY <1>11, BeginInMap DEF TrimBegin
<1>12. CASE TrimEnd    BY <1>12 DEF TrimEnd
<1>13. CASE \E timeout \in TimeoutResults : TrimThread(timeout)
  BY <1>13, IncrementInMap DEF TrimThread
<1> QED BY <1>1, <1>2, <1>3, <1>4, <1>5, <1>6, <1>7, <1>8, <1>9, <1>10, <1>11,
           <1>12, <1>13 DEF ManagerStep

\* So does a step of ThreadPool::stop_handler.
LEMMA TypeOKStopper ==
  ASSUME TypeOK, StopperStep \/ \E wait \in ExitActions : BeginShutdown(wait)
  PROVE  TypeOK'
<1> USE NamesAssumption DEF TypeOK, Actors, Goto, Move, Call, PutIter
<1>1. CASE \E wait \in ExitActions : BeginShutdown(wait) BY <1>1, BeginInMap DEF BeginShutdown
<1>2. CASE WaitRunning("wait_running", "drain") \/ WaitRunning("drain", "idle_begin")
  BY <1>2 DEF WaitRunning
<1>3. CASE WalkMap(runing_threads, "walk_running") BY <1>3, IncrementInMap DEF WalkMap
<1>4. CASE WalkMap(idle_threads, "walk_idle") BY <1>4, IncrementInMap DEF WalkMap
<1>5. CASE WalkEnd("walk_running", "drain") \/ WalkEnd("walk_idle", "exit_flag")
  BY <1>5 DEF WalkEnd
<1>6. CASE BeginIdleWalk BY <1>6, BeginInMap DEF BeginIdleWalk
<1>7. CASE SetExit       BY <1>7 DEF SetExit
<1>8. CASE SetPoolState  BY <1>8 DEF SetPoolState
<1> QED BY <1>1, <1>2, <1>3, <1>4, <1>5, <1>6, <1>7, <1>8 DEF StopperStep

\* So do the clients, the start of the pool, spurious wakeups and crashes.
LEMMA TypeOKOther ==
  ASSUME TypeOK,
         \/ ClientStep \/ StartPool
         \/ \E w \in Workers : SpuriousWakeup(w)
         \/ \E a \in Actors : Crash(a)
  PROVE  TypeOK'
<1> USE NamesAssumption DEF TypeOK, Actors, Goto, At, Step
<1>1. CASE \E t \in Tasks : AddTask(t) BY <1>1 DEF AddTask
<1>2. CASE \E t \in Tasks : Push(t)
  <2>1. PICK t \in Tasks : Push(t) BY <1>2
  <2>2. Append(tasks, t) \in Seq(Tasks) /\ Append(priority_tasks, t) \in Seq(Tasks)
    OBVIOUS
  <2> QED BY <2>1, <2>2 DEF Push
<1>3. CASE StartPool                   BY <1>3 DEF StartPool
<1>4. CASE \E w \in Workers : SpuriousWakeup(w) BY <1>4 DEF SpuriousWakeup
<1>5. CASE \E a \in Actors : Crash(a)  BY <1>5 DEF Crash
<1> QED BY <1>1, <1>2, <1>3, <1>4, <1>5 DEF ClientStep

\* The initial state and every step of the pool keep the types.
LEMMA TypeOKInit == Init => TypeOK
<1> SUFFICES ASSUME Init PROVE TypeOK
  OBVIOUS
<1> USE NamesAssumption, InitWorkersAssumption DEF Init, Actors
<1>1. /\ wpc \in [Workers -> WorkerPC]
      /\ object \in [Workers -> {"none", "live", "deleted"}]
      /\ \A w \in Workers : wpc[w] # "work"
  OBVIOUS
<1>2. pc \in [Actors -> ActorPC] /\ \A a \in Actors : pc[a] = "off"
  OBVIOUS
<1>3. tasks \in Seq(Tasks) /\ priority_tasks \in Seq(Tasks)
  OBVIOUS
<1> QED BY <1>1, <1>2, <1>3 DEF TypeOK

LEMMA TypeOKStep == TypeOK /\ [Next]_vars => TypeOK'
<1> SUFFICES ASSUME TypeOK, [Next]_vars PROVE TypeOK'
  OBVIOUS
<1>1. CASE UNCHANGED vars BY <1>1 DEF vars, TypeOK
<1>2. CASE Next
  BY <1>2, TypeOKWorker, TypeOKCall, TypeOKManager, TypeOKStopper, TypeOKOther
     DEF Next, SteadyNext, ActorStep
<1> QED BY <1>1, <1>2

\* Every variable of the pool keeps its type; in particular no member function
\* of a WorkThread runs without a WorkThread, and the manager never resumes
\* more threads than it decided to.
THEOREM TypeCorrect == Spec => []TypeOK
BY TypeOKInit, TypeOKStep, PTL DEF Spec

-----------------------------------------------------------------------------
(* The two maps.                                                           *)

USE DEF LockInv, ObjectInv, FreshInv, ListInv, Fresh, Moving

\* A worker moves and removes only itself, under thread_mutex_, so its steps keep
\* the invariant of the maps.
LEMMA MapInvWorker ==
  ASSUME TypeOK, MapInv, NEW w \in Workers, WorkerStep(w)
  PROVE  MapInv'
<1> USE NamesAssumption DEF TypeOK, MapInv, Actors, At, Step, Store
<1>1. CASE RunLoop(w)
  BY <1>1 DEF RunLoop
<1>2. CASE LockMutex(w)
  BY <1>2 DEF LockMutex
<1>3. CASE CheckState(w)
  BY <1>3 DEF CheckState
<1>4. CASE Dispatch(w)
  BY <1>4 DEF Dispatch
<1>5. CASE GetTask(w)
  BY <1>5 DEF GetTask
<1>6. CASE GetNothing(w)
  BY <1>6 DEF GetNothing
<1>7. CASE FinishTask(w)
  BY <1>7 DEF FinishTask
<1>8. CASE PauseTest(w)
  BY <1>8 DEF PauseTest
<1>9. CASE PauseSet(w)
  <2>1. ~Fresh(w) BY <1>9 DEF PauseSet
  <2>2. \A v \in Workers : v # w => state'[v] = state[v] /\ wpc'[v] = wpc[v]
    BY <1>9 DEF PauseSet
  <2>3. \A v \in Workers : Fresh(v)' <=> Fresh(v) BY <1>9 DEF PauseSet
  <2>4. LockInv' BY <1>9, <2>2 DEF PauseSet
  <2>5. ObjectInv' BY <1>9, <2>2 DEF PauseSet
  <2>6. FreshInv' BY <1>9, <2>1, <2>2, <2>3 DEF PauseSet
  <2>7. ListInv' BY <1>9, <2>2, <2>3 DEF PauseSet
  <2> QED BY <2>4, <2>5, <2>6, <2>7
<1>10. CASE MoveToIdle(w)
  BY <1>10 DEF MoveToIdle
<1>11. CASE MoveToIdleRefused(w)
  BY <1>11 DEF MoveToIdleRefused
<1>12. CASE MoveToIdleErase(w)
  BY <1>12 DEF MoveToIdleErase
<1>13. CASE RemoveThread(w)
  BY <1>13 DEF RemoveThread
<1>14. CASE RemoveThreadErase(w)
  BY <1>14 DEF RemoveThreadErase
<1> QED BY <1>1, <1>2, <1>3, <1>4, <1>5, <1>6, <1>7, <1>8, <1>9, <1>10, <1>11, <1>12, <1>13, <1>14 DEF WorkerStep

\* resume() moves only the thread it is called on, which nobody else is creating.
LEMMA MapInvCall ==
  ASSUME TypeOK, MapInv, NEW a \in Actors, CallStep(a)
  PROVE  MapInv'
<1> USE NamesAssumption DEF TypeOK, MapInv, Actors, Goto, Move, Return, Store
<1>1. CASE StopRead(a)
  BY <1>1 DEF StopRead
<1>2. CASE StopSet(a)
  BY <1>2 DEF StopSet
<1>3. CASE CallExitTask(a)
  BY <1>3 DEF CallExitTask
<1>4. CASE ResumeTest(a)
  BY <1>4 DEF ResumeTest
<1>5. CASE ResumeSet(a)
  BY <1>5 DEF ResumeSet
<1>6. CASE MoveToRunning(a)
  BY <1>6 DEF MoveToRunning
<1>7. CASE MoveToRunningRefused(a)
  BY <1>7 DEF MoveToRunningRefused
<1>8. CASE MoveToRunningErase(a)
  BY <1>8 DEF MoveToRunningErase
<1>9. CASE Signal(a)
  BY <1>9 DEF Signal
<1> QED BY <1>1, <1>2, <1>3, <1>4, <1>5, <1>6, <1>7, <1>8, <1>9 DEF CallStep

\* The manager's unlocked insertion concerns a thread nobody else knows of.
LEMMA MapInvManager ==
  ASSUME TypeOK, MapInv, ManagerStep
  PROVE  MapInv'
<1> USE NamesAssumption DEF TypeOK, MapInv, Actors, Goto, Move, Call, PutIter
<1>1. CASE Tick
  BY <1>1 DEF Tick
<1>2. CASE TestTasks
  BY <1>2 DEF TestTasks
<1>3. CASE CountAwake
  BY <1>3 DEF CountAwake
<1>4. CASE AssignLoop
  BY <1>4 DEF AssignLoop
<1>5. CASE ResumeFirst
  BY <1>5, BeginInMap DEF ResumeFirst
<1>6. CASE TestMax
  BY <1>6 DEF TestMax
<1>7. CASE NewThread
  BY <1>7 DEF NewThread
<1>8. CASE InsertIdle
  BY <1>8 DEF InsertIdle
<1>9. CASE CountIdle
  BY <1>9 DEF CountIdle
<1>10. CASE CountRunning
  BY <1>10 DEF CountRunning
<1>11. CASE TrimBegin
  BY <1>11, BeginInMap DEF TrimBegin
<1>12. CASE TrimEnd
  BY <1>12 DEF TrimEnd
<1>13. CASE \E timeout \in TimeoutResults : TrimThread(timeout)
  BY <1>13, IncrementInMap DEF TrimThread
<1> QED BY <1>1, <1>2, <1>3, <1>4, <1>5, <1>6, <1>7, <1>8, <1>9, <1>10, <1>11, <1>12, <1>13 DEF ManagerStep

\* Shutdown only walks the maps, with iterators that never reach such a thread.
LEMMA MapInvStopper ==
  ASSUME TypeOK, MapInv, StopperStep \/ \E wait \in ExitActions : BeginShutdown(wait)
  PROVE  MapInv'
<1> USE NamesAssumption DEF TypeOK, MapInv, Actors, Goto, Move, Call, PutIter
<1>1. CASE \E wait \in ExitActions : BeginShutdown(wait)
  BY <1>1, BeginInMap DEF BeginShutdown
<1>2. CASE WaitRunning("wait_running", "drain") \/ WaitRunning("drain", "idle_begin")
  BY <1>2 DEF WaitRunning
<1>3. CASE WalkMap(runing_threads, "walk_running")
  BY <1>3, IncrementInMap DEF WalkMap
<1>4. CASE WalkMap(idle_threads, "walk_idle")
  BY <1>4, IncrementInMap DEF WalkMap
<1>5. CASE WalkEnd("walk_running", "drain") \/ WalkEnd("walk_idle", "exit_flag")
  BY <1>5 DEF WalkEnd
<1>6. CASE BeginIdleWalk
  BY <1>6, BeginInMap DEF BeginIdleWalk
<1>7. CASE SetExit
  BY <1>7 DEF SetExit
<1>8. CASE SetPoolState
  BY <1>8 DEF SetPoolState
<1> QED BY <1>1, <1>2, <1>3, <1>4, <1>5, <1>6, <1>7, <1>8 DEF StopperStep

\* Clients, spurious wakeups and crashes leave the maps alone.
LEMMA MapInvOther ==
  ASSUME TypeOK, MapInv, 
         \/ ClientStep \/ StartPool
         \/ \E w \in Workers : SpuriousWakeup(w)
         \/ \E a \in Actors : Crash(a)
  PROVE  MapInv'
<1> USE NamesAssumption DEF TypeOK, MapInv, Actors, Goto, At, Step
<1>1. CASE \E t \in Tasks : AddTask(t)
  BY <1>1 DEF AddTask
<1>2. CASE \E t \in Tasks : Push(t)
  BY <1>2 DEF Push
<1>3. CASE StartPool
  BY <1>3 DEF StartPool
<1>4. CASE \E w \in Workers : SpuriousWakeup(w)
  BY <1>4 DEF SpuriousWakeup
<1>5. CASE \E a \in Actors : Crash(a)
  BY <1>5 DEF Crash
<1> QED BY <1>1, <1>2, <1>3, <1>4, <1>5 DEF ClientStep

\* The initial state and every step of the pool keep the lists right.
LEMMA MapInvInit == Init => MapInv
BY NamesAssumption, InitWorkersAssumption DEF Init, MapInv, Actors

LEMMA MapInvStep == TypeOK /\ MapInv /\ [Next]_vars => MapInv'
<1> SUFFICES ASSUME TypeOK, MapInv, [Next]_vars PROVE MapInv'
  OBVIOUS
<1>1. CASE UNCHANGED vars BY <1>1 DEF vars, MapInv
<1>2. CASE Next
  BY <1>2, MapInvWorker, MapInvCall, MapInvManager, MapInvStopper, MapInvOther
     DEF Next, SteadyNext, ActorStep
<1> QED BY <1>1, <1>2

\* The inductive invariant of the maps.
THEOREM MapInvariant == Spec => []MapInv
BY MapInvInit, MapInvStep, TypeCorrect, PTL DEF Spec

\* The lists of the pool are right whatever the interleaving: outside the
\* critical section that moves it, an existing WorkThread is in exactly one of
\* idle_threads_ and runing_threads_, a deleted one in neither.
THEOREM MapsCorrect == Spec => []EachThreadInOneMap
<1>1. TypeOK /\ MapInv => EachThreadInOneMap
  BY DEF TypeOK, MapInv, EachThreadInOneMap
<1> QED BY <1>1, TypeCorrect, MapInvariant, PTL

\* A worker thread that has left run_handler has freed its WorkThread.
THEOREM NoLeakedThread == Spec => []GoneMeansDeleted
<1>1. MapInv => GoneMeansDeleted
  BY DEF MapInv, GoneMeansDeleted
<1> QED BY <1>1, MapInvariant, PTL

-----------------------------------------------------------------------------
(* Tasks.                                                                  *)

\* What Append leaves where it was, and what it adds.
LEMMA AppendPlaces ==
  ASSUME NEW S, NEW q \in Seq(S), NEW x \in S
  PROVE  LET r == Append(q, x) IN
         /\ r \in Seq(S)
         /\ DOMAIN r = DOMAIN q \cup {Len(q) + 1}
         /\ Len(q) + 1 \notin DOMAIN q
         /\ r[Len(q) + 1] = x
         /\ \A i \in DOMAIN q : r[i] = q[i]
OBVIOUS

\* Tail shifts every element but the first by one place.
LEMMA TailPlaces ==
  ASSUME NEW S, NEW q \in Seq(S), q # << >>
  PROVE  /\ Head(q) \in S /\ 1 \in DOMAIN q /\ Head(q) = q[1]
         /\ Tail(q) \in Seq(S)
         /\ \A i \in DOMAIN Tail(q) : i + 1 \in DOMAIN q /\ i + 1 # 1 /\ Tail(q)[i] = q[i + 1]
         /\ \A i \in DOMAIN q : i # 1 => i - 1 \in DOMAIN Tail(q)
         /\ \A i \in DOMAIN q : i \in Nat
OBVIOUS

\* An element that is once in a queue is once in it after another one is added.
LEMMA OnceAppend ==
  ASSUME NEW S, NEW q \in Seq(S), NEW x \in S, NEW t
  PROVE  /\ t # x /\ Once(q, t) => Once(Append(q, x), t)
         /\ (\A i \in DOMAIN q : q[i] # x) => Once(Append(q, x), x)
BY AppendPlaces DEF Once

\* And after the head, which is another one, is taken.
LEMMA OnceTail ==
  ASSUME NEW S, NEW q \in Seq(S), q # << >>, NEW t, t # Head(q), Once(q, t)
  PROVE  Once(Tail(q), t)
<1>1. PICK i \in DOMAIN q : q[i] = t /\ \A j \in DOMAIN q : q[j] = t => j = i
  BY DEF Once
<1>2. i # 1 BY <1>1, TailPlaces
<1>3. i - 1 \in DOMAIN Tail(q) /\ Tail(q)[i - 1] = t
  BY <1>1, <1>2, TailPlaces
<1>4. ASSUME NEW j \in DOMAIN Tail(q), Tail(q)[j] = t PROVE j = i - 1
  BY <1>1, <1>4, TailPlaces
<1> QED BY <1>3, <1>4 DEF Once

\* A head that is once in its queue is not in the tail.
LEMMA HeadGone ==
  ASSUME NEW S, NEW q \in Seq(S), q # << >>, Once(q, Head(q)), NEW j \in DOMAIN Tail(q)
  PROVE  Tail(q)[j] # Head(q)
BY TailPlaces DEF Once

\* The steps that have nothing to do with tasks.
QuietStep ==
  /\ UNCHANGED <<tasks, priority_tasks, tpc, task>>
  /\ \A w \in Workers : wpc'[w] = "work" <=> wpc[w] = "work"

\* Of its own steps, only get_task and the end of work_func touch the tasks.
LEMMA WorkerTaskSteps ==
  ASSUME TypeOK, NEW w \in Workers, WorkerStep(w) \/ SpuriousWakeup(w)
  PROVE  QuietStep \/ GetTask(w) \/ FinishTask(w)
BY DEF QuietStep, TypeOK, WorkerStep, At, Step, RunLoop, LockMutex, CheckState, SpuriousWakeup,
   Dispatch, GetNothing, PauseTest, PauseSet, MoveToIdle, MoveToIdleRefused,
   MoveToIdleErase, RemoveThread, RemoveThreadErase

\* The manager and the stopper do not touch them.
LEMMA ActorTaskSteps ==
  ASSUME TypeOK, MapInv,
         \/ \E a \in Actors : ActorStep(a) \/ Crash(a)
         \/ StartPool
         \/ \E wait \in ExitActions : BeginShutdown(wait)
  PROVE  QuietStep
<1> USE DEF QuietStep
<1>1. ASSUME NEW a \in Actors, CallStep(a) PROVE QuietStep
  BY <1>1 DEF TypeOK, CallStep, Move, StopRead, StopSet, CallExitTask, ResumeTest, ResumeSet,
     MoveToRunning, MoveToRunningRefused, MoveToRunningErase, Signal
<1>2. ASSUME ManagerStep PROVE QuietStep
  <2>1. CASE NewThread BY <2>1 DEF TypeOK, MapInv, NewThread
  <2> QED BY <1>2, <2>1 DEF ManagerStep, Move, Tick, TestTasks, CountAwake, AssignLoop,
     ResumeFirst, TestMax, InsertIdle, CountIdle, CountRunning, TrimBegin, TrimThread, TrimEnd
<1>3. ASSUME StopperStep \/ StartPool \/ \E wait \in ExitActions : BeginShutdown(wait)
      PROVE   QuietStep
  BY <1>3 DEF StopperStep, Move, BeginShutdown, StartPool, WaitRunning, WalkMap, WalkEnd,
     BeginIdleWalk, SetExit, SetPoolState
<1>4. ASSUME NEW a \in Actors, Crash(a) PROVE QuietStep
  BY <1>4 DEF Crash
<1> QED BY <1>1, <1>2, <1>3, <1>4 DEF ActorStep

\* Only a client, and a worker in get_task or at the end of work_func, touches
\* the tasks.
LEMMA TaskSteps ==
  ASSUME TypeOK, MapInv, Next
  PROVE  \/ QuietStep
         \/ \E t \in Tasks : AddTask(t) \/ Push(t)
         \/ \E w \in Workers : GetTask(w) \/ FinishTask(w)
BY WorkerTaskSteps, ActorTaskSteps DEF Next, SteadyNext, ClientStep

\* A push puts a task that was nowhere at the end of the queue of its kind.
LEMMA ConservationPush ==
  ASSUME TypeOK, TaskConservation, NEW t \in Tasks, Push(t)
  PROVE  TaskConservation'
<1> DEFINE q == QueueOf(t)
<1>1. q \in Seq(Tasks) /\ \A i \in DOMAIN q : q[i] # t
  BY DEF TypeOK, TaskConservation, Push, QueueOf
<1>2. /\ tpc[t] = "admitted" /\ tpc' = [tpc EXCEPT ![t] = "queued"]
      /\ UNCHANGED <<wpc, task>>
      /\ IF t \in PriorityTasks
         THEN priority_tasks' = Append(q, t) /\ tasks' = tasks
         ELSE tasks' = Append(q, t) /\ priority_tasks' = priority_tasks
  BY DEF Push, QueueOf
<1>3. /\ Once(Append(q, t), t)
      /\ \A u \in Tasks : u # t /\ Once(q, u) => Once(Append(q, t), u)
  BY <1>1, OnceAppend
<1>4. \A j \in DOMAIN Append(q, t) :
        Append(q, t)[j] = t \/ \E i \in DOMAIN q : Append(q, t)[j] = q[i]
  BY <1>1, AppendPlaces
<1>5. \A u \in Tasks : tpc'[u] = "queued" => Once(QueueOf(u), u)'
  <2> SUFFICES ASSUME NEW u \in Tasks, tpc'[u] = "queued" PROVE Once(QueueOf(u), u)'
    OBVIOUS
  <2>1. u = t \/ (u # t /\ Once(QueueOf(u), u))
    BY <1>2 DEF TypeOK, TaskConservation
  <2>2. CASE u \in PriorityTasks <=> t \in PriorityTasks
    <3>1. QueueOf(u) = q /\ QueueOf(u)' = Append(q, t) BY <1>2, <2>2 DEF QueueOf
    <3> HIDE DEF q
    <3>2. Once(Append(q, t), u) BY <1>3, <2>1, <3>1
    <3> QED BY <3>1, <3>2 DEF Once
  <2>3. CASE ~(u \in PriorityTasks <=> t \in PriorityTasks)
    <3>1. QueueOf(u)' = QueueOf(u) BY <1>2, <2>3 DEF QueueOf
    <3> QED BY <2>1, <2>3, <3>1 DEF Once
  <2> QED BY <2>2, <2>3
<1>6. \A i \in DOMAIN tasks' : tasks'[i] \notin PriorityTasks /\ tpc'[tasks'[i]] = "queued"
  <2>1. CASE t \in PriorityTasks
    BY <1>2, <2>1 DEF TypeOK, TaskConservation
  <2>2. CASE t \notin PriorityTasks
    <3>1. \A i \in DOMAIN q : q[i] \notin PriorityTasks /\ tpc'[q[i]] = "queued"
      BY <1>2, <2>2 DEF TypeOK, TaskConservation, QueueOf
    <3>2. tasks' = Append(q, t) /\ tpc'[t] = "queued"
      BY <1>2, <2>2 DEF TypeOK
    <3> HIDE DEF q
    <3> QED BY <1>4, <2>2, <3>1, <3>2
  <2> QED BY <2>1, <2>2
<1>7. \A i \in DOMAIN priority_tasks' :
        priority_tasks'[i] \in PriorityTasks /\ tpc'[priority_tasks'[i]] = "queued"
  <2>1. CASE t \notin PriorityTasks
    BY <1>2, <2>1 DEF TypeOK, TaskConservation
  <2>2. CASE t \in PriorityTasks
    <3>1. \A i \in DOMAIN q : q[i] \in PriorityTasks /\ tpc'[q[i]] = "queued"
      BY <1>2, <2>2 DEF TypeOK, TaskConservation, QueueOf
    <3>2. priority_tasks' = Append(q, t) /\ tpc'[t] = "queued"
      BY <1>2, <2>2 DEF TypeOK
    <3> HIDE DEF q
    <3> QED BY <1>4, <2>2, <3>1, <3>2
  <2> QED BY <2>1, <2>2
<1>8. /\ \A u \in Tasks : tpc'[u] = "taken" => \E w \in Workers : wpc'[w] = "work" /\ task'[w] = u
      /\ \A w \in Workers : wpc'[w] = "work" =>
           /\ tpc'[task'[w]] = "taken"
           /\ \A v \in Workers : wpc'[v] = "work" /\ task'[v] = task'[w] => v = w
  BY <1>2 DEF TypeOK, TaskConservation
<1> QED BY <1>5, <1>6, <1>7, <1>8 DEF TaskConservation

\* get_task hands the head of a queue to the one worker that then runs it.
LEMMA ConservationGet ==
  ASSUME TypeOK, TaskConservation, NEW w \in Workers, GetTask(w)
  PROVE  TaskConservation'
<1> DEFINE q == IF priority_tasks # << >> THEN priority_tasks ELSE tasks
           t == Head(q)
<1> USE DEF TypeOK, TaskConservation
<1>1. q \in Seq(Tasks) /\ q # << >> /\ t \in Tasks /\ q = QueueOf(t) /\ tpc[t] = "queued"
  BY TailPlaces DEF GetTask, QueueOf
<1>2. /\ tpc' = [tpc EXCEPT ![t] = "taken"]
      /\ wpc[w] # "work" /\ wpc' = [wpc EXCEPT ![w] = "work"]
      /\ task' = [task EXCEPT ![w] = t]
      /\ IF t \in PriorityTasks
         THEN priority_tasks' = Tail(priority_tasks) /\ tasks' = tasks
         ELSE tasks' = Tail(tasks) /\ priority_tasks' = priority_tasks
  BY <1>1 DEF GetTask, At, QueueOf
<1> HIDE DEF q, t
<1>3. Once(QueueOf(t), t) /\ \A j \in DOMAIN Tail(q) : Tail(q)[j] # t
  BY <1>1, HeadGone DEF t
<1>4. \A u \in Tasks : tpc'[u] = "queued" => Once(QueueOf(u), u)'
  <2> SUFFICES ASSUME NEW u \in Tasks, tpc'[u] = "queued" PROVE Once(QueueOf(u), u)'
    OBVIOUS
  <2>1. u # t /\ Once(QueueOf(u), u)
    BY <1>1, <1>2
  <2>2. CASE QueueOf(u)' = QueueOf(u)
    BY <2>1, <2>2 DEF Once
  <2>3. CASE u \in PriorityTasks <=> t \in PriorityTasks
    <3>1. QueueOf(u) = q /\ QueueOf(u)' = Tail(q) BY <1>1, <1>2, <2>3 DEF QueueOf
    <3>2. Once(Tail(q), u) BY <1>1, <2>1, <3>1, OnceTail DEF t
    <3> QED BY <3>1, <3>2 DEF Once
  <2> QED BY <1>2, <2>2, <2>3 DEF QueueOf
<1>5. \A j \in DOMAIN Tail(q) : \E i \in DOMAIN q : Tail(q)[j] = q[i] /\ Tail(q)[j] # t
  BY <1>1, <1>3, TailPlaces
<1>9. \A i \in DOMAIN tasks' : tasks'[i] \notin PriorityTasks /\ tpc'[tasks'[i]] = "queued"
  <2>1. CASE t \in PriorityTasks BY <1>1, <1>2, <2>1
  <2>2. CASE t \notin PriorityTasks BY <1>1, <1>2, <1>5, <2>2 DEF QueueOf
  <2> QED BY <2>1, <2>2
<1>10. \A i \in DOMAIN priority_tasks' :
        priority_tasks'[i] \in PriorityTasks /\ tpc'[priority_tasks'[i]] = "queued"
  <2>1. CASE t \notin PriorityTasks BY <1>1, <1>2, <2>1
  <2>2. CASE t \in PriorityTasks BY <1>1, <1>2, <1>5, <2>2 DEF QueueOf
  <2> QED BY <2>1, <2>2
<1>6. \A v \in Workers : wpc[v] = "work" => task[v] # t
  BY <1>1
<1>7. \A u \in Tasks : tpc'[u] = "taken" =>
        \E v \in Workers : wpc'[v] = "work" /\ task'[v] = u
  BY <1>1, <1>2
<1>8. \A v \in Workers : wpc'[v] = "work" =>
        /\ tpc'[task'[v]] = "taken"
        /\ \A x \in Workers : wpc'[x] = "work" /\ task'[x] = task'[v] => x = v
  BY <1>1, <1>2, <1>6
<1> QED BY <1>4, <1>7, <1>8, <1>9, <1>10

\* The initial state and every step of the pool keep the tasks.
LEMMA ConservationInit == Init => TaskConservation
BY DEF Init, TaskConservation

LEMMA ConservationStep ==
  TypeOK /\ MapInv /\ TaskConservation /\ [Next]_vars => TaskConservation'
<1> SUFFICES ASSUME TypeOK, MapInv, TaskConservation, [Next]_vars PROVE TaskConservation'
  OBVIOUS
<1>1. CASE UNCHANGED vars BY <1>1 DEF vars, TaskConservation, Once, QueueOf
<1>2. CASE QuietStep
  BY <1>2 DEF QuietStep, TypeOK, TaskConservation, Once, QueueOf
<1>3. ASSUME NEW t \in Tasks, AddTask(t) PROVE TaskConservation'
  BY <1>3 DEF AddTask, TypeOK, TaskConservation, Once, QueueOf
<1>4. ASSUME NEW w \in Workers, FinishTask(w) PROVE TaskConservation'
  BY <1>4 DEF FinishTask, At, TypeOK, TaskConservation, Once, QueueOf
<1> QED BY <1>1, <1>2, <1>3, <1>4, TaskSteps, ConservationPush, ConservationGet

\* Whatever a shutdown, a lost wakeup or a thread in the wrong list does to the
\* workers, no task is lost, handed out twice or run by two workers.
THEOREM TasksConserved == Spec => []TaskConservation
<1>1. Spec => [](TypeOK /\ MapInv)
  BY TypeCorrect, MapInvariant, PTL
<1> QED BY <1>1, ConservationInit, ConservationStep, PTL DEF Spec

-----------------------------------------------------------------------------
(* The pool inside a program.                                              *)

\* get_task hands out a task that was waiting.
LEMMA TaskTaken ==
  ASSUME TypeOK, TaskConservation, NEW w \in Workers, GetTask(w)
  PROVE  \E t \in Tasks : /\ tpc[t] = "queued" /\ tpc' = [tpc EXCEPT ![t] = "taken"]
                          /\ task' = [task EXCEPT ![w] = t]
                          /\ wpc' = [wpc EXCEPT ![w] = "work"]
<1> DEFINE q == IF priority_tasks # << >> THEN priority_tasks ELSE tasks
<1>1. q \in Seq(Tasks) /\ q # << >>
  BY DEF GetTask, TypeOK
<1>2. Head(q) \in Tasks /\ 1 \in DOMAIN q /\ Head(q) = q[1]
  BY <1>1
<1>3. tpc[Head(q)] = "queued"
  BY <1>1, <1>2 DEF TaskConservation
<1> QED BY <1>2, <1>3 DEF GetTask, At

\* The process dies, and the pool keeps all it holds.
CrashOnly ==
  UNCHANGED <<workerVars, mapVars, taskVars, exit_, pool_state, actorVars>> /\ crashed' = TRUE

LEMMA CrashKeeps ==
  ASSUME TypeOK, MapInv, TaskConservation, CrashOnly
  PROVE  TypeOK' /\ MapInv' /\ TaskConservation'
<1>1. TypeOK' BY DEF TypeOK, CrashOnly
<1>2. MapInv' BY DEF MapInv, CrashOnly
<1>3. TaskConservation' BY DEF TaskConservation, Once, QueueOf, CrashOnly
<1> QED BY <1>1, <1>2, <1>3

\* What the threads of the pool, and the clients, do while the application
\* neither starts nor stops it.
OwnStep ==
  \/ ClientStep
  \/ \E w \in Workers : WorkerStep(w) \/ SpuriousWakeup(w)
  \/ \E a \in Actors : ActorStep(a) \/ Crash(a)

\* It changes exit_ only at the end of stop_handler, which it does not start.
LEMMA OwnSteps ==
  ASSUME TypeOK, OwnStep
  PROVE  /\ exit_' = exit_ \/ SetExit
         /\ pc[Stopper] \in {"off", "done"} => pc'[Stopper] = pc[Stopper]
<1> USE DEF Goto
<1>1. ASSUME NEW w \in Workers, WorkerStep(w) \/ SpuriousWakeup(w) PROVE UNCHANGED <<exit_, pc>>
  BY <1>1 DEF WorkerStep, At, Step, RunLoop, LockMutex, CheckState, SpuriousWakeup, Dispatch,
     GetTask, GetNothing, FinishTask, PauseTest, PauseSet, MoveToIdle, MoveToIdleRefused,
     MoveToIdleErase, RemoveThread, RemoveThreadErase
<1>2. ASSUME NEW a \in Actors, CallStep(a) \/ Crash(a)
      PROVE  /\ exit_' = exit_
             /\ pc[Stopper] \in {"off", "done"} => pc'[Stopper] = pc[Stopper]
  <2>1. exit_' = exit_ /\ (pc' = pc \/ \E x : pc' = [pc EXCEPT ![a] = x] /\ pc[a] \notin {"off", "done"})
    BY <1>2 DEF CallStep, Move, Return, StopRead, StopSet, CallExitTask, ResumeTest, ResumeSet,
       MoveToRunning, MoveToRunningRefused, MoveToRunningErase, Signal, Crash
  <2> QED BY <2>1 DEF TypeOK, Actors
<1>3. ASSUME ManagerStep PROVE exit_' = exit_ /\ pc'[Stopper] = pc[Stopper]
  BY <1>3, NamesAssumption
     DEF TypeOK, Actors, ManagerStep, Move, Call, Tick, TestTasks, CountAwake, AssignLoop, ResumeFirst,
     TestMax, NewThread, InsertIdle, CountIdle, CountRunning, TrimBegin, TrimThread, TrimEnd
<1>4. ASSUME StopperStep PROVE /\ exit_' = exit_ \/ SetExit
                               /\ pc[Stopper] \notin {"off", "done"}
  BY <1>4 DEF StopperStep, WaitRunning, WalkMap, WalkEnd, BeginIdleWalk, SetExit, SetPoolState, Move, Call
<1>5. ASSUME ClientStep PROVE UNCHANGED <<exit_, pc>>
  BY <1>5 DEF ClientStep, AddTask, Push
<1>6. ASSUME NEW a \in Actors, ActorStep(a)
      PROVE  /\ exit_' = exit_ \/ SetExit
             /\ pc[Stopper] \in {"off", "done"} => pc'[Stopper] = pc[Stopper]
  BY <1>2, <1>3, <1>4, <1>6 DEF ActorStep
<1> QED BY <1>1, <1>2, <1>5, <1>6 DEF OwnStep

\* Only the end of stop_handler sets exit_, and only init resets it.
LEMMA ExitSteps ==
  ASSUME TypeOK, Next
  PROVE  exit_' = exit_ \/ SetExit \/ StartPool
BY OwnSteps DEF Next, SteadyNext, OwnStep, BeginShutdown

-----------------------------------------------------------------------------
(* Refinement.                                                             *)

\* The pool implements TaskService: every task is accepted, handed out and
\* finished at most once, priority tasks first and each kind in the order of
\* acceptance, through every interleaving of workers, manager and shutdown.
THEOREM PoolImplementsService == Spec => ImplementsService
<1> USE DEF Service!vars
<1>1. Init => Service!Init
  BY DEF Init, Service!Init
<1>2. TypeOK /\ MapInv /\ TaskConservation /\ [Next]_vars => [Service!Next]_Service!vars
  <2> SUFFICES ASSUME TypeOK, MapInv, TaskConservation, [Next]_vars
               PROVE  Service!Next \/ UNCHANGED Service!vars
    OBVIOUS
  <2>1. CASE UNCHANGED vars BY <2>1 DEF vars
  <2>2. CASE QuietStep BY <2>2 DEF QuietStep
  <2>3. ASSUME NEW t \in Tasks, AddTask(t) PROVE UNCHANGED Service!vars
    BY <2>3 DEF AddTask, TypeOK
  <2>4. ASSUME NEW t \in Tasks, Push(t) PROVE Service!Accept(t)
    BY <2>4 DEF Push, TypeOK, Service!Accept
  <2>5. ASSUME NEW w \in Workers, GetTask(w) PROVE \E t \in Tasks : Service!Give(t)
    <3> DEFINE q == IF priority_tasks # << >> THEN priority_tasks ELSE tasks
               t == Head(q)
    <3>1. q \in Seq(Tasks) /\ q # << >> BY <2>5 DEF GetTask, TypeOK
    <3>2. t \in Tasks /\ tpc[t] = "queued"
      BY <3>1, TailPlaces DEF TypeOK, TaskConservation
    <3>3. tpc' = [tpc EXCEPT ![t] = "taken"] BY <2>5 DEF GetTask
    <3>4. \/ priority_tasks # << >> /\ priority_tasks' = Tail(priority_tasks)
             /\ t = Head(priority_tasks) /\ UNCHANGED tasks
          \/ priority_tasks = << >> /\ tasks # << >> /\ tasks' = Tail(tasks)
             /\ t = Head(tasks) /\ UNCHANGED priority_tasks
      BY <2>5 DEF GetTask
    <3> HIDE DEF q, t
    <3> QED BY <3>2, <3>3, <3>4 DEF TypeOK, Service!Give
  <2>6. ASSUME NEW w \in Workers, FinishTask(w) PROVE \E t \in Tasks : Service!Finish(t)
    <3>1. PICK t \in Tasks : /\ tpc[t] = "taken" /\ tpc' = [tpc EXCEPT ![t] = "done"]
                              /\ UNCHANGED <<tasks, priority_tasks>>
      <4>1. task[w] \in Tasks /\ tpc[task[w]] = "taken"
        BY <2>6 DEF FinishTask, At, TypeOK, TaskConservation
      <4>2. tpc' = [tpc EXCEPT ![task[w]] = "done"] /\ UNCHANGED <<tasks, priority_tasks>>
        BY <2>6 DEF FinishTask
      <4> QED BY <4>1, <4>2
    <3>2. \A u \in Tasks : tpc'[u] = IF u = t THEN "done" ELSE tpc[u] BY <3>1 DEF TypeOK
    <3>3. {u \in Tasks : tpc'[u] = "done"} = {u \in Tasks : tpc[u] = "done"} \cup {t}
      BY <3>2
    <3>4. /\ {u \in Tasks : tpc'[u] \in {"queued", "taken", "done"}} =
               {u \in Tasks : tpc[u] \in {"queued", "taken", "done"}}
          /\ {u \in Tasks : tpc'[u] \in {"taken", "done"}} =
               {u \in Tasks : tpc[u] \in {"taken", "done"}}
      BY <3>1, <3>2
    <3>5. Service!Finish(t) BY <3>1, <3>3, <3>4 DEF Service!Finish
    <3> QED BY <3>5
  <2> QED BY <2>1, <2>2, <2>3, <2>4, <2>5, <2>6, TaskSteps DEF Service!Next
<1> QED BY <1>1, <1>2, TypeCorrect, MapInvariant, TasksConserved, PTL
        DEF Spec, ImplementsService, Service!Spec

=============================================================================
