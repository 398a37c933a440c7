----------------------------- MODULE WorkThread -----------------------------
(***************************************************************************)
(* The worker threads of the pool of src/src/thread.cc and the members     *)
(* other threads call on them: run_handler with pause and the ThreadPool   *)
(* members it calls (get_task, thread_move_to_idle_map, remove_thread), and *)
(* stop_handler and resume.  Module ThreadPool adds the clients, the       *)
(* manager thread and the caller of ThreadPool::stop_handler.              *)
(*                                                                         *)
(* state_, exit_, the sizes, begin() and the iterators of the two thread   *)
(* maps are read and written outside the mutexes, so each such access is a *)
(* step of its own.  A critical section of task_mutex_ is one step (module *)
(* TaskQueue shows why that is enough).  A critical section of             *)
(* thread_mutex_ is two steps, because unlocked readers can see its middle.*)
(***************************************************************************)
EXTENDS Integers, Sequences, FiniteSets

CONSTANTS
  Workers,         \* addresses a WorkThread object can get (bound: never reused)
  Tasks,           \* the tasks the clients submit, each at most once
  BlockingTasks,   \* those whose work_func returns only after exit_task was called
  Manager, Stopper, Free, None

Actors == {Manager, Stopper}   \* the threads that call members of a WorkThread

ASSUME WorkersAssumption == Workers \subseteq Nat /\ IsFiniteSet(Workers)
ASSUME TasksAssumption == BlockingTasks \subseteq Tasks /\ None \notin Tasks
ASSUME NamesAssumption ==
  /\ Manager # Stopper
  /\ Free \notin Workers \cup Actors
  /\ None \notin Workers
  /\ Workers \cap Actors = {}

VARIABLES
  wpc,             \* where each worker thread is in WorkThread::run_handler
  state,           \* WorkThread::state_
  object,          \* the life of the WorkThread object
  task,            \* WorkThread::task_; None while it is uninitialised
  idle_threads,    \* keys of ThreadPool::idle_threads_
  runing_threads,  \* keys of ThreadPool::runing_threads_
  thread_mutex,    \* owner of thread_mutex_
  tasks,           \* tasks_
  priority_tasks,  \* priority_tasks_
  tpc,             \* progress of each task, from the client's call to its end
  exitCalled,      \* tasks whose exit_task has been called
  exit_,           \* ThreadPool::exit_
  pool_state,      \* ThreadPool::state_
  pc,              \* where the manager and the stopper are
  target,          \* the WorkThread an actor is calling a member of
  old_state,       \* local of WorkThread::stop_handler
  ret,             \* where the call returns to
  iter,            \* the actor's map iterator; None is end()
  awake,           \* awake_threads - i, local of manage_work_threads
  cnt,             \* workthread_cnt, local of manage_work_threads
  crashed          \* a use of freed memory ended the process

workerVars == <<wpc, state, object, task>>
mapVars    == <<idle_threads, runing_threads, thread_mutex>>
taskVars   == <<tasks, priority_tasks, tpc, exitCalled>>
poolVars   == <<exit_, pool_state, crashed>>
callVars   == <<target, old_state, ret>>
loopVars   == <<iter, awake, cnt>>
actorVars  == <<pc, callVars, loopVars>>
vars == <<workerVars, mapVars, taskVars, poolVars, actorVars>>

ThreadState == {"WAITING", "RUNNING", "EXIT"}

\* state_ of a live object; the memory of a deleted one may hold anything.
Seen(w) == IF object[w] = "live" THEN {state[w]} ELSE ThreadState
Store(w, s) == state' = IF object[w] = "live" THEN [state EXCEPT ![w] = s] ELSE state

-----------------------------------------------------------------------------
(* WorkThread::run_handler and the members it calls.                       *)

At(w, from, to) == wpc[w] = from /\ wpc' = [wpc EXCEPT ![w] = to]

\* Worker w moves on and changes nothing else.
Step(w, from, to) ==
  At(w, from, to) /\ UNCHANGED <<state, object, task, mapVars, taskVars, poolVars, actorVars>>

\* while (state_ != WorkThread_EXIT)
RunLoop(w) == Step(w, "loop", IF state[w] = "EXIT" THEN "remove" ELSE "lock")

\* mutex_.lock(), or taking it back inside pthread_cond_wait.  The worker
\* holds mutex_ exactly while it is at "check".
LockMutex(w) == Step(w, "lock", "check")

\* while (state_ == WorkThread_WAITING) thread_cond_wait();  mutex_.unlock();
CheckState(w) == Step(w, "check", IF state[w] = "WAITING" THEN "blocked" ELSE "dispatch")

\* POSIX lets pthread_cond_wait return without a signal.
SpuriousWakeup(w) == Step(w, "blocked", "lock")

\* if (state_ == WorkThread_RUNNING)
Dispatch(w) == Step(w, "dispatch", IF state[w] = "RUNNING" THEN "get_task" ELSE "pause")

\* Mutants: normal tasks first; the task is read and not removed.
GetNormalFirst(w) ==
  LET t == Head(IF tasks # << >> THEN tasks ELSE priority_tasks)
  IN /\ priority_tasks # << >> \/ tasks # << >>
     /\ At(w, "get_task", "work")
     /\ task' = [task EXCEPT ![w] = t]
     /\ tpc' = [tpc EXCEPT ![t] = "taken"]
     /\ priority_tasks' = IF tasks = << >> THEN Tail(priority_tasks) ELSE priority_tasks
     /\ tasks' = IF tasks = << >> THEN tasks ELSE Tail(tasks)
     /\ UNCHANGED <<state, object, mapVars, exitCalled, poolVars, actorVars>>

PeekTask(w) ==
  LET t == Head(IF priority_tasks # << >> THEN priority_tasks ELSE tasks)
  IN /\ priority_tasks # << >> \/ tasks # << >>
     /\ At(w, "get_task", "work")
     /\ task' = [task EXCEPT ![w] = t]
     /\ tpc' = [tpc EXCEPT ![t] = "taken"]
     /\ UNCHANGED <<tasks, priority_tasks, state, object, mapVars, exitCalled, poolVars, actorVars>>

\* ThreadPool::get_task, under task_mutex_: priority tasks first.
GetTask(w) ==
  LET urgent == priority_tasks # << >>
      t == Head(IF urgent THEN priority_tasks ELSE tasks)
  IN /\ urgent \/ tasks # << >>
     /\ At(w, "get_task", "work")
     /\ task' = [task EXCEPT ![w] = t]
     /\ tpc' = [tpc EXCEPT ![t] = "taken"]
     /\ priority_tasks' = IF urgent THEN Tail(priority_tasks) ELSE priority_tasks
     /\ tasks' = IF urgent THEN tasks ELSE Tail(tasks)
     /\ UNCHANGED <<state, object, mapVars, exitCalled, poolVars, actorVars>>

GetNothing(w) ==
  priority_tasks = << >> /\ tasks = << >> /\ Step(w, "get_task", "pause")

\* work_func returns.  task_ keeps the task that is over.
FinishTask(w) ==
  /\ At(w, "work", "pause")
  /\ task[w] \in BlockingTasks => task[w] \in exitCalled
  /\ tpc' = [tpc EXCEPT ![task[w]] = "done"]
  /\ UNCHANGED <<state, object, task, mapVars, tasks, priority_tasks, exitCalled,
                 poolVars, actorVars>>

\* Mutants: pause() without the test, and without the assignment.
PauseTestDropped(w) == Step(w, "pause", "set_waiting")
PauseSetDropped(w) == Step(w, "set_waiting", "to_idle")

\* WorkThread::pause: the test of state_ that precedes the lock ...
PauseTest(w) == Step(w, "pause", IF state[w] = "RUNNING" THEN "set_waiting" ELSE "loop")

\* ... and the assignment under it, whatever state_ holds by then.
PauseSet(w) ==
  /\ At(w, "set_waiting", "to_idle")
  /\ Store(w, "WAITING")
  /\ UNCHANGED <<object, task, mapVars, taskVars, poolVars, actorVars>>

\* ThreadPool::thread_move_to_idle_map: lock, the two finds, the insertion ...
MoveToIdle(w) ==
  /\ thread_mutex = Free
  /\ w \in runing_threads \ idle_threads
  /\ At(w, "to_idle", "to_idle_erase")
  /\ thread_mutex' = w
  /\ idle_threads' = idle_threads \cup {w}
  /\ UNCHANGED <<state, object, task, runing_threads, taskVars, poolVars, actorVars>>

MoveToIdleRefused(w) ==
  /\ thread_mutex = Free
  /\ w \notin runing_threads \ idle_threads
  /\ Step(w, "to_idle", "loop")

\* Mutant: the thread stays in runing_threads_.
MoveToIdleNotErased(w) ==
  /\ At(w, "to_idle_erase", "loop")
  /\ thread_mutex' = Free
  /\ UNCHANGED <<state, object, task, idle_threads, runing_threads, taskVars, poolVars, actorVars>>

\* ... the erasure and the unlock.
MoveToIdleErase(w) ==
  /\ At(w, "to_idle_erase", "loop")
  /\ runing_threads' = runing_threads \ {w}
  /\ thread_mutex' = Free
  /\ UNCHANGED <<state, object, task, idle_threads, taskVars, poolVars, actorVars>>

\* Mutants: remove_thread that searches idle_threads_ only, or does not lock.
RemoveIdleThread(w) ==
  /\ thread_mutex = Free
  /\ At(w, "remove", "erase")
  /\ thread_mutex' = w
  /\ object' = [object EXCEPT ![w] = IF w \in idle_threads THEN "deleted" ELSE @]
  /\ UNCHANGED <<state, task, idle_threads, runing_threads, taskVars, poolVars, actorVars>>

RemoveThreadUnlocked(w) ==
  /\ At(w, "remove", "erase")
  /\ object' = [object EXCEPT ![w] = IF w \in idle_threads \cup runing_threads
                                     THEN "deleted" ELSE @]
  /\ UNCHANGED <<state, task, mapVars, taskVars, poolVars, actorVars>>

\* ThreadPool::remove_thread(this): lock, find, delete ...
RemoveThread(w) ==
  /\ thread_mutex = Free
  /\ At(w, "remove", "erase")
  /\ thread_mutex' = w
  /\ object' = [object EXCEPT ![w] = IF w \in idle_threads \cup runing_threads
                                     THEN "deleted" ELSE @]
  /\ UNCHANGED <<state, task, idle_threads, runing_threads, taskVars, poolVars, actorVars>>

\* ... erase and unlock; the thread then ends.
RemoveThreadErase(w) ==
  /\ At(w, "erase", "gone")
  /\ idle_threads' = idle_threads \ {w}
  /\ runing_threads' = runing_threads \ {w}
  /\ thread_mutex' = Free
  /\ UNCHANGED <<state, object, task, taskVars, poolVars, actorVars>>

WorkerStep(w) ==
  \/ RunLoop(w) \/ LockMutex(w) \/ CheckState(w) \/ Dispatch(w)
  \/ GetTask(w) \/ GetNothing(w) \/ FinishTask(w) \/ PauseTest(w) \/ PauseSet(w)
  \/ MoveToIdle(w) \/ MoveToIdleRefused(w) \/ MoveToIdleErase(w)
  \/ RemoveThread(w) \/ RemoveThreadErase(w)

-----------------------------------------------------------------------------
(* WorkThread::stop_handler and WorkThread::resume, run by actor a on      *)
(* target[a].                                                              *)

Goto(a, from, to) == pc[a] = from /\ pc' = [pc EXCEPT ![a] = to]

\* Actor a moves on and changes nothing else.
Move(a, from, to) ==
  Goto(a, from, to) /\ UNCHANGED <<workerVars, mapVars, taskVars, poolVars, callVars, loopVars>>

\* Actor a, at `from`, calls the member function `entry` of worker w.
Call(a, from, entry, w) ==
  /\ Goto(a, from, entry)
  /\ target' = [target EXCEPT ![a] = w]
  /\ ret' = [ret EXCEPT ![a] = IF from = "begin" THEN "assign" ELSE from]
  /\ UNCHANGED old_state

Return(a, from) ==
  /\ Goto(a, from, ret[a])
  /\ target' = [target EXCEPT ![a] = None]
  /\ old_state' = [old_state EXCEPT ![a] = None]
  /\ UNCHANGED ret

\* int old_state = state_;
StopRead(a) ==
  /\ Goto(a, "stop", "set_exit")
  /\ \E s \in Seen(target[a]) : old_state' = [old_state EXCEPT ![a] = s]
  /\ UNCHANGED <<workerVars, mapVars, taskVars, poolVars, target, ret, loopVars>>

\* Mutant: an idle thread is not woken up.
StopSetSilent(a) ==
  /\ IF old_state[a] = "RUNNING"
     THEN Goto(a, "set_exit", "call_exit") /\ UNCHANGED callVars
     ELSE Return(a, "set_exit")
  /\ Store(target[a], "EXIT")
  /\ UNCHANGED <<wpc, object, task, mapVars, taskVars, poolVars, loopVars>>

\* state_ = WorkThread_EXIT, and the branch on old_state.
StopSet(a) ==
  /\ \/ old_state[a] = "RUNNING" /\ Goto(a, "set_exit", "call_exit") /\ UNCHANGED callVars
     \/ old_state[a] = "WAITING" /\ Goto(a, "set_exit", "resume") /\ UNCHANGED callVars
     \/ old_state[a] = "EXIT" /\ Return(a, "set_exit")
  /\ Store(target[a], "EXIT")
  /\ UNCHANGED <<wpc, object, task, mapVars, taskVars, poolVars, loopVars>>

\* task_.exit_task(task_.exit_arg), for the task task_ holds at this moment;
\* freed memory may or may not hold it still.
CallExitTask(a) ==
  /\ Return(a, "call_exit")
  /\ \E t \in {task[target[a]]} \cup (IF object[target[a]] = "live" THEN {} ELSE {None}) :
       exitCalled' = exitCalled \cup ({t} \ {None})
  /\ UNCHANGED <<workerVars, mapVars, tasks, priority_tasks, tpc, poolVars, loopVars>>

\* resume: if (state_ == WorkThread_WAITING)
ResumeTest(a) ==
  /\ pc[a] = "resume"
  /\ \E s \in Seen(target[a]) :
       Move(a, "resume", IF s = "WAITING" THEN "set_running" ELSE "signal")

\* Mutant: the thread is not moved to runing_threads_.
ResumeSetInPlace(a) ==
  /\ Goto(a, "set_running", "signal")
  /\ Store(target[a], "RUNNING")
  /\ UNCHANGED <<wpc, object, task, mapVars, taskVars, poolVars, callVars, loopVars>>

\* state_ = WorkThread_RUNNING, under no lock
ResumeSet(a) ==
  /\ Goto(a, "set_running", "to_running")
  /\ Store(target[a], "RUNNING")
  /\ UNCHANGED <<wpc, object, task, mapVars, taskVars, poolVars, callVars, loopVars>>

\* ThreadPool::thread_move_to_running_map, in two steps as above
MoveToRunning(a) ==
  /\ thread_mutex = Free
  /\ target[a] \in idle_threads \ runing_threads
  /\ Goto(a, "to_running", "to_running_erase")
  /\ thread_mutex' = a
  /\ runing_threads' = runing_threads \cup {target[a]}
  /\ UNCHANGED <<workerVars, idle_threads, taskVars, poolVars, callVars, loopVars>>

MoveToRunningRefused(a) ==
  /\ thread_mutex = Free
  /\ target[a] \notin idle_threads \ runing_threads
  /\ Move(a, "to_running", "signal")

\* Mutants: no signal afterwards; no unlock.
MoveToRunningSilent(a) ==
  /\ Return(a, "to_running_erase")
  /\ idle_threads' = idle_threads \ {target[a]}
  /\ thread_mutex' = Free
  /\ UNCHANGED <<workerVars, runing_threads, taskVars, poolVars, loopVars>>

MoveToRunningLocked(a) ==
  /\ Goto(a, "to_running_erase", "signal")
  /\ idle_threads' = idle_threads \ {target[a]}
  /\ UNCHANGED <<workerVars, runing_threads, thread_mutex, taskVars, poolVars, callVars, loopVars>>

MoveToRunningErase(a) ==
  /\ Goto(a, "to_running_erase", "signal")
  /\ idle_threads' = idle_threads \ {target[a]}
  /\ thread_mutex' = Free
  /\ UNCHANGED <<workerVars, runing_threads, taskVars, poolVars, callVars, loopVars>>

\* Mutant: the signal is lost.
SignalNobody(a) ==
  /\ Return(a, "signal")
  /\ wpc[target[a]] # "check"
  /\ UNCHANGED <<workerVars, mapVars, taskVars, poolVars, loopVars>>

\* mutex_.lock(); thread_cond_signal(); mutex_.unlock();
Signal(a) ==
  LET w == target[a] IN
  /\ Return(a, "signal")
  /\ wpc[w] # "check"
  /\ wpc' = IF wpc[w] = "blocked" THEN [wpc EXCEPT ![w] = "lock"] ELSE wpc
  /\ UNCHANGED <<state, object, task, mapVars, taskVars, poolVars, loopVars>>

CallStep(a) ==
  \/ StopRead(a) \/ StopSet(a) \/ CallExitTask(a) \/ ResumeTest(a) \/ ResumeSet(a)
  \/ MoveToRunning(a) \/ MoveToRunningRefused(a) \/ MoveToRunningErase(a) \/ Signal(a)

=============================================================================
