----------------------------- MODULE ThreadPool -----------------------------
(***************************************************************************)
(* The thread pool of src/src/thread.cc: the worker threads of module      *)
(* WorkThread, the callers of add_task and add_priority_task, the manager  *)
(* thread (ThreadPool::run_handler) and the thread of the application that *)
(* starts the pool and calls ThreadPool::stop_handler, interleaved at      *)
(* every access to data that two of them can touch without a common lock.  *)
(***************************************************************************)
EXTENDS WorkThread

CONSTANTS
  InitWorkers,     \* the WorkThreads the constructor created
  PriorityTasks,   \* the tasks submitted with add_priority_task
  MinThreads,      \* thread_pool_config_.min_thread_num
  MaxThreads,      \* thread_pool_config_.max_thread_num
  ExitActions,     \* whether threadpool_exit_action may be WAIT_FOR_ALL_TASKS_FINISHED
  TimeoutResults,  \* the values idle_timeout() may return
  SpawnResults     \* the values "pthread_create succeeded" may take

ASSUME InitWorkersAssumption == InitWorkers \subseteq Workers
ASSUME PriorityAssumption == PriorityTasks \subseteq Tasks
ASSUME ConfigAssumption ==
  /\ MinThreads \in Nat
  /\ MaxThreads \in Nat
  /\ ExitActions \subseteq BOOLEAN
  /\ TimeoutResults \subseteq BOOLEAN
  /\ SpawnResults \subseteq BOOLEAN

\* begin() of a std::map keyed by address; end() when the map is empty.
Begin(S) == IF S = {} THEN {None} ELSE {w \in S : \A v \in S : w <= v}

\* ++it.  A node that was erased still holds links, to nobody knows where.
Increment(S, w) == IF w \in S THEN Begin({v \in S : v > w}) ELSE S \cup {None}

PutIter(a, S) == \E i \in S : iter' = [iter EXCEPT ![a] = i]

-----------------------------------------------------------------------------
(* Clients: add_task and add_priority_task.                                *)

\* The test of exit_ that precedes the lock.
AddTask(t) ==
  /\ tpc[t] = "new"
  /\ tpc' = [tpc EXCEPT ![t] = IF exit_ THEN "rejected" ELSE "admitted"]
  /\ UNCHANGED <<workerVars, mapVars, tasks, priority_tasks, exitCalled, poolVars, actorVars>>

\* The push, under task_mutex_.
Push(t) ==
  /\ tpc[t] = "admitted"
  /\ tpc' = [tpc EXCEPT ![t] = "queued"]
  /\ IF t \in PriorityTasks
     THEN priority_tasks' = Append(priority_tasks, t) /\ UNCHANGED tasks
     ELSE tasks' = Append(tasks, t) /\ UNCHANGED priority_tasks
  /\ UNCHANGED <<workerVars, mapVars, exitCalled, poolVars, actorVars>>

ClientStep == \E t \in Tasks : AddTask(t) \/ Push(t)

-----------------------------------------------------------------------------
(* The manager: ThreadPool::init, run_handler, manage_work_threads(false). *)

\* Thread::init of the pool: start_handler, then pthread_create.
StartPool ==
  /\ pc[Stopper] \in {"off", "done"}
  /\ Goto(Manager, "off", "tick")
  /\ exit_' = FALSE
  /\ pool_state' = "RUNNING"
  /\ UNCHANGED <<workerVars, mapVars, taskVars, crashed, callVars, loopVars>>

\* while (!exit_) { os_sleep(100); ... }
Tick == Move(Manager, "tick", IF exit_ THEN "done" ELSE "tasks")

\* Mutant: tasks_.size() > 1.
TestTasksAboveOne == Move(Manager, "tasks", IF Len(tasks) > 1 THEN "awake" ELSE "count_idle")

\* if (tasks_.size() > 0): unlocked, and blind to priority_tasks_
TestTasks == Move(Manager, "tasks", IF tasks # << >> THEN "awake" ELSE "count_idle")

\* int awake_threads = tasks_.size() / 2 + 1;
CountAwake ==
  /\ Goto(Manager, "awake", "assign")
  /\ awake' = Len(tasks) \div 2 + 1
  /\ UNCHANGED <<workerVars, mapVars, taskVars, poolVars, callVars, iter, cnt>>

\* Mutant: i <= awake_threads.
AssignOneMore ==
  Move(Manager, "assign", IF idle_threads # {} THEN "begin"
                          ELSE IF awake = 0 THEN "count_idle" ELSE "full")

\* for (...; i < awake_threads; ...)  if (idle_threads_.size() > 0)
AssignLoop ==
  Move(Manager, "assign", IF awake = 0 THEN "count_idle"
                          ELSE IF idle_threads # {} THEN "begin" ELSE "full")

\* idle_threads_.begin()->second->resume()
ResumeFirst ==
  /\ \E w \in Begin(idle_threads) \ {None} : Call(Manager, "begin", "resume", w)
  /\ awake' = awake - 1
  /\ UNCHANGED <<workerVars, mapVars, taskVars, poolVars, iter, cnt>>

\* if (runing_threads_.size() < max_thread_num) ... else break
TestMax ==
  Move(Manager, "full",
       IF Cardinality(runing_threads) < MaxThreads THEN "new" ELSE "count_idle")

\* new WorkThread(this), init(): start_handler and pthread_create, whose
\* failure nobody looks at.  Bounded by Workers.
NewThread ==
  \E w \in Workers, spawned \in SpawnResults :
    /\ object[w] = "none"
    /\ Goto(Manager, "new", "insert")
    /\ object' = [object EXCEPT ![w] = "live"]
    /\ state' = [state EXCEPT ![w] = "WAITING"]
    /\ wpc' = [wpc EXCEPT ![w] = IF spawned THEN "loop" ELSE "no_thread"]
    /\ target' = [target EXCEPT ![Manager] = w]
    /\ UNCHANGED <<task, mapVars, taskVars, poolVars, old_state, ret, loopVars>>

\* idle_threads_[(int64_t)work_thread] = work_thread, under no lock; --i; continue
InsertIdle ==
  /\ Goto(Manager, "insert", "assign")
  /\ idle_threads' = idle_threads \cup {target[Manager]}
  /\ target' = [target EXCEPT ![Manager] = None]
  /\ UNCHANGED <<workerVars, runing_threads, thread_mutex, taskVars, poolVars,
                 old_state, ret, loopVars>>

\* workthread_cnt = idle_threads_.size() + runing_threads_.size()
CountIdle ==
  /\ Goto(Manager, "count_idle", "count_running")
  /\ cnt' = Cardinality(idle_threads)
  /\ UNCHANGED <<workerVars, mapVars, taskVars, poolVars, callVars, iter, awake>>

CountRunning ==
  /\ Goto(Manager, "count_running", "trim_begin")
  /\ cnt' = cnt + Cardinality(runing_threads)
  /\ UNCHANGED <<workerVars, mapVars, taskVars, poolVars, callVars, iter, awake>>

TrimBegin ==
  /\ Goto(Manager, "trim_begin", "trim")
  /\ PutIter(Manager, Begin(idle_threads))
  /\ UNCHANGED <<workerVars, mapVars, taskVars, poolVars, callVars, awake, cnt>>

\* auto stop_iter = iter++, and stop_iter->second->idle_timeout()
TrimThread(timeout) ==
  /\ iter[Manager] # None
  /\ IF timeout /\ cnt > MinThreads
     THEN Call(Manager, "trim", "stop", iter[Manager]) /\ cnt' = cnt - 1
     ELSE Goto(Manager, "trim", "trim") /\ UNCHANGED <<callVars, cnt>>
  /\ PutIter(Manager, Increment(idle_threads, iter[Manager]))
  /\ UNCHANGED <<workerVars, mapVars, taskVars, poolVars, awake>>

\* iter == end(): back to run_handler's loop
TrimEnd ==
  /\ iter[Manager] = None
  /\ Goto(Manager, "trim", "tick")
  /\ cnt' = 0
  /\ awake' = 0
  /\ UNCHANGED <<workerVars, mapVars, taskVars, poolVars, callVars, iter>>

ManagerStep ==
  \/ Tick \/ TestTasks \/ CountAwake \/ AssignLoop \/ ResumeFirst \/ TestMax
  \/ NewThread \/ InsertIdle \/ CountIdle \/ CountRunning \/ TrimBegin \/ TrimEnd
  \/ \E timeout \in TimeoutResults : TrimThread(timeout)

-----------------------------------------------------------------------------
(* ThreadPool::stop_handler and shutdown_all_threads.                      *)

\* begin() of runing_threads_, or the waiting loop, by exit action.
BeginShutdown(wait) ==
  /\ Goto(Stopper, "off", IF wait THEN "wait_running" ELSE "walk_running")
  /\ PutIter(Stopper, IF wait THEN {None} ELSE Begin(runing_threads))
  /\ UNCHANGED <<workerVars, mapVars, taskVars, poolVars, callVars, awake, cnt>>

\* while (runing_threads_.size() > 0) os_sleep(...): both of these loops
WaitRunning(from, to) == runing_threads = {} /\ Move(Stopper, from, to)

\* auto stop_iter = iter++; stop_iter->second->stop_handler()
WalkMap(S, from) ==
  /\ iter[Stopper] # None
  /\ Call(Stopper, from, "stop", iter[Stopper])
  /\ PutIter(Stopper, Increment(S, iter[Stopper]))
  /\ UNCHANGED <<workerVars, mapVars, taskVars, poolVars, awake, cnt>>

WalkEnd(from, to) == iter[Stopper] = None /\ Move(Stopper, from, to)

BeginIdleWalk ==
  /\ Goto(Stopper, "idle_begin", "walk_idle")
  /\ PutIter(Stopper, Begin(idle_threads))
  /\ UNCHANGED <<workerVars, mapVars, taskVars, poolVars, callVars, awake, cnt>>

\* exit_ = true: only now, after shutdown_all_threads
SetExit ==
  /\ Goto(Stopper, "exit_flag", "exit_state")
  /\ exit_' = TRUE
  /\ UNCHANGED <<workerVars, mapVars, taskVars, pool_state, crashed, callVars, loopVars>>

SetPoolState ==
  /\ Goto(Stopper, "exit_state", "done")
  /\ pool_state' = "EXIT"
  /\ UNCHANGED <<workerVars, mapVars, taskVars, exit_, crashed, callVars, loopVars>>

StopperStep ==
  \/ WaitRunning("wait_running", "drain") \/ WaitRunning("drain", "idle_begin")
  \/ WalkMap(runing_threads, "walk_running") \/ WalkEnd("walk_running", "drain")
  \/ BeginIdleWalk
  \/ WalkMap(idle_threads, "walk_idle") \/ WalkEnd("walk_idle", "exit_flag")
  \/ SetExit \/ SetPoolState

-----------------------------------------------------------------------------
(* Undefined behaviour: the step an actor is about to take reads memory    *)
(* that is not there.  The process may crash; otherwise the step sees      *)
(* stale contents (Seen, Store, Increment).                                *)

InMember(a) ==
  pc[a] \in {"stop", "set_exit", "call_exit", "resume", "set_running", "to_running", "signal"}

Dangles(a) ==
  \/ InMember(a) /\ object[target[a]] = "deleted"
  \/ pc[a] = "call_exit" /\ task[target[a]] = None
  \/ pc[a] = "begin" /\ idle_threads = {}
  \/ pc[a] \in {"trim", "walk_idle"} /\ iter[a] \notin idle_threads \cup {None}
  \/ pc[a] = "walk_running" /\ iter[a] \notin runing_threads \cup {None}
  \/ pc[a] = "trim" /\ iter[a] # None /\ object[iter[a]] = "deleted"

Crash(a) ==
  /\ Dangles(a)
  /\ crashed' = TRUE
  /\ UNCHANGED <<workerVars, mapVars, taskVars, exit_, pool_state, actorVars>>

-----------------------------------------------------------------------------

\* The constructor's manage_work_threads(true) has run.
Init ==
  /\ wpc = [w \in Workers |-> IF w \in InitWorkers THEN "loop" ELSE "unborn"]
  /\ state = [w \in Workers |-> "WAITING"]
  /\ object = [w \in Workers |-> IF w \in InitWorkers THEN "live" ELSE "none"]
  /\ task = [w \in Workers |-> None]
  /\ idle_threads = InitWorkers
  /\ runing_threads = {}
  /\ thread_mutex = Free
  /\ tasks = << >>
  /\ priority_tasks = << >>
  /\ tpc = [t \in Tasks |-> "new"]
  /\ exitCalled = {}
  /\ exit_ = FALSE
  /\ pool_state = "WAITING"
  /\ crashed = FALSE
  /\ pc = [a \in Actors |-> "off"]
  /\ target = [a \in Actors |-> None]
  /\ old_state = [a \in Actors |-> None]
  /\ ret = [a \in Actors |-> "off"]
  /\ iter = [a \in Actors |-> None]
  /\ awake = 0
  /\ cnt = 0

ActorStep(a) ==
  \/ CallStep(a)
  \/ a = Manager /\ ManagerStep
  \/ a = Stopper /\ StopperStep

\* Everything but the application's call of ThreadPool::stop_handler.
SteadyNext ==
  /\ ~crashed
  /\ \/ ClientStep
     \/ StartPool
     \/ \E w \in Workers : WorkerStep(w) \/ SpuriousWakeup(w)
     \/ \E a \in Actors : ActorStep(a) \/ Crash(a)

Next == SteadyNext \/ (~crashed /\ \E wait \in ExitActions : BeginShutdown(wait))

Spec == Init /\ [][Next]_vars
SteadySpec == Init /\ [][SteadyNext]_vars

\* The operating system runs every thread that can run, and a thread that
\* waits for the mutex_ of a worker gets it although the worker takes it again
\* and again (spurious wakeups).  A step that can only crash does.  Nothing
\* makes a client call, the application start or stop the pool, or a wakeup
\* happen without a signal.
Fairness ==
  /\ \A w \in Workers : WF_vars(~crashed /\ WorkerStep(w))
  /\ \A a \in Actors : WF_vars(~crashed /\ (ActorStep(a) \/ Crash(a)))
                       /\ SF_vars(~crashed /\ Signal(a))
  /\ \A t \in Tasks : WF_vars(~crashed /\ Push(t))

FairSpec == Spec /\ Fairness
FairSteadySpec == SteadySpec /\ Fairness

\* The bound on addresses stops the manager: the code has no such limit.
OutOfAddresses == pc[Manager] = "new" /\ \A w \in Workers : object[w] # "none"

-----------------------------------------------------------------------------
(* Types.                                                                  *)

WorkerPC == {"unborn", "no_thread", "loop", "lock", "check", "blocked", "dispatch",
             "get_task", "work", "pause", "set_waiting", "to_idle", "to_idle_erase",
             "remove", "erase", "gone"}
ManagerPC == {"tick", "tasks", "awake", "assign", "begin", "full", "new", "insert",
              "count_idle", "count_running", "trim_begin", "trim"}
StopperPC == {"wait_running", "walk_running", "drain", "idle_begin", "walk_idle",
              "exit_flag", "exit_state"}
CallPC == {"stop", "set_exit", "call_exit", "resume", "set_running", "to_running",
           "to_running_erase", "signal"}
ReturnPC == {"off", "assign", "trim", "walk_running", "walk_idle"}
ActorPC == {"off", "done"} \cup ManagerPC \cup StopperPC \cup CallPC

\* The type invariant: every variable of the pool, its threads and their
\* locals stays in its domain, and an actor inside a member function of a
\* WorkThread has a WorkThread to run it on.
TypeOK ==
  /\ wpc \in [Workers -> WorkerPC]
  /\ state \in [Workers -> ThreadState]
  /\ object \in [Workers -> {"none", "live", "deleted"}]
  /\ task \in [Workers -> Tasks \cup {None}]
  /\ idle_threads \subseteq Workers
  /\ runing_threads \subseteq Workers
  /\ thread_mutex \in Workers \cup Actors \cup {Free}
  /\ tasks \in Seq(Tasks)
  /\ priority_tasks \in Seq(Tasks)
  /\ tpc \in [Tasks -> {"new", "rejected", "admitted", "queued", "taken", "done"}]
  /\ exitCalled \subseteq Tasks
  /\ exit_ \in BOOLEAN
  /\ pool_state \in ThreadState
  /\ crashed \in BOOLEAN
  /\ pc \in [Actors -> ActorPC]
  /\ target \in [Actors -> Workers \cup {None}]
  /\ old_state \in [Actors -> ThreadState \cup {None}]
  /\ ret \in [Actors -> ReturnPC]
  /\ iter \in [Actors -> Workers \cup {None}]
  /\ awake \in Nat
  /\ cnt \in Nat
  /\ pc[Manager] = "begin" => awake > 0
  /\ \A w \in Workers : wpc[w] = "work" => task[w] \in Tasks
  /\ \A a \in Actors : pc[a] \in CallPC \cup {"insert"} => target[a] \in Workers

=============================================================================
