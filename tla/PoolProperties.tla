--------------------------- MODULE PoolProperties ---------------------------
(***************************************************************************)
(* What the thread pool of src/src/thread.cc promises: what its steps keep *)
(* true (checked by the passing runs, and proved in ThreadPoolProofs and   *)
(* SteadyProofs), and two promises of its comments that it breaks.         *)
(***************************************************************************)
EXTENDS ThreadPool

-----------------------------------------------------------------------------
(* The two maps.                                                           *)

\* Worker w is between its insertion into one map and its erasure from the
\* other, or between its deletion and its erasure.
Moving(w) ==
  \/ thread_mutex = w
  \/ \E a \in Actors : pc[a] = "to_running_erase" /\ target[a] = w

\* The pool never loses a thread and never keeps a dead one: outside the
\* critical section that is moving it, a WorkThread is in exactly one of
\* runing_threads_ and idle_threads_ while it exists, and in neither once it
\* is deleted.  A thread in neither map could not be stopped, one in both
\* would be deleted twice by remove_thread (thread.cc:282-304, 363-411).
EachThreadInOneMap ==
  \A w \in Workers : ~Moving(w) =>
    /\ w \notin idle_threads \cap runing_threads
    /\ w \in idle_threads \cup runing_threads <=>
         object[w] = "live" /\ ~(pc[Manager] = "insert" /\ target[Manager] = w)

\* A worker thread that leaves run_handler frees the WorkThread it ran on:
\* remove_thread finds it, so the object is gone when the thread is.
GoneMeansDeleted ==
  \A w \in Workers : wpc[w] \in {"erase", "gone"} => object[w] = "deleted"

\* A WorkThread that runs a task is in runing_threads_, so that shutdown
\* waits for it, except while a resume that has set state_ but not yet moved
\* the thread is under way (thread.cc:165-168).
WorkingMeansRunning ==
  \A w \in Workers : wpc[w] \in {"work", "get_task"} =>
    \/ w \in runing_threads
    \/ \E a \in Actors : target[a] = w /\ pc[a] = "to_running"

-----------------------------------------------------------------------------
(* Why the maps stay right: an inductive invariant.                        *)

\* Nobody but the manager that is creating it knows of worker w.
Fresh(w) == object[w] = "none" \/ (pc[Manager] = "insert" /\ target[Manager] = w)

\* The owner of thread_mutex_ is the one thread in a critical section of it.
LockInv ==
  /\ \A w \in Workers : wpc[w] \in {"to_idle_erase", "erase"} <=> thread_mutex = w
  /\ \A a \in Actors : pc[a] = "to_running_erase" <=> thread_mutex = a

\* A WorkThread exists from its creation until its own thread deletes it.
ObjectInv ==
  \A w \in Workers :
    /\ object[w] = "none" <=> wpc[w] = "unborn"
    /\ object[w] = "deleted" <=> wpc[w] \in {"erase", "gone"}

\* A thread that is not in a map yet is found by nobody and cannot end.
FreshInv ==
  \A w \in Workers : Fresh(w) =>
    /\ w \notin idle_threads \cup runing_threads
    /\ \A a \in Actors : iter[a] # w /\ (pc[a] \in CallPC => target[a] # w)
    /\ object[w] # "none" =>
         /\ object[w] = "live"
         /\ state[w] = "WAITING"
         /\ wpc[w] \in {"no_thread", "loop", "lock", "check", "blocked"}
    /\ pc[Manager] = "insert" /\ target[Manager] = w => object[w] # "none"

\* Where a thread is listed, by the step that is moving it.
ListInv ==
  \A w \in Workers :
    /\ object[w] = "live" /\ ~Fresh(w) => w \in idle_threads \cup runing_threads
    /\ wpc[w] = "gone" => w \notin idle_threads \cup runing_threads
    /\ wpc[w] = "to_idle_erase" => w \in idle_threads
    /\ \A a \in Actors : pc[a] = "to_running_erase" /\ target[a] = w => w \in runing_threads
    /\ w \in idle_threads \cap runing_threads => Moving(w)

MapInv == LockInv /\ ObjectInv /\ FreshInv /\ ListInv

-----------------------------------------------------------------------------
(* Tasks.                                                                  *)

\* t is at exactly one place of queue q.
Once(q, t) == \E i \in DOMAIN q : q[i] = t /\ \A j \in DOMAIN q : q[j] = t => j = i

QueueOf(t) == IF t \in PriorityTasks THEN priority_tasks ELSE tasks

\* No task is lost, duplicated or run twice: an accepted task is in the one
\* queue of its kind at one place until a worker takes it, one worker runs it,
\* and neither happens before it is accepted or after it has ended
\* (thread.cc:246-248, 260-262, 271-277, 106-112).
TaskConservation ==
  /\ \A i \in DOMAIN tasks : tasks[i] \notin PriorityTasks /\ tpc[tasks[i]] = "queued"
  /\ \A i \in DOMAIN priority_tasks :
       priority_tasks[i] \in PriorityTasks /\ tpc[priority_tasks[i]] = "queued"
  /\ \A t \in Tasks : tpc[t] = "queued" => Once(QueueOf(t), t)
  /\ \A t \in Tasks : tpc[t] = "taken" => \E w \in Workers : wpc[w] = "work" /\ task[w] = t
  /\ \A w \in Workers : wpc[w] = "work" =>
       /\ tpc[task[w]] = "taken"
       /\ \A v \in Workers : wpc[v] = "work" /\ task[v] = task[w] => v = w

Service == INSTANCE TaskService WITH
  accepted <- {t \in Tasks : tpc[t] \in {"queued", "taken", "done"}},
  normal   <- tasks,
  urgent   <- priority_tasks,
  given    <- {t \in Tasks : tpc[t] \in {"taken", "done"}},
  finished <- {t \in Tasks : tpc[t] = "done"},
  open     <- TRUE

\* The pool implements the abstract task service, during a shutdown, a crash
\* and any mix-up of its thread lists too.
ImplementsService == Service!Spec

-----------------------------------------------------------------------------
(* Wakeups.                                                                *)

\* No wakeup is lost while nobody shuts the pool down: a worker asleep in
\* pthread_cond_wait whose state_ is no longer WAITING is about to be
\* signalled by the thread that changed state_ (thread.cc:98-105, 162-175).
NoLostWakeup ==
  \A w \in Workers : wpc[w] = "blocked" /\ state[w] # "WAITING" =>
    \E a \in Actors :
      /\ target[a] = w
      /\ pc[a] \in {"resume", "set_running", "to_running", "to_running_erase", "signal"}

\* The application stops a WorkThread for good: in normal operation nothing
\* overwrites the EXIT that stop_handler wrote.  pause() and resume() test
\* state_ and assign it in separate steps (thread.cc:126-127, 151-153, 165-166).
ExitIsFinal ==
  [][\A w \in Workers : state[w] = "EXIT" /\ object[w] = "live" => state'[w] = "EXIT"]_vars

\* Trimming idle threads never calls the exit_task of a thread that exists,
\* although stop_handler decides by a state_ that the worker may be changing;
\* only what it reads from a deleted WorkThread can make it (thread.cc:126-132,
\* 348-352).
TrimInterruptsNobody ==
  \A a \in Actors : pc[a] = "call_exit" => object[target[a]] = "deleted"

-----------------------------------------------------------------------------
(* Why the threads stay right while nobody shuts the pool down: an         *)
(* inductive invariant of SteadySpec, together with TypeOK and MapInv.     *)

\* The manager has resumed worker w and is at one of the places P.
Resuming(w, P) == ret[Manager] = "assign" /\ target[Manager] = w /\ pc[Manager] \in P

\* The manager is stopping worker w, which it found idle, at one of the places P.
Trimming(w, P) == ret[Manager] = "trim" /\ target[Manager] = w /\ pc[Manager] \in P

\* Nobody calls ThreadPool::stop_handler; the manager resumes and trims, and
\* its iterator stands on a thread only while it trims.
ManagerInv ==
  /\ pc[Stopper] = "off"
  /\ pc[Manager] \in CallPC => ret[Manager] \in {"assign", "trim"}
  /\ pc[Manager] \in {"stop", "set_exit", "call_exit"} => ret[Manager] = "trim"
  /\ pc[Manager] = "to_running_erase" => ret[Manager] = "assign"
  /\ iter[Manager] # None =>
       pc[Manager] = "trim" \/ (pc[Manager] \in CallPC /\ ret[Manager] = "trim")

\* What state_ worker w can have at each of its steps.
StateInv(w) ==
  /\ state[w] = "WAITING" => wpc[w] \in {"no_thread", "loop", "lock", "check", "blocked",
                                        "to_idle", "to_idle_erase"}
  /\ state[w] = "RUNNING" => wpc[w] \notin {"to_idle", "remove"}
  /\ state[w] = "EXIT" => wpc[w] \notin {"get_task", "work", "set_waiting", "to_idle"}

\* Worker w waits for a resume or has been told to exit.
Quiet(w) == state[w] \in {"WAITING", "EXIT"} /\ wpc[w] # "to_idle"

\* Where it is listed: if it runs or comes to rest, in runing_threads_ or about
\* to be moved there; in idle_threads_, it is quiet or being resumed.
PlaceInv(w) ==
  /\ state[w] = "RUNNING" \/ wpc[w] = "to_idle" =>
       w \in runing_threads \/ Resuming(w, {"to_running"})
  /\ w \in idle_threads => Quiet(w) \/ Resuming(w, {"to_running", "to_running_erase"})

\* What the manager relies on while it calls a member of w: a thread it resumes
\* is idle, and one it trims stays quiet until it has its EXIT.
CalleeInv(w) ==
  /\ Resuming(w, CallPC \ {"signal"}) => w \in idle_threads
  /\ Resuming(w, {"set_running", "to_running", "to_running_erase"}) => state[w] # "EXIT"
  /\ Trimming(w, CallPC) => Quiet(w) /\ pc[Manager] \in {"stop", "set_exit", "resume", "signal"}
  /\ Trimming(w, {"resume", "signal"}) => state[w] = "EXIT"
  /\ Trimming(w, {"set_exit"}) => old_state[Manager] # "RUNNING"
  /\ Trimming(w, {"set_exit"}) /\ old_state[Manager] = "EXIT" => state[w] = "EXIT"
  /\ iter[Manager] = w => Quiet(w)

\* If it sleeps although it should not, the manager is about to signal it.
WakeInv(w) ==
  wpc[w] = "blocked" /\ state[w] # "WAITING" =>
    /\ target[Manager] = w
    /\ pc[Manager] \in {"resume", "set_running", "to_running", "to_running_erase", "signal"}

LiveInv(w) ==
  object[w] = "live" => StateInv(w) /\ PlaceInv(w) /\ CalleeInv(w) /\ WakeInv(w)

SteadyInv == ManagerInv /\ \A w \in Workers : LiveInv(w)

-----------------------------------------------------------------------------
(* Liveness.                                                               *)

\* A step reads memory that is not there: what comes after is undefined.
Dangling == \E a \in Actors : Dangles(a)

\* In the list of running threads, where no resume will find them: asleep, or
\* without a thread since pthread_create failed.
StuckThreads ==
  {w \in runing_threads : wpc[w] = "no_thread" \/ (state[w] = "WAITING" /\ wpc[w] = "blocked")}

PoolExhausted == idle_threads = {} /\ Cardinality(StuckThreads) >= MaxThreads

\* A task in tasks_ is executed, unless so many threads are stuck that the
\* manager neither finds an idle one nor may create another (thread.cc:319-337).
\* A priority task that waits with it is taken before it (ImplementsService);
\* alone, it wakes nobody.
NormalTasksServed ==
  \A t \in Tasks \ PriorityTasks :
    tpc[t] = "queued" /\ pc[Manager] # "off" ~>
      tpc[t] = "done" \/ PoolExhausted \/ OutOfAddresses \/ Dangling

\* manage_work_threads returns: the locks of the workers, thread_mutex_ and
\* the loop that does not count the thread it created cannot hold the manager
\* for ever (thread.cc:307-361).
TickEnds ==
  pc[Manager] = "tasks" ~> pc[Manager] = "tick" \/ OutOfAddresses \/ Dangling

\* stop_handler on a pool nobody gave a task ends every thread of it, the
\* manager too, although the manager trims threads meanwhile, unless somebody
\* comes to use an object or an iterator that a leaving worker has freed
\* (thread.cc:223-229, 282-304, 340-358, 442-470).
IdlePoolStops ==
  pc[Stopper] \in {"wait_running", "walk_running"} /\ pc[Manager] # "off" ~>
    \/ Dangling
    \/ pc[Manager] = "done" /\ \A w \in Workers : object[w] # "live"

-----------------------------------------------------------------------------
(* Promises of the comments that the code does not keep.                   *)

\* system_utils.h:100-101: a worker pauses after its task and is started again
\* for the next, so no task starves for the lack of a worker to start.
EveryTaskServed ==
  \A t \in Tasks :
    tpc[t] = "queued" /\ pc[Manager] # "off" ~> tpc[t] = "done" \/ OutOfAddresses

\* system_utils.h:154 and thread.cc:449: a shutdown with the exit action
\* WAIT_FOR_ALL_TASKS_FINISHED leaves its waiting loop when all the tasks that
\* were accepted are finished.
WaitEndsWithTasksDone ==
  [][pc[Stopper] = "wait_running" /\ pc'[Stopper] # "wait_running" =>
       \A t \in Tasks : tpc[t] \notin {"queued", "taken"}]_vars

=============================================================================
