------------------------------ MODULE EchoTasks ------------------------------
(***************************************************************************)
(* What the echo server and the echo client of src/main share: a thread    *)
(* pool (module ThreadPool) whose tasks own one Socket each (module        *)
(* Socket).  echo_handler deletes the Socket at its end, echo_exit closes  *)
(* it from the thread that stops the pool; both may happen at once.  The   *)
(* programs add their main thread, which adds the tasks, and what          *)
(* echo_handler does before the end.                                       *)
(***************************************************************************)
EXTENDS ThreadPool

CONSTANTS
  Sockets,   \* the Socket objects; a task is named like the one it owns
  Fds        \* descriptor numbers (bound)

Main == Stopper   \* the thread that stops the pool

ASSUME EchoAssumption ==
  /\ Tasks \subseteq Sockets
  /\ BlockingTasks = {} /\ PriorityTasks = {}
  /\ Fds \subseteq Nat
  /\ None \notin Sockets \cup Fds

VARIABLES
  mpc,           \* where main is
  cur,           \* the task main is adding
  task_mutex,    \* owner of task_mutex_, as far as main is concerned
  hpc,           \* where the echo_handler of each task is
  kind, app, leaked, at, obj, local, is_enable, socket   \* of module Socket

netVars == <<kind, app, leaked, at, obj, local, is_enable, socket>>
echoVars == <<vars, mpc, cur, task_mutex, hpc, netVars>>

Net == INSTANCE Socket WITH Streams <- {}, Threads <- Workers \cup Actors

\* The kernel hands out the lowest free number.
Lowest(fd) == Net!Unused(fd) /\ \A e \in Fds : Net!Unused(e) => fd <= e

\* The number of Socket s still stands for something.
Connected(s) == is_enable[s] /\ ~Net!Unused(socket[s])

-----------------------------------------------------------------------------
(* main.                                                                   *)

Goes(from, to) == mpc = from /\ at[Main] = "out" /\ mpc' = to

\* pool.init(); set_threadpool_config: the limits are constants of the pool.
InitPool(from, to) ==
  /\ Goes(from, to)
  /\ StartPool
  /\ UNCHANGED <<cur, task_mutex, hpc, netVars>>

\* pool.add_task: the test of exit_, then the lock, the push and the unlock.
AddCurrent(back) ==
  /\ Goes("add", IF exit_ THEN back ELSE "lock")
  /\ AddTask(cur)
  /\ cur' = IF exit_ THEN None ELSE cur
  /\ UNCHANGED <<task_mutex, hpc, netVars>>

LockTasks ==
  /\ Goes("lock", "push")
  /\ task_mutex = Free
  /\ task_mutex' = Main
  /\ UNCHANGED <<vars, cur, hpc, netVars>>

PushCurrent ==
  /\ Goes("push", "unlock")
  /\ Push(cur)
  /\ UNCHANGED <<cur, task_mutex, hpc, netVars>>

UnlockTasks(back) ==
  /\ Goes("unlock", back)
  /\ task_mutex' = Free
  /\ cur' = None
  /\ UNCHANGED <<vars, hpc, netVars>>

AddStep(back) == AddCurrent(back) \/ LockTasks \/ PushCurrent \/ UnlockTasks(back)

-----------------------------------------------------------------------------
(* The end of echo_handler, on worker w.                                   *)

Handles(w, c, from, to) ==
  /\ wpc[w] = "work" /\ task[w] = c /\ at[w] = "out"
  /\ hpc[c] = from
  /\ hpc' = [hpc EXCEPT ![c] = to]
  /\ UNCHANGED <<vars, mpc, cur, task_mutex>>

\* Mutant: the handler returns without delete.
KeepSocket(w, c) == Handles(w, c, "delete", "closing") /\ UNCHANGED netVars

\* delete cli_info: the destructor calls close.
DeleteSocket(w, c) ==
  /\ Handles(w, c, "delete", "closing")
  /\ Net!Enter(w, c, "close", None)
  /\ UNCHANGED <<kind, app, leaked, is_enable, socket>>

\* The memory is freed and echo_handler returns.
EndHandler(w, c) ==
  /\ task[w] = c /\ hpc[c] = "closing" /\ at[w] = "out"
  /\ FinishTask(w)
  /\ hpc' = [hpc EXCEPT ![c] = "freed"]
  /\ UNCHANGED <<mpc, cur, task_mutex, netVars>>

\* The steps of close: in the destructor, in echo_exit or after an error.
CloseStep(th) ==
  /\ Net!CloseTest(th) \/ Net!CloseClear(th) \/ Net!CloseFd(th)
  /\ UNCHANGED <<vars, mpc, cur, task_mutex, hpc>>

-----------------------------------------------------------------------------
(* The pool.                                                               *)

\* get_task needs task_mutex_; the work is that above.
PoolWorker(w) ==
  /\ wpc[w] = "get_task" => task_mutex = Free
  /\ wpc[w] # "work"
  /\ WorkerStep(w)
  /\ UNCHANGED <<mpc, cur, task_mutex, hpc, netVars>>

Wakeup(w) == SpuriousWakeup(w) /\ UNCHANGED <<mpc, cur, task_mutex, hpc, netVars>>

\* stop_handler of a WorkThread calls echo_exit, which calls close, on the
\* Socket of a task, be it over or not.
EchoExit(a) ==
  LET c == task[target[a]] IN
  /\ at[a] = "out"
  /\ CallExitTask(a)
  /\ \/ c \in Tasks /\ Net!Enter(a, c, "close", None)
        /\ UNCHANGED <<kind, app, leaked, is_enable, socket>>
     \/ (c \notin Tasks \/ object[target[a]] # "live") /\ UNCHANGED netVars
  /\ UNCHANGED <<mpc, cur, task_mutex, hpc>>

PoolActor(a) ==
  \/ /\ at[a] = "out" /\ pc[a] # "call_exit"
     /\ ActorStep(a)
     /\ UNCHANGED <<mpc, cur, task_mutex, hpc, netVars>>
  \/ EchoExit(a)

\* A close on a Socket that has been deleted goes on with its old contents, or
\* else anything may happen; as may in the pool.
EchoCrash(a) ==
  \/ /\ at[a] # "out" /\ obj[a] \in Tasks /\ hpc[obj[a]] = "freed"
     /\ crashed' = TRUE
     /\ UNCHANGED <<workerVars, mapVars, taskVars, exit_, pool_state, actorVars,
                    mpc, cur, task_mutex, hpc, netVars>>
  \/ at[a] = "out" /\ Crash(a) /\ UNCHANGED <<mpc, cur, task_mutex, hpc, netVars>>

\* The signal of resume(), which must win mutex_ from a worker in its loop.
EchoSignal(a) == Signal(a) /\ UNCHANGED <<mpc, cur, task_mutex, hpc, netVars>>

WorkerThread(w) ==
  \/ PoolWorker(w) \/ CloseStep(w)
  \/ \E c \in Tasks : DeleteSocket(w, c) \/ EndHandler(w, c)

ActorThread(a) == PoolActor(a) \/ CloseStep(a) \/ EchoCrash(a)

\* When main returns, the process is over.
Running == ~crashed /\ mpc # "returned"

EchoInit ==
  /\ Init
  /\ mpc = "init"
  /\ cur = None
  /\ task_mutex = Free
  /\ hpc = [c \in Tasks |-> "start"]
  /\ kind = [fd \in Fds |-> "closed"]
  /\ app = {}
  /\ leaked = {}
  /\ at = [th \in Workers \cup Actors |-> "out"]
  /\ obj = [th \in Workers \cup Actors |-> None]
  /\ local = [th \in Workers \cup Actors |-> None]
  /\ is_enable = [s \in Sockets |-> FALSE]
  /\ socket = [s \in Sockets |-> None]

-----------------------------------------------------------------------------

HandlerPC == {"start", "round", "blocked", "delete", "closing", "freed"}

\* The types of both programs: main adds one task at a time, and a worker is
\* in close only on the Socket of the task it is running.
EchoTypes ==
  /\ TypeOK
  /\ cur \in Tasks \cup {None}
  /\ mpc \in {"add", "lock", "push", "unlock"} <=> cur # None
  /\ task_mutex \in {Free, Main}
  /\ hpc \in [Tasks -> HandlerPC]
  /\ kind \in [Fds -> Net!Kinds]
  /\ app \subseteq Fds
  /\ is_enable \in [Sockets -> BOOLEAN]
  /\ socket \in [Sockets -> Fds \cup {None}]
  /\ at \in [Workers \cup Actors -> {"out", "close", "clear", "close_fd"}]
  /\ obj \in [Workers \cup Actors -> Sockets \cup {None}]
  /\ \A th \in Workers \cup Actors : at[th] # "out" => obj[th] \in Sockets
  /\ \A s \in Sockets : is_enable[s] => socket[s] \in Fds
  /\ \A w \in Workers : at[w] # "out" => wpc[w] = "work" /\ obj[w] = task[w]

\* A worker that the shutdown waits for and that may never end: asleep in
\* runing_threads_, at a task_mutex_ that main holds while it stops the pool,
\* or in the loop of a handler whose peer stays.
Obstacle(w) ==
  /\ w \in runing_threads
  /\ \/ wpc[w] = "blocked" \/ (wpc[w] \in {"lock", "check"} /\ state[w] = "WAITING")
     \/ wpc[w] = "get_task" /\ task_mutex = Main
     \/ wpc[w] = "work" /\ hpc[task[w]] \in {"start", "round", "blocked"}

==============================================================================
