# TLA+ specifications of system_util

system_util is a small C++ library for Linux: a thread pool, a file stream, a
TCP socket, a byte ring buffer and logging, with an echo server and client as
examples. This directory holds TLA+ models of it, the TLC runs that check them
and TLAPS proofs. The models follow the source, line by line where threads
meet; paths below are relative to the repository (`thread.cc` is
`src/src/thread.cc`, `system_utils.h` is `src/inc/system_utils.h`).

## 1. Inventory

| Component | State | Operations | Hard behaviour |
|---|---|---|---|
| `WorkThread` (thread.cc 63-193) | `state_` (WAITING, RUNNING, EXIT), `task_`, `start_idle_life_`, a mutex and a condition variable | `run_handler` on its own thread; `pause`; `resume`, `stop_handler`, `idle_timeout`, called by other threads | `state_` is tested and assigned in separate steps, mostly under no lock; the object is deleted by its own thread while others may be inside its members |
| `ThreadPool` (thread.cc 196-473) | `tasks_`, `priority_tasks_`, `runing_threads_`, `idle_threads_`, `thread_mutex_`, `task_mutex_`, `exit_`, `state_` | `add_task`, `add_priority_task`, `get_task`, `remove_thread`, the two moves between the maps, the manager loop `manage_work_threads`, `shutdown_all_threads` | the manager and the shutdown read, walk and insert into the maps without `thread_mutex_` |
| Pool configuration (thread.cc 413-440) | `thread_pool_config_` | `set_threadpool_config` | each field is tested and stored on its own |
| `Queue<T>` (queue.h) | `head_`, `tail_`, `size_`, nodes | `push`, `pop`, `size`, destructor | `size_` is read without the lock; last-node cases |
| `Thread`, `Mutex` (thread.cc 17-61, mutex.cc) | `thread_id_`, a pthread mutex | `init`, `wait_thread`, `lock`, `unlock`, `trylock` | a failure of `pthread_create` |
| `Stream` (stream.cc) | `fd_`, `file_open_flag_`, `open_on_exit_`, `file_info_` | `open`, `set_fd`, `close_file`, `seek`, `read`, `write`, formatted variants | ownership of the descriptor, partial writes, error paths |
| `Socket` (socket.cc) | `socket_`, `is_enable_`, address | `create_socket`, `set_socket`, `listen`, `accept`, `connect`, `send`, `recv`, `shutdown`, `close` | life cycle on error paths, partial sends, use by two threads |
| `ByteBuffer` and iterator (byte_buffer.h) | ring positions and sizes | read, write, iterate, compare | order across the wrap |
| Logging (`MsgRecord`) | callbacks per level | formatting | none that a property is about |
| Echo server and client (`src/main`) | globals set by signal handlers, the pool, a `Socket` per task | accept loop, task and exit functions | `longjmp` out of a handler, shutdown from a handler, `exit_task` on a `Socket` the task deletes |
| TCP server | - | - | empty files |
| googletest, googlemock | - | - | vendored, unused |

How they interact. A client thread pushes a `Task` under `task_mutex_`. Every
100 ms the manager thread looks at `tasks_`, calls `resume()` on idle workers
or creates new ones, and then stops idle workers whose time is over. A worker
takes a task, runs it, calls `pause()` and moves itself to `idle_threads_`.
The application stops the pool by calling `stop_handler()` on every worker;
each worker then removes itself from the map and deletes its own object.

What makes each correct. Pool: no task lost, duplicated or run twice; order
kept; every thread in exactly one map while it exists; no wakeup lost; a
stopped thread stays stopped; every accepted task served; every thread ended by
a shutdown; nothing used after its deletion. Queue: a list that matches its
size and never reaches freed memory. Configuration: limits respected by every
sequence of calls. Stream and Socket: a descriptor is closed exactly once, and
a call reports what it did.

## 2. Modules

| Module | What it is |
|---|---|
| `WorkThread` | the worker threads, and the members of a `WorkThread` that other threads run |
| `ThreadPool` | extends it with clients, manager, the thread that starts and stops the pool; `Init`, `Next`, `Spec`, fairness, `TypeOK` |
| `PoolProperties` | what the pool keeps true, the invariants behind it, and two promises of the comments that it breaks |
| `TaskService` | abstract specification: tasks accepted, given out in order, finished |
| `TaskQueue` | the two `Queue<Task>` lists under `task_mutex_`, one store at a time; implements `TaskService` too |
| `PoolConfig` | `set_threadpool_config` as a state machine, with its theorems |
| `FdTable` | descriptor numbers, as the kernel hands them out, and the frames of the threads inside a member function |
| `Socket`, `Stream` | extend it with the life of a descriptor in the two classes |
| `Ownership` | abstract specification: who is to close a descriptor, and how it changes hands |
| `Descriptors` | Sockets and Streams of one process side by side; implements `Ownership` |
| `ByteRing` | `ByteBuffer` and its iterator as operators on a record |
| `Transfer` | `Stream::read` and `write`, `Socket::recv` and `send` over one `ByteRing` |
| `EchoTasks` | composes `ThreadPool` with `Socket`: tasks that own a Socket, `echo_exit`, the pool's part of both programs |
| `EchoServer`, `EchoClient` | extend it with the `main`, signal handlers and `echo_handler` of the two example programs |
| `ThreadPoolProofs`, `SteadyProofs`, `QueueProofs`, `DescriptorProofs`, `TransferProofs`, `EchoProofs`, `ClientProofs` | theorems (section 5) |
| `MCThreadPool`, `MCTaskQueue`, `MCPoolConfig`, `MCDescriptors`, `MCTransfer`, `MCEchoServer`, `MCEchoClient` | constant values for TLC |

### How the pool model corresponds to the code

`wpc[w]` is the place of worker `w` in `run_handler`; `pc[a]` the place of actor
`a`, the manager or the stopper (the application thread inside
`ThreadPool::stop_handler`), with its locals (`iter`, `awake`, `cnt`,
`old_state`) and the `WorkThread` it is calling (`target`). One action is one
access to data that two threads can touch without a common lock:

- `state_` is tested and assigned in separate actions (`PauseTest`, `PauseSet`,
  `ResumeTest`, `ResumeSet`, `StopRead`, `StopSet`), as in the code, where only
  the assignment in `pause()` is under a lock that the others do not take.
- A critical section of `thread_mutex_` is two actions (insert and erase, or
  delete and erase), so the unlocked sizes, `begin()` and iterators of the
  manager and the shutdown see the middle.
- A critical section of `task_mutex_` is one action. `TaskQueue` opens it up and
  shows that one action is what it amounts to: both implement `TaskService`, and
  the one value read outside the lock, `size_`, is never off by more than one.
- The worker's own `mutex_` is held exactly at `"check"`, between testing
  `state_` and waiting. `Signal` needs it free.
- `pthread_cond_wait` may return without a signal (`SpuriousWakeup`).
- `idle_timeout()` returns anything the run allows (`TimeoutResults`): time is
  not modelled. The pool passes no `idle_thread_life` to its workers anyway.
- `pthread_create` for a worker may fail (`SpawnResults`); its result is ignored.
- Deleted memory. A step that reads a deleted `WorkThread`, an erased iterator
  or `begin()` of an empty map is undefined behaviour: the process may stop
  (`Crash`), or the step goes on with any value of `state_`, with `task_` as it
  was or nothing, and with any successor of the iterator.

### How the other models correspond to the code

*Queue.* A task names the node that holds it and the client that pushes it, so
`next[t]` is the `next_node` of its node and `alive` the set of nodes allocated.
Each store of `push` and `pop` is a step; the critical section is what
`task_mutex` makes of it. `~Queue` begins when nobody is inside (`Close`).

*Descriptors.* `kind[fd]` is what the kernel has behind a number: closed, or a
socket, listener, connection or file. A thread inside a member function has a
place `at`, an object and a local `fd`. `close()` of a Socket is three steps,
since between `is_enable_ = false` and `::close` the number is neither the
object's nor free; a Stream's `open` and `set_fd` pass through `stat`,
`close_file` and the assignments in the order of the code. Every error path of
`listen`, `accept`, `connect` and `shutdown` is there: most close the object,
`shutdown` forgets the number. `app` is what the application holds itself
(`accept` returns a number to it, `set_socket` takes one, of whatever kind, or
refuses it and leaves it there), `leaked` what nobody holds. One thread at a time uses an object in this model (`Alone`), as the
classes have no lock; in the echo programs the guard is absent for `close`.

*Transfer.* `buff` is the ring, `came` the number of bytes that have come in,
`left` those that left the buffer, in order; the bytes are numbered. `call` is
the running call: `remain` is `remain_size`, a `size_t` that wraps at `SizeMod`,
`moved` what the system calls of this call have moved. `Available` and
`Accepted` are what a system call may move: anything from one byte up to the
size asked for, 0 at the end of the data; or it fails, `recv`'s after `resize`
(`Fails`, `RecvFails`). A call on a Stream or Socket that is not open returns at
once and leaves the buffer alone (`Refused`): -1, but 0 from `write`. One buffer
may go from object to object, so any call may be such a one. The members of
`ByteBuffer` are in a prebuilt library, so they are taken from how stream.cc,
socket.cc and the header use them; the iterator is inline and modelled from its
code, with the clamping that `check_iterator` does as a side effect.

*Echo programs.* `mpc` is the place of main, which is also the pool's stopper;
`cur` is the task it is adding and `hpc[c]` the place of the `echo_handler` of
connection `c`. Workers run the handler between `GetTask` and `FinishTask` of the
pool. `delete` of a Socket calls `close`, and so does `echo_exit`, called by
`stop_handler` from another thread on whatever `task_` the worker has: the two
interleave step by step, and a close on a deleted object goes on with its old
contents or ends the process. `task_mutex_` is modelled where it matters here:
main takes it, pushes and releases it in three steps, since a signal can strike
in between.

- Server: SIGINT sets `server_exit` and jumps to `setjmp` (`Sigint`) out of
  whatever main is in; before `setjmp` there is nowhere to jump (`SigintEarly`).
- Client: `sig_int` runs `pool.stop_handler()` on the stack of main; main stands
  still (`in_handler`) while every other thread goes on.
- The test of `is_enable_` in the loop condition, the one at the start of `recv`
  and the number it passes to the kernel are one step, since all three outcomes
  end the loop alike.
- SIGINT comes once and the kernel delivers it to main. The kernel hands out the
  lowest free number.
- Left out: the server's task that prints the state of the pool, with the worker
  it occupies (with it one connection already has more than twelve million
  states), and in the client `write_file` (a log) and the count that ends the
  loop after eleven messages: the loop may end after any.

### What is abstracted in the pool

- A map is the set of its keys; `find` plus insertion is one step, and two
  unsynchronised writers do not tear the tree. The order of keys, which
  `begin()` and `++` follow, is the order of the worker numbers.
- Addresses are never reused: `Workers` bounds the number of objects ever
  created. `OutOfAddresses` marks the states where that bound, not the code,
  stops the manager; liveness properties excuse those states and only those.
- A task is a name; each is submitted once. `BlockingTasks` are those whose
  `work_func` returns only after their `exit_task` was called, like the task of
  the echo server that prints the pool's state.
- One application thread starts and stops the pool, and stops it once. The
  failure of `pthread_create` for the manager itself is not modelled.
- `exit_action` is any value in `ExitActions` at the moment of the shutdown,
  since `set_threadpool_config` can change it until then; the two thread limits
  are constants.
- Memory accesses are atomic and sequentially consistent; the copy of a task
  into `task_` is not torn.

## 3. Runs

`tlc -config X.cfg M` for each; the bounds are the constants of the `.cfg` file.

| Run | Properties | Instance |
|---|---|---|
| `steady` | `TypeOK`, `TaskConservation`, `WorkingMeansRunning`, `NoLostWakeup`, `TrimInterruptsNobody`, `ExitIsFinal`, `ImplementsService`, `NormalTasksServed`, `TickEnds` | 2 workers, one created by the manager; a normal and a priority task; any timeouts; failing `pthread_create`; fairness; no shutdown; 323 thousand states |
| `shutdown` | `EachThreadInOneMap`, `GoneMeansDeleted`, `MapInv` | 2 workers, one created later, a blocking task, trimming to 0, both exit actions, failing `pthread_create`; 2.4 million states |
| `idle_stops` | `IdlePoolStops` | 2 workers, no tasks, trimming to 0, both exit actions, fairness; 133 thousand states |
| `queue` | `TypeOK`, `NodesMatchLists`, `SizeWithinOne`, `DestroyLeavesTheLast`, `ImplementsService` | 4 clients, one of them urgent, 2 popping workers, then the destructor; 16 thousand states |
| `config` | `LimitsKept` | every request with sizes up to one above the limit |
| `descriptors` | `TypeOK`, `HeldOnce`, `OpenIsHeld`, `ImplementsOwnership` | 2 threads, 2 Sockets, a Stream, 3 numbers, all interchangeable within their kind; 234 thousand states |
| `transfer` | `TypeOK`, `InOrder`, `SendReportsSent`, `SentEnough`, `ZeroMeansEnd`, `IteratorsSeeContents`, `OrderErrsOneWay`, `LoopsEnd` | 6 bytes, requests of 1 to 3, `size_t` modulo 16, fairness; 27 thousand states |
| `echo_server` | `ServerTypeOK`, `NumbersNotMixedUp`, `OneLostAtMost` | 1 worker, 2 connections, 3 numbers; 2.2 million states |
| `echo_stops` | `ServerStops` | 1 worker, 1 connection, fairness; 247 thousand states |
| `echo_client` | `ClientTypeOK`, `NoSocketLost`, `ClientStops` | 1 worker, 1 Socket, fairness; 107 thousand states |
| `claim_stuck` | `EveryTaskServed`, violated | one worker, which is also the maximum, 2 tasks, fairness, no shutdown |
| `claim_wait` | `WaitEndsWithTasksDone`, violated | 1 worker, 1 task |

Why these bounds are enough to see the interesting cases. Two workers are what
`begin()`, an iterator step and a worker that overtakes another need; one task of
each kind shows the order, and while one waits and a worker is busy the manager
reaches the branch that creates a thread, with success or without; one worker
exists at the start and one can be created, so a thread is seen from its birth
to its removal. Three numbers are
one more than two threads can be closing or opening, so a number just closed can
be handed to the other thread at once. Six bytes with requests of three fill the
ring, wrap it, enlarge it and leave partial transfers; `remain_size` below zero
occurs, and 16 is more than any size in the model, so that wrapping is not
mistaken for a small number. In the server the second connection is there to be
given the number that the first has closed; one worker is what makes it wait in
the queue, and main, the manager and the worker interleave with it. Everything
in the table but the liveness properties is also proved, for every number of
workers, tasks, nodes, objects, bytes and connections (section 5).

`SYMMETRY` is used in `descriptors` only, which has no liveness property: the
two Sockets, the two threads and the three numbers are interchangeable there. In
the echo programs the numbers are ordered and there is no symmetry.

Deadlock checking is off for the pool, the queue and the echo programs, which
really stop, and for `descriptors`: when every number is leaked and both threads
are outside nothing is left to do. `TickEnds`, `IdlePoolStops`, `ServerStops` and
`ClientStops` are what deadlock freedom means there.

What the properties say, in words:

- `EachThreadInOneMap`, `GoneMeansDeleted`: the pool neither loses a thread nor
  keeps a dead one, whatever is stopping, trimming or moving it.
- `WorkingMeansRunning`: a thread at work is where a shutdown looks for it,
  except while `resume()` is between its two statements. It is checked without
  a shutdown; with one, `pause()` and `stop_handler()` break it.
- `NoLostWakeup`: a worker asleep although its state says RUNNING or EXIT is
  about to be signalled. `ExitIsFinal`: in normal operation an EXIT stays.
- `TrimInterruptsNobody`: trimming reads `state_` of an idle thread and can
  never find RUNNING there, unless it reads freed memory.
- `TaskConservation`, `ImplementsService`: tasks are accepted, given and
  finished at most once, priority first, first in first out.
- `NormalTasksServed`: a normal task is done, unless all threads the manager may
  have are in `runing_threads_` for ever: asleep (see `EveryTaskServed` below),
  or without a thread since `pthread_create` failed. `TickEnds`: neither the
  locks nor trimming hold the manager for ever. Both excuse `OutOfAddresses`: a
  loop that created threads without end would look the same, so it is not these
  properties that rule it out. `IdlePoolStops`: a pool without tasks ends all its
  threads. All three promise nothing once the manager or the stopper is to use a
  freed object or iterator (`Dangling`).
- `NodesMatchLists`, `SizeWithinOne`: the lists never reach freed nodes.
  `DestroyLeavesTheLast` states exactly what `~Queue` frees: all but one node of
  a non-empty list.
- `LimitsKept`: no sequence of calls sets a number of threads above 500.
- `HeldOnce`, `OpenIsHeld`: no number is to be closed by two objects, threads or
  application variables, although a number is reused as soon as it is closed;
  two error paths are the only ones that lose one, and a number that
  `set_socket` refuses stays with the caller. `ImplementsOwnership`
  says the same of the steps: only the holder passes a descriptor on, an object
  only to the thread that closes it.
- `InOrder`: whatever partial transfers, wraps, enlargements and failures, the
  bytes come out as they came in. `SendReportsSent`, `SentEnough`, `ZeroMeansEnd`:
  what the results mean, exactly: a `send` that returns without error has moved
  as much as asked or all there is, and so has a `write`, unless it returned 0
  without moving anything. `LoopsEnd`: `remain_size` below zero does not make a
  loop endless.
- `IteratorsSeeContents`, `OrderErrsOneWay`: an iterator, however old, is
  dereferenced only on an unread byte, unless `clear` has dropped the memory
  under it; the comparisons are exact until the unread bytes go around the end
  of the memory, and then `<` and `<=` may say false wrongly, `>` and `>=` true.
- `NumbersNotMixedUp`: a handler that goes on with the number of a Socket that
  `echo_exit` has closed, and two closes that race, never hit another
  connection. `OneLostAtMost`: SIGINT loses the connection in main's hands and
  no other.
- `ServerStops`, `ClientStops`: SIGINT ends the program, unless one of the
  obstacles that `Obstacle` names holds a worker for ever; the client is also
  excused when the signal came before `pool.init()`.
- `NoSocketLost`: in the client every open Socket is being added, queued or with
  its handler, until the pool has closed.

### Promises the code does not keep

Two runs are expected to end in a counterexample.

`claim_stuck`: a worker pauses
after a task and is started for the next (system_utils.h 100), so every accepted
task should be done. But `resume()` writes RUNNING; the worker, which was not
asleep yet, runs its task, pauses and is refused by `thread_move_to_idle_map`,
because `resume()` has not moved it yet; then `resume()` moves it: it sleeps in
`runing_threads_`, WAITING, where nobody resumes it and where it counts against
the maximum, and the next task starves.

`claim_wait`: with `SHUTDOWN_ALL_THREAD_WAIT_FOR_ALL_TASKS_FINISHED` the shutdown
waits for all tasks (system_utils.h 154, thread.cc 449). The code waits until
`runing_threads_` is empty (450) and does not look at the queues: a task that was
accepted less than a round of the manager ago has no worker yet, and the
shutdown goes on to stop every thread without it.

### Seen in the model

The models also have these behaviours; they follow from the lines given, and no
run is kept for them.

Thread pool:

- A priority task alone in the pool waits for ever: the manager only looks at
  `tasks_` (thread.cc 319), although priority tasks "are executed first"
  (system_utils.h 179).
- A worker sees EXIT by itself and deletes its object while `stop_handler()` is
  still about to call `resume()` on it (289, system_utils.h 198).
- `exit_task` is called on a task that is already over: `state_` still says
  RUNNING between the end of the task and `pause()` (128).
- `exit_` is set after `shutdown_all_threads` (225-226): tasks are accepted,
  threads resumed and created during the whole shutdown, and one that is resumed
  between the two walks, or whose `pause()` overwrites the EXIT, survives it.
- After `stop_handler` has read RUNNING the worker can pause and fall asleep in
  `runing_threads_` with EXIT stored and no signal to come; the shutdown, which
  waits for `runing_threads_` to become empty, then waits for ever.
- `workthread_cnt` (341) counts threads that are already leaving: a second round
  of trimming goes below `min_thread_num`.
- The maximum is compared with `runing_threads_.size()` only when no idle
  thread was found (322-325): it limits neither the threads at work nor the
  threads created over time.
- A worker whose `pthread_create` failed stays in the maps; once resumed it sits
  in `runing_threads_` and the shutdown waits for it for ever (462-465).
- `set_threadpool_config` stores the fields one by one: `min` can end up above
  `max`. The test of `idle_thread_life` looks at the old value (429-433), so any
  value is accepted once, and one beyond the documented half hour
  (system_utils.h 151) is then kept for ever. It is used nowhere.

Socket, Stream and buffer:

- `shutdown` of a Socket that is not connected, or was reset, clears `is_enable_`
  and leaks the number (socket.cc 41-46); `open` leaks it when `stat` fails
  (stream.cc 45-49). A second `listen`, a `connect` on a connected socket or an
  interrupted `accept` closes the object.
- `set_fd` never sets `file_open_flag_`: a Stream that was given a descriptor
  refuses to read and write (stream.cc 68-79; system_utils.h 230).
- `Stream::read` may read more than asked, up to the free space; `write` returns
  0, not -1, when the stream is not open (200); `clear_file`, `seek` and
  `write_file_fmt` use `fd_` without a test (123, 136, 288); `read_from_pos`
  takes a successful seek to 0 for a failure (186).
- `send` sends everything readable, not `buff_size`; its result is right all the
  same. A `send` to a peer that is gone may raise SIGPIPE (socket.cc 265).
- `recv` on a buffer that is full but at least as large as the request returns 0,
  which callers take for the end of the connection (247).
- Once the unread bytes go around the end of the memory, `>` and `>=` answer true
  for two positions on different sides of it whichever comes first
  (byte_buffer.h 258-284; the comment at 251 supports only ==, != and =).
- An iterator kept over `clear()` may stand outside the memory that is allocated
  next, and its check compares positions only (337-358).

Echo programs:

- A handler blocked in `recv` is not woken when `echo_exit` closes its number.
- The `longjmp` of the server can leave `task_mutex_` locked, or one connection
  in nobody's hands; before `setjmp` it has no target.
- `echo_exit` can run on a Socket that its handler has deleted.
- Client: SIGINT before `pool.init()` is followed by the start of the pool just
  stopped, which nobody stops again; main may hold `task_mutex_` when the handler
  starts to wait for the workers; a task that `add_task` refuses leaves its
  Socket open and unowned; and since main goes on creating Sockets after the
  handler has returned, a handler that survived may find its number in another.

## 4. Fairness

`Fairness` in `ThreadPool` asks for weak fairness of every worker and of each
actor, because the operating system runs every thread that can run; of a client
between the test of `exit_` and its push, which is bounded work; and strong
fairness of `Signal`, because a worker that wakes up again and again takes its
`mutex_` again and again, and a thread waiting for a mutex gets it in the end.
A step that can only crash does crash. Nothing makes a client call, the
application start or stop the pool, a spurious wakeup happen or a timeout
expire; properties that depend on the manager say `pc[Manager] # "off"`.

`FairSpec` of `Transfer` has weak fairness of the loops only: a system call
returns, and not always with an error. `FairServerSpec` and `FairClientSpec` have
that of the pool: weak fairness of every worker, of main and of the manager,
strong fairness of `Signal`. Nothing makes a client connect, a peer answer or
hang up, `accept` fail or a signal come; main in its endless loop makes progress.
`ServerStops` and `ClientStops` therefore excuse a worker that waits for its peer
for ever, one that sleeps in `runing_threads_`, and one at a `task_mutex_` that
main holds (`Obstacle`), and in the client the bound on the number of
`WorkThread` objects (`OutOfAddresses`). `echo_stops` and `echo_client` have one
connection and one worker so that TLC can decide these properties.

## 5. Proofs

`tlapm M.tla` proves, for every value of the constants within the assumptions:

| Module | Theorem | Statement |
|---|---|---|
| `ThreadPoolProofs` | `TypeCorrect` | `Spec => []TypeOK` |
| | `MapInvariant` | `Spec => []MapInv` |
| | `MapsCorrect` | `Spec => []EachThreadInOneMap` |
| | `NoLeakedThread` | `Spec => []GoneMeansDeleted` |
| | `TasksConserved` | `Spec => []TaskConservation` |
| | `PoolImplementsService` | `Spec => ImplementsService` |
| `SteadyProofs` | `WakeupsKept` | `SteadySpec => []NoLostWakeup` |
| | `WorkersListed` | `SteadySpec => []WorkingMeansRunning` |
| | `TrimHarmless` | `SteadySpec => []TrimInterruptsNobody` |
| | `ExitKept` | `SteadySpec => ExitIsFinal` |
| `QueueProofs` | `TypeCorrect` | `Spec => []TypeOK`: `size_` is never negative |
| | `ListsSound` | `Spec => []ListInv` |
| | `CallsExclude` | `Spec => []LockInv` |
| | `NodesMatch` | `Spec => []NodesMatchLists` |
| | `SizeRight` | `Spec => []SizeWithinOne` |
| | `LastNodeLeft` | `Spec => []DestroyLeavesTheLast` |
| | `QueueImplementsService` | `Spec => ImplementsService` |
| `PoolConfig` | `LimitsNeverPassed` | `Spec => []LimitsKept` |
| `DescriptorProofs` | `TypeCorrect` | `Spec => []TypeOK` |
| | `HolderInvariant` | `Spec => []HolderInv` |
| | `NeverHeldTwice` | `Spec => []HeldOnce` |
| | `NothingElseLost` | `Spec => []OpenIsHeld` |
| | `DescriptorsImplementOwnership` | `Spec => ImplementsOwnership` |
| `TransferProofs` | `TypeCorrect` | `Spec => []TypeOK` |
| | `BytesInOrder` | `Spec => []InOrder` |
| | `SendCounts` | `Spec => []SendReportsSent` |
| | `SendsEnough` | `Spec => []SentEnough` |
| | `RecvEnd` | `Spec => []ZeroMeansEnd` |
| | `OrderRight` | `Spec => []OrderErrsOneWay` |
| | `IteratorsRight` | `Spec => []IteratorsSeeContents` |
| | `LoopsDescend` | a step taken while a call runs ends it or leaves less to move |
| `EchoProofs` | `ServerTypesCorrect` | `ServerSpec => []ServerTypeOK` |
| | `NumbersKept` | `ServerSpec => []NumbersNotMixedUp` |
| | `ConnectionsKept` | `ServerSpec => []OneLostAtMost` |
| `ClientProofs` | `ClientTypesCorrect` | `ClientSpec => []ClientTypeOK` |
| | `SocketsKept` | `ClientSpec => []NoSocketLost` |

Assumptions: workers are finitely many natural numbers (addresses) and the names
of actors and markers differ from them (`WorkersAssumption`,
`NamesAssumption`); blocking and priority tasks are tasks; the constants have
their types; the names of objects, threads, numbers and markers are different
(`ObjectsAssumption`, `HoldersAssumption`, `QueueAssumption`); the default
configuration is within the limits (`ConfigAssumption`: 5 and 10 threads in the
code); the tasks of `TaskQueue` are finitely many (`TasksAssumption`); a `size_t`
counts every byte that comes in, every request and, for `recv`, one more
(`TransferAssumption`); in the echo programs a task is named like its Socket, no
task is urgent or blocking, and the pool is stopped with
`SHUTDOWN_ALL_THREAD_IMMEDIATELY`, as both programs configure it
(`EchoAssumption`, `ServerAssumption`, `ClientAssumption`). TLC evaluates all of
them.

*Maps.* `EachThreadInOneMap` is not inductive: to know that the insertion of a
moving thread and its later erasure concern the same thread, one needs who holds
`thread_mutex_` (`LockInv`); to know that a thread about to be removed was not
removed before, the life of its object (`ObjectInv`); to know that the manager's
unlocked insertion cannot duplicate a thread, that nobody else knows a thread
that is being created: no iterator stands on it, no call targets it, and its
own thread cannot leave WAITING (`FreshInv`); and where a thread is listed at
each step of a move (`ListInv`). `MapInv` is their conjunction; it is inductive
together with `TypeOK`. There is one lemma per thread (worker, call on a
worker, manager, stopper, others) and in it one step per action.

*Tasks.* Only four actions touch the tasks (`TaskSteps`); `ConservationPush` and
`ConservationGet` carry `TaskConservation` through the two that change a queue,
with lemmas about the places of elements under `Append` and `Tail`. The
refinement follows: a `Push` is an `Accept`, `GetTask` a `Give`, `FinishTask` a
`Finish`, every other step a stutter; `TaskConservation` gives that the task a
worker takes has not been given before. So whatever the unlocked maps do to the
threads, tasks are handled as `TaskService` says.

*Wakeups.* While nobody shuts the pool down, the manager is the only caller of
`resume()` and `stop_handler()`, and `SteadyInv` says what it may rely on. Per
worker: which states are possible at which step (`StateInv`), that a worker that
runs or comes to rest is listed as running or about to be (`PlaceInv`), that the
thread being resumed is idle and the one being trimmed is quiet, and stays so
until it has its EXIT (`CalleeInv`), and that a sleeper with a new state has its
signal coming (`WakeInv`). With `TypeOK` and `MapInv` this is inductive. The
lists matter to the wakeups: `begin()` of `idle_threads_` returns a worker that
rests because whoever runs is in the other map.

*Queue.* The witness of `ListInv` is the sequence of a list's nodes: different,
none freed, in the order of `next_node` from `head_`, `tail_` on the last, but on
the one before while a node is being pushed. A push appends to the witness at
`Link`, a pop takes its head at `Unlink`, the destructor too; every other step
leaves it (`ListFrame`). A node is freed only after it has left the witness, and
it was pushed by a client that has left `push`. `size_` differs from the length by
the node between link and count. Mutual exclusion (`LockInv`) makes all this one
call at a time. `Contents` walks along `next_node` in as many steps as there are
tasks. `WalkIs` shows that after `i` steps it has seen the first `i + 1` nodes of
the witness, so that `Contents` is the witness, and the three invariants about
lists, sizes and nodes are read off it. The induction over the steps is done on
the set of numbers for which the claim holds: a non-empty set of naturals has a
least element (`Least`, `Induction`). In the refinement a push is an `Accept` at
`SetTail`, a pop a `Give` at `Unlink` and the return of `work_func` a `Finish`.
`GivenInv` says that the choice between the two lists still holds at `Unlink`,
that no two workers have the same task, and that a finished one is no node any
more.

*Descriptors.* `HeldOnce` and `OpenIsHeld` need each other, and `CallInv`: two
threads never share an object; the number about to be closed has left its
object; an open Stream owns its descriptor, since `set_fd` leaves
`file_open_flag_` false. The refinement maps a number to its holder, which
`HeldOnce` makes unique, so that each step changes one holder at most.

*Transfer.* `DataInv` says what the ring is: `Sound` (the positions lie in the
memory and `used` is their distance) and `Follow` (the k-th unread byte is the
k-th after those that left). One lemma each shows what `Filling`, `Emptying`,
`Growing` and `Putting` do to them, with the modulus reduced to one subtraction
(`Wrap`). `CallsInv` adds what a call knows: `remain` is `n - moved`, plus
`SizeMod` if that is negative, so `send` recovers `moved` from it, and a loop that
goes on has more to move. That `remain_size` is not 0 by accident after it has
wrapped rests on `TransferAssumption`. An iterator's k-th position is computed
by the induction described above (`StepsFromBegin`); `Check`, `Move` and the four
comparisons are reduced to the distance from the read position. `LoopsDescend` gives the
measure by which every loop ends; that the loop does go on is fairness, so
`LoopsEnd` itself is model-checked.

*Echo server.* `SystemInv` joins the types, the invariants of the pool
(`SteadyInv`, `MapInv`, `TaskConservation`) and `ServerInv`. Before the pool is
stopped every number in use is open, and one thread closes it, the worker of its
task: no two workers have the same task (`TaskConservation`), and no `exit_task`
runs on a thread that exists (`TrimInterruptsNobody`). After it, main accepts no
more, so a number that two threads close or that a handler still uses is never
handed out again. The steps of the pool are not looked at again:
`EchoProofs` uses the lemmas of `SteadyProofs` and `ThreadPoolProofs` for them.
For `OneLostAtMost`, `LossInv` says that only SIGINT takes something out of
main's hands, that main holds one thing at most, a number that `accept` returned
or a Socket not yet in the pool, and that nothing is lost after it.

*Echo client.* `ClientInv` joins `ClientTypeOK`, `MapInv` and `TaskConservation`
with two statements about Sockets: how far main is with the task it is adding,
whatever the handler on its stack does to the pool meanwhile (`AddingInv`), and
that a handler deletes its Socket before its task is over, and `delete` a closed
one (`DeletingInv`). SIGINT may come at any step, so nothing of `SteadyInv` is
available: a Socket is closed twice, or used after its deletion, and still none is
dropped while the pool accepts tasks.

Model-checked only is liveness, which rests on fairness and ENABLED:
`NormalTasksServed`, `TickEnds`, `IdlePoolStops`, `LoopsEnd`, `ServerStops` and
`ClientStops`.

## 6. Not modelled

In this system:

- The file offset of a Stream (`seek`, `curr_pos`, `read_from_pos`,
  `write_to_pos`), `clear_file`, `fileinfo` and the formatted functions; the
  options and getters of a Socket. They keep no state that the modelled parts
  read.
- The typed reads and writes and the copies of `ByteBuffer`, and logging: their
  code is in prebuilt libraries (`src/lib`), and the header alone says too little.
- The limits of the pool as variables that change while the manager runs; they
  are constants of `ThreadPool`. The failure of `pthread_create` for the manager.
- `info()` (formatting), `trylock` and the join in `wait_thread`, other than the
  client's use of it; `file_test.cc`, the empty TCP server, and googletest and
  googlemock, vendored headers that no file of the repository uses and that are
  the larger part of its lines (about 25,000 of 27,600).

Next, in this order: a server with the task that prints the state of the pool,
which needs a smaller model of the manager; the limits as variables.
