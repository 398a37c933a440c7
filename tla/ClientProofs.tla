---------------------------- MODULE ClientProofs ----------------------------
(***************************************************************************)
(* Theorems about the echo client of src/main/echo_client_test.cc, for any *)
(* number of connections, WorkThreads and descriptors: no open Socket gets *)
(* lost before the pool has closed.  They rest on the invariants of the    *)
(* thread pool, which SIGINT stops while main may be adding a task.        *)
(***************************************************************************)
EXTENDS EchoClient, ThreadPoolProofs

USE DEF workerVars, mapVars, taskVars, poolVars, callVars, loopVars, actorVars
USE DEF netVars, HandlerPC, Net!Kinds, Net!Unused

ClientMPC == {"init", "create", "add", "lock", "push", "unlock", "join", "returned"}

\* The inductive invariant.
ClientInv == ClientTypeOK /\ MapInv /\ TaskConservation /\ AddingInv /\ DeletingInv

-----------------------------------------------------------------------------
(* The pool inside the client.                                             *)

\* What a step of the client is to the pool: exit_ stays set, but for an init
\* that comes after the signal, and only the signal starts a shutdown.
LEMMA ClientStepOfPool ==
  ASSUME ClientTypeOK, ClientNext
  PROVE  /\ Next \/ UNCHANGED vars \/ CrashOnly
         /\ exit_ => exit_' \/ mpc = "init"
         /\ pc'[Main] \notin {"off", "done"} => in_handler'
<1> USE DEF Goes, Handles, Running, Main
<1>1. /\ mpc \in {"add", "lock", "push", "unlock"} <=> cur # None
      /\ cur \in Tasks \cup {None}
      /\ ~crashed
      /\ TypeOK
      /\ pc[Main] \notin {"off", "done"} => in_handler
  BY DEF ClientTypeOK, EchoTypes, ClientNext
<1>2. ASSUME OwnStep, in_handler' = in_handler
      PROVE  /\ Next /\ (exit_ => exit_')
             /\ pc'[Main] \notin {"off", "done"} => in_handler'
  <2>1. Next BY <1>1, <1>2 DEF OwnStep, Next, SteadyNext
  <2>2. exit_ => exit_' BY <1>1, <1>2, OwnSteps DEF SetExit
  <2> QED BY <1>1, <1>2, <2>1, <2>2, OwnSteps
<1>3. ASSUME UNCHANGED vars \/ CrashOnly, in_handler' = in_handler \/ pc[Main] = "done"
      PROVE  exit_' = exit_ /\ (pc'[Main] \notin {"off", "done"} => in_handler')
  BY <1>1, <1>3 DEF vars, CrashOnly
<1>4. ASSUME NEW w \in Workers,
             ClientThread(w) \/ (Wakeup(w) /\ UNCHANGED <<exit_state, in_handler>>)
      PROVE  (OwnStep \/ UNCHANGED vars) /\ in_handler' = in_handler
  BY <1>1, <1>4 DEF ClientThread, WorkerThread, Wakeup, PoolWorker, CloseStep, DeleteSocket, EndHandler,
     Connect, Round, OwnStep, WorkerStep
<1>5. ASSUME NEW a \in Actors, ActorThread(a), UNCHANGED <<exit_state, in_handler>>
      PROVE  OwnStep \/ UNCHANGED vars \/ CrashOnly
  BY <1>1, <1>5 DEF ActorThread, PoolActor, CloseStep, EchoExit, EchoCrash, OwnStep, ActorStep,
     CallStep, CrashOnly
<1>6. ASSUME NEW w \in Workers, NEW c \in Tasks, Answered(w, c)
      PROVE  UNCHANGED vars /\ in_handler' = in_handler
  BY <1>6 DEF Answered
<1>7. ASSUME MainStep, UNCHANGED <<exit_state, in_handler>>
      PROVE  \/ OwnStep \/ UNCHANGED vars
             \/ StartPool /\ mpc = "init"
  BY <1>1, <1>7 DEF MainStep, InitPool, NewSocket, TestExit, JoinPool, AddStep, AddCurrent, LockTasks,
     PushCurrent, UnlockTasks, OwnStep, ClientStep
<1>8. ASSUME StartPool, in_handler' = in_handler
      PROVE  Next /\ pc'[Main] = pc[Main]
  BY <1>1, <1>8, NamesAssumption DEF StartPool, Goto, Next, SteadyNext, TypeOK, Actors
<1>9. ASSUME HandlerReturns PROVE UNCHANGED vars /\ pc[Main] = "done"
  BY <1>9 DEF HandlerReturns, echoVars
<1>10. ASSUME Sigint PROVE Next /\ exit_' = exit_ /\ in_handler'
  BY <1>1, <1>10, ClientAssumption DEF Sigint, BeginShutdown, Next
<1> QED BY <1>1, <1>2, <1>3, <1>4, <1>5, <1>6, <1>7, <1>8, <1>9, <1>10 DEF ClientNext, ClientActor

\* The pool keeps its invariants inside the client.
LEMMA ClientPoolStep ==
  ASSUME ClientInv, ClientNext
  PROVE  TypeOK' /\ MapInv' /\ TaskConservation'
<1>1. TypeOK /\ MapInv /\ TaskConservation
  BY DEF ClientInv, ClientTypeOK, EchoTypes
<1>2. Next \/ UNCHANGED vars \/ CrashOnly
  BY ClientStepOfPool DEF ClientInv
<1> QED BY <1>1, <1>2, TypeOKStep, MapInvStep, ConservationStep, CrashKeeps

-----------------------------------------------------------------------------
(* The types, and what most steps leave alone.                             *)

\* Types that a step of the client can disturb.
ClientFrame ==
  /\ cur \in Tasks \cup {None}
  /\ mpc \in {"add", "lock", "push", "unlock"} <=> cur # None
  /\ task_mutex \in {Free, Main}
  /\ hpc \in [Tasks -> HandlerPC]
  /\ kind \in [Fds -> Net!Kinds]
  /\ app \subseteq Fds
  /\ is_enable \in [Sockets -> BOOLEAN]
  /\ socket \in [Sockets -> Fds \cup {None}]
  /\ at \in [Workers \cup Actors -> {"out", "close", "clear", "close_fd"}]
  /\ obj \in [Workers \cup Actors -> Sockets \cup {None}]
  /\ \A s \in Sockets : is_enable[s] => socket[s] \in Fds
  /\ exit_state \in BOOLEAN /\ in_handler \in BOOLEAN
  /\ mpc \in ClientMPC

\* Where a thread is in a member function, it is there on a Socket; a worker, on
\* that of its task.
InSocket ==
  /\ \A th \in Workers \cup Actors : at[th] # "out" => obj[th] \in Sockets
  /\ \A w \in Workers : at[w] # "out" => wpc[w] = "work" /\ obj[w] = task[w]

\* What every step starts from.
Before ==
  /\ TypeOK /\ MapInv /\ TaskConservation /\ ClientFrame /\ InSocket /\ AddingInv /\ DeletingInv
  /\ exit_ => exit_' \/ mpc = "init"

\* What it has to keep.
After == ClientFrame' /\ InSocket' /\ AddingInv' /\ DeletingInv'

LEMMA ClientTypes ==
  /\ ClientTypeOK => TypeOK /\ ClientFrame /\ InSocket
  /\ TypeOK' /\ ClientFrame' /\ InSocket' /\ (pc'[Main] \notin {"off", "done"} => in_handler')
       => ClientTypeOK'
BY DEF ClientTypeOK, EchoTypes, ClientFrame, InSocket, ClientMPC

\* A task that a worker is running is taken, and by no other worker.
LEMMA OneWorker ==
  ASSUME Before, NEW w \in Workers, wpc[w] = "work"
  PROVE  /\ task[w] \in Tasks /\ task[w] \in Sockets /\ tpc[task[w]] = "taken"
         /\ \A v \in Workers : wpc[v] = "work" /\ task[v] = task[w] => v = w
BY EchoAssumption DEF Before, TypeOK, TaskConservation

\* Main's steps that create no Socket and are not in add_task.
MainMoves ==
  \/ mpc' = mpc /\ cur' = cur
  \/ mpc = "init" /\ mpc' = "create" /\ cur' = cur
  \/ mpc = "create" /\ mpc' \in {"create", "join"} /\ cur' = cur
  \/ mpc = "join" /\ mpc' = "returned" /\ cur' = cur
  \/ mpc = "lock" /\ mpc' = "push" /\ cur' = cur
  \/ mpc = "unlock" /\ mpc' = "create" /\ cur' = None

\* They, and what workers do with the tasks, disturb no Socket being added.
LEMMA AddingCalm ==
  ASSUME Before, MainMoves,
         \A c \in Tasks : is_enable'[c] => is_enable[c],
         \A c \in Tasks : \/ tpc'[c] = tpc[c]
                          \/ tpc[c] = "queued" /\ tpc'[c] = "taken"
                          \/ tpc[c] = "taken" /\ tpc'[c] = "done"
  PROVE  AddingInv'
<1>1. /\ mpc \in {"add", "lock", "push", "unlock"} <=> cur # None
      /\ cur \in Tasks \cup {None}
      /\ AddingInv /\ (exit_ => exit_' \/ mpc = "init")
  BY DEF Before, ClientFrame
<1>2. /\ mpc' = "init" => mpc = "init"
      /\ mpc' = "init" => \A c \in Tasks : tpc'[c] = "new" /\ ~is_enable'[c]
  BY <1>1 DEF AddingInv, MainMoves
<1>3. /\ mpc' = "add" => tpc'[cur'] = "new"
      /\ mpc' \in {"lock", "push"} => tpc'[cur'] = "admitted"
      /\ mpc' = "unlock" => tpc'[cur'] \in {"queued", "taken", "done"}
  BY <1>1 DEF AddingInv, MainMoves
<1>4. ASSUME NEW c \in Tasks
      PROVE  /\ tpc'[c] = "new" /\ is_enable'[c] => cur' = c
             /\ tpc'[c] = "admitted" => cur' = c
             /\ tpc'[c] = "rejected" => exit_'
  BY <1>1 DEF AddingInv, MainMoves
<1> QED BY <1>2, <1>3, <1>4 DEF AddingInv

\* A handler and its close are where they were.
LEMMA DeletingCalm ==
  ASSUME Before, UNCHANGED hpc,
         \A w \in Workers : at'[w] = at[w] /\ obj'[w] = obj[w],
         \A a \in Actors : at'[a] # "out" => obj'[a] \in Sockets,
         \A c \in Tasks : is_enable'[c] => is_enable[c] \/ tpc[c] = "new",
         \A c \in Tasks : \/ tpc'[c] = tpc[c]
                          \/ tpc[c] \in {"new", "admitted", "queued"} /\ tpc'[c] # "done",
         \A w \in Workers : wpc[w] = "work" => wpc'[w] = "work" /\ task'[w] = task[w],
         \A w \in Workers : wpc'[w] = "work" =>
           task'[w] \in Tasks /\ (wpc[w] = "work" \/ hpc[task'[w]] = "start")
  PROVE  InSocket' /\ DeletingInv'
<1>1. InSocket /\ DeletingInv
  BY DEF Before
<1>2. InSocket'
  BY <1>1 DEF InSocket
<1>3. \A c \in Tasks : is_enable'[c] => is_enable[c] \/ hpc[c] = "start"
  BY <1>1 DEF DeletingInv
<1>4. \A c \in Tasks : /\ tpc'[c] \notin {"taken", "done"} => hpc'[c] = "start"
                       /\ tpc'[c] = "done" <=> hpc'[c] = "freed"
                       /\ hpc'[c] = "freed" => ~is_enable'[c]
  BY <1>1, <1>3 DEF DeletingInv
<1>5. ASSUME NEW w \in Workers, at'[w] # "out"
      PROVE  /\ hpc'[task'[w]] \in {"delete", "closing"}
             /\ at'[w] = "close_fd" => ~is_enable'[obj'[w]]
  <2>1. /\ wpc[w] = "work" /\ task'[w] = task[w] /\ obj[w] = task[w]
        /\ hpc[task[w]] \in {"delete", "closing"}
    BY <1>1, <1>5 DEF InSocket, DeletingInv
  <2>2. task[w] \in Tasks BY <2>1, OneWorker
  <2> QED BY <1>1, <1>3, <2>1, <2>2 DEF DeletingInv
<1>6. ASSUME NEW w \in Workers, wpc'[w] = "work", hpc'[task'[w]] = "closing", at'[w] = "out"
      PROVE  ~is_enable'[task'[w]]
  BY <1>1, <1>3, <1>6 DEF DeletingInv
<1> QED BY <1>2, <1>4, <1>5, <1>6 DEF DeletingInv

-----------------------------------------------------------------------------
(* The steps.                                                              *)

\* The steps of the pool, and those of main that do nothing else.
PoolSteps ==
  \/ \E w \in Workers : PoolWorker(w) \/ Wakeup(w)
  \/ \E a \in Actors : PoolActor(a) /\ ~EchoExit(a)
  \/ InitPool("init", "create")

LEMMA PoolKeepsSockets ==
  ASSUME Before,
         \/ PoolSteps /\ UNCHANGED <<exit_state, in_handler>>
         \/ Sigint
  PROVE  After
<1>1. /\ TypeOK /\ MapInv /\ TaskConservation /\ ClientFrame /\ InSocket /\ DeletingInv
      /\ \A w \in Workers : wpc[w] = "work" => task[w] \in Tasks
  BY DEF Before, TypeOK
<1>2. UNCHANGED <<cur, task_mutex, hpc, netVars, exit_state>> /\ MainMoves
      /\ in_handler' \in {TRUE, in_handler}
  BY DEF PoolSteps, PoolWorker, Wakeup, PoolActor, InitPool, Goes, Sigint, MainMoves
<1>3. QuietStep \/ \E w \in Workers : GetTask(w)
  <2>1. ASSUME NEW w \in Workers, PoolWorker(w) \/ Wakeup(w)
        PROVE  QuietStep \/ GetTask(w)
    BY <1>1, <2>1, WorkerTaskSteps
       DEF PoolWorker, Wakeup, FinishTask, GetTask, At, SpuriousWakeup, Step
  <2> QED BY <1>1, <2>1, ActorTaskSteps, ClientAssumption
             DEF PoolSteps, PoolActor, InitPool, Sigint
<1>4. /\ \A c \in Tasks : tpc'[c] = tpc[c] \/ (tpc[c] = "queued" /\ tpc'[c] = "taken")
      /\ \A w \in Workers : wpc[w] = "work" => wpc'[w] = "work" /\ task'[w] = task[w]
      /\ \A w \in Workers : wpc'[w] = "work" =>
           task'[w] \in Tasks /\ (wpc[w] = "work" \/ hpc[task'[w]] = "start")
  <2>1. CASE QuietStep BY <1>1, <2>1 DEF QuietStep
  <2>2. ASSUME NEW w \in Workers, GetTask(w)
        PROVE  /\ \A c \in Tasks : tpc'[c] = tpc[c] \/ (tpc[c] = "queued" /\ tpc'[c] = "taken")
               /\ \A v \in Workers : wpc[v] = "work" => wpc'[v] = "work" /\ task'[v] = task[v]
               /\ \A v \in Workers : wpc'[v] = "work" =>
                    task'[v] \in Tasks /\ (wpc[v] = "work" \/ hpc[task'[v]] = "start")
    <3>1. PICK t \in Tasks : /\ tpc[t] = "queued" /\ tpc' = [tpc EXCEPT ![t] = "taken"]
                             /\ task' = [task EXCEPT ![w] = t]
                             /\ wpc' = [wpc EXCEPT ![w] = "work"]
      BY <1>1, <2>2, TaskTaken
    <3>2. hpc[t] = "start" BY <1>1, <3>1 DEF DeletingInv
    <3>3. wpc[w] = "get_task" BY <2>2 DEF GetTask, At
    <3> QED BY <1>1, <3>1, <3>2, <3>3 DEF TypeOK
  <2> QED BY <1>3, <2>1, <2>2
<1>5. AddingInv' BY <1>2, <1>4, AddingCalm
<1>6. InSocket' /\ DeletingInv' BY <1>1, <1>2, <1>4, DeletingCalm DEF InSocket
<1>7. ClientFrame' BY <1>1, <1>2 DEF ClientFrame, MainMoves, ClientMPC
<1> QED BY <1>5, <1>6, <1>7 DEF After

\* echo_exit only starts a close.
LEMMA ExitKeepsSockets ==
  ASSUME Before, NEW a \in Actors, EchoExit(a), UNCHANGED <<exit_state, in_handler>>
  PROVE  After
<1>1. /\ TypeOK /\ MapInv /\ ClientFrame /\ InSocket
      /\ \A w \in Workers : wpc[w] = "work" => task[w] \in Tasks
      /\ at \in [Workers \cup Actors -> {"out", "close", "clear", "close_fd"}]
      /\ obj \in [Workers \cup Actors -> Sockets \cup {None}]
      /\ a \notin Workers
  BY NamesAssumption DEF Before, TypeOK, ClientFrame
<1>2. QuietStep
  BY <1>1, ActorTaskSteps DEF EchoExit, ActorStep, CallStep
<1>3. /\ UNCHANGED <<mpc, cur, task_mutex, hpc, kind, app, is_enable, socket>>
      /\ \/ \E c \in Sockets : at' = [at EXCEPT ![a] = "close"] /\ obj' = [obj EXCEPT ![a] = c]
         \/ UNCHANGED <<at, obj>>
  BY EchoAssumption DEF EchoExit, Net!Enter
<1>4. AddingInv'
  BY <1>2, <1>3, AddingCalm DEF QuietStep, MainMoves
<1>5. InSocket' /\ DeletingInv'
  <2>1. \A th \in Workers \cup Actors : at'[th] # "out" => obj'[th] \in Sockets
    BY <1>1, <1>3 DEF InSocket
  <2>2. \A w \in Workers : at'[w] = at[w] /\ obj'[w] = obj[w]
    BY <1>1, <1>3
  <2> QED BY <1>1, <1>2, <1>3, <2>1, <2>2, DeletingCalm DEF QuietStep
<1>6. ClientFrame' BY <1>1, <1>3 DEF ClientFrame
<1> QED BY <1>4, <1>5, <1>6 DEF After

\* Main's other steps, and those of a dying process.
LEMMA MainKeepsSockets ==
  ASSUME Before,
         \/ (LockTasks \/ UnlockTasks("create") \/ TestExit \/ JoinPool) /\ UNCHANGED <<exit_state, in_handler>>
         \/ (\E a \in Actors : EchoCrash(a)) /\ UNCHANGED <<exit_state, in_handler>>
         \/ HandlerReturns
  PROVE  After
<1>1. /\ ClientFrame /\ InSocket
      /\ \A w \in Workers : wpc[w] = "work" => task[w] \in Tasks
  BY DEF Before, TypeOK
<1>2. UNCHANGED <<tpc, wpc, task, hpc, kind, app, at, obj, is_enable, socket>> /\ MainMoves
      /\ task_mutex' \in {task_mutex, Free, Main}
      /\ exit_state' \in {TRUE, exit_state} /\ in_handler' \in {FALSE, in_handler}
  BY DEF LockTasks, UnlockTasks, TestExit, JoinPool, EchoCrash, Crash, HandlerReturns, Goes, MainMoves,
     vars, echoVars
<1>3. AddingInv' BY <1>2, AddingCalm
<1>4. InSocket' /\ DeletingInv' BY <1>1, <1>2, DeletingCalm DEF InSocket
<1>5. ClientFrame'
  BY <1>1, <1>2, EchoAssumption DEF ClientFrame, MainMoves, ClientMPC
<1> QED BY <1>3, <1>4, <1>5 DEF After

\* Main makes a Socket, and adds its task.
LEMMA AddKeepsSockets ==
  ASSUME Before, NewSocket \/ AddCurrent("create") \/ PushCurrent, UNCHANGED <<exit_state, in_handler>>
  PROVE  After
<1>1. /\ TypeOK /\ ClientFrame /\ InSocket /\ AddingInv
      /\ \A w \in Workers : wpc[w] = "work" => task[w] \in Tasks
      /\ tpc \in [Tasks -> {"new", "rejected", "admitted", "queued", "taken", "done"}]
      /\ is_enable \in [Sockets -> BOOLEAN]
      /\ socket \in [Sockets -> Fds \cup {None}]
      /\ Tasks \subseteq Sockets
  BY EchoAssumption DEF Before, TypeOK, ClientFrame
<1>2. UNCHANGED <<wpc, task, hpc, at, obj, task_mutex, app>>
  BY DEF NewSocket, AddCurrent, PushCurrent, AddTask, Push, Net!CreateSocket, Net!frameVars, vars
<1>3. CASE NewSocket
  <2>1. PICK c \in Tasks, fd \in Fds :
          /\ tpc[c] = "new" /\ cur' = c /\ mpc = "create" /\ mpc' = "add"
          /\ kind' = [kind EXCEPT ![fd] = "socket"]
          /\ socket' = [socket EXCEPT ![c] = fd]
          /\ is_enable' = [is_enable EXCEPT ![c] = TRUE]
          /\ UNCHANGED <<tpc, exit_>>
    BY <1>3 DEF NewSocket, Goes, Net!CreateSocket, Net!Becomes, vars
  <2>2. ClientFrame'
    BY <1>1, <1>2, <2>1, TasksAssumption DEF ClientFrame, ClientMPC
  <2>3. AddingInv'
    <3>1. \A d \in Tasks : ~(tpc[d] = "new" /\ is_enable[d]) /\ tpc[d] # "admitted"
      BY <1>1, <2>1, TasksAssumption DEF AddingInv, ClientFrame
    <3> QED BY <1>1, <2>1, <3>1 DEF AddingInv
  <2>4. InSocket' /\ DeletingInv'
    BY <1>1, <1>2, <2>1, DeletingCalm DEF InSocket
  <2> QED BY <2>2, <2>3, <2>4 DEF After
<1>4. CASE AddCurrent("create") \/ PushCurrent
  <2>1. /\ UNCHANGED <<kind, is_enable, socket, exit_>> /\ cur \in Tasks
        /\ \/ /\ mpc = "add" /\ exit_ /\ mpc' = "create" /\ cur' = None
              /\ tpc[cur] = "new" /\ tpc' = [tpc EXCEPT ![cur] = "rejected"]
           \/ /\ mpc = "add" /\ ~exit_ /\ mpc' = "lock" /\ cur' = cur
              /\ tpc[cur] = "new" /\ tpc' = [tpc EXCEPT ![cur] = "admitted"]
           \/ /\ mpc = "push" /\ mpc' = "unlock" /\ cur' = cur
              /\ tpc[cur] = "admitted" /\ tpc' = [tpc EXCEPT ![cur] = "queued"]
    BY <1>1, <1>4 DEF AddCurrent, PushCurrent, AddTask, Push, Goes, ClientFrame
  <2>2. ClientFrame'
    BY <1>1, <1>2, <2>1, TasksAssumption DEF ClientFrame, ClientMPC
  <2>3. AddingInv'
    BY <1>1, <2>1 DEF AddingInv
  <2>4. InSocket' /\ DeletingInv'
    BY <1>1, <1>2, <2>1, DeletingCalm DEF InSocket
  <2> QED BY <2>2, <2>3, <2>4 DEF After
<1> QED BY <1>3, <1>4

\* A close ends with its Socket closed.
LEMMA CloseKeepsSockets ==
  ASSUME Before, NEW th \in Workers \cup Actors, CloseStep(th), UNCHANGED <<exit_state, in_handler>>
  PROVE  After
<1>1. /\ TypeOK /\ ClientFrame /\ InSocket /\ DeletingInv /\ Tasks \subseteq Sockets
      /\ at \in [Workers \cup Actors -> {"out", "close", "clear", "close_fd"}]
      /\ obj \in [Workers \cup Actors -> Sockets \cup {None}]
      /\ is_enable \in [Sockets -> BOOLEAN]
  BY EchoAssumption DEF Before, ClientFrame
<1>2. UNCHANGED <<vars, mpc, cur, task_mutex, hpc, app, socket>>
  BY DEF CloseStep, Net!CloseTest, Net!CloseClear, Net!CloseFd, Net!fdVars, Net!socketVars
<1>3. at[th] # "out" /\ obj[th] \in Sockets
  BY <1>1 DEF CloseStep, Net!CloseTest, Net!CloseClear, Net!CloseFd, Net!Advance, Net!Leave, InSocket
<1>4. /\ \A s \in Sockets : is_enable'[s] => is_enable[s]
      /\ \A t2 \in (Workers \cup Actors) \ {th} : at'[t2] = at[t2] /\ obj'[t2] = obj[t2]
      /\ at'[th] # "out" => obj'[th] = obj[th]
      /\ at'[th] = "close_fd" => ~is_enable'[obj'[th]]
      /\ at'[th] = "out" => ~is_enable'[obj[th]] \/ at[th] = "close_fd"
  <2>1. CASE Net!CloseTest(th)
    BY <1>1, <1>3, <2>1 DEF Net!CloseTest, Net!Advance, Net!Leave, Net!socketVars
  <2>2. CASE Net!CloseClear(th)
    BY <1>1, <1>3, <2>2 DEF Net!CloseClear, Net!Advance
  <2>3. CASE Net!CloseFd(th)
    BY <1>1, <1>3, <2>3 DEF Net!CloseFd, Net!Leave, Net!socketVars
  <2> QED BY <2>1, <2>2, <2>3 DEF CloseStep
<1>5. ClientFrame'
  <2>1. /\ at' \in [Workers \cup Actors -> {"out", "close", "clear", "close_fd"}]
        /\ obj' \in [Workers \cup Actors -> Sockets \cup {None}]
        /\ is_enable' \in [Sockets -> BOOLEAN]
    BY <1>1, <1>3 DEF CloseStep, Net!CloseTest, Net!CloseClear, Net!CloseFd, Net!Advance, Net!Leave,
       Net!socketVars
  <2>2. kind' \in [Fds -> Net!Kinds]
    BY <1>1 DEF ClientFrame, CloseStep, Net!CloseTest, Net!CloseClear, Net!CloseFd, Net!Becomes, Net!fdVars
  <2> QED BY <1>1, <1>2, <1>4, <2>1, <2>2 DEF ClientFrame
<1>6. UNCHANGED <<wpc, task, tpc, exit_>> BY <1>2 DEF vars
<1>7. AddingInv' BY <1>1, <1>2, <1>4, <1>6, AddingCalm DEF MainMoves
<1>8. InSocket'
  BY <1>1, <1>3, <1>4, <1>6 DEF InSocket
<1>9. ASSUME NEW w \in Workers
      PROVE  /\ at'[w] # "out" => hpc'[task'[w]] \in {"delete", "closing"}
             /\ at'[w] = "close_fd" => ~is_enable'[obj'[w]]
             /\ wpc'[w] = "work" /\ hpc'[task'[w]] = "closing" /\ at'[w] = "out" => ~is_enable'[task'[w]]
  <2>1. /\ at[w] # "out" => obj[w] \in Sockets /\ obj[w] = task[w] /\ hpc[task[w]] \in {"delete", "closing"}
        /\ wpc[w] = "work" => task[w] \in Sockets
        /\ at[w] = "close_fd" => ~is_enable[obj[w]]
        /\ wpc[w] = "work" /\ hpc[task[w]] = "closing" /\ at[w] = "out" => ~is_enable[task[w]]
    BY <1>1, OneWorker DEF InSocket, DeletingInv
  <2>2. CASE w = th BY <1>2, <1>3, <1>4, <1>6, <2>1, <2>2
  <2>3. CASE w # th BY <1>2, <1>4, <1>6, <2>1, <2>3
  <2> QED BY <2>2, <2>3
<1>10. \A c \in Tasks : /\ tpc'[c] \notin {"taken", "done"} => hpc'[c] = "start"
                        /\ tpc'[c] = "done" <=> hpc'[c] = "freed"
                        /\ hpc'[c] = "freed" => ~is_enable'[c]
  BY <1>1, <1>2, <1>4, <1>6 DEF DeletingInv
<1> QED BY <1>5, <1>7, <1>8, <1>9, <1>10 DEF After, DeletingInv

\* The steps of echo_handler, from connect to delete.
LEMMA HandlerKeepsSockets ==
  ASSUME Before, NEW w \in Workers, NEW c \in Tasks,
         \/ (Connect(w, c) \/ Round(w, c)) /\ UNCHANGED <<exit_state, in_handler>>
         \/ Answered(w, c)
         \/ (DeleteSocket(w, c) \/ EndHandler(w, c)) /\ UNCHANGED <<exit_state, in_handler>>
  PROVE  After
<1>1. /\ TypeOK /\ ClientFrame /\ InSocket /\ DeletingInv /\ c \in Sockets
      /\ hpc \in [Tasks -> HandlerPC]
      /\ kind \in [Fds -> Net!Kinds]
      /\ at \in [Workers \cup Actors -> {"out", "close", "clear", "close_fd"}]
      /\ obj \in [Workers \cup Actors -> Sockets \cup {None}]
      /\ wpc \in [Workers -> WorkerPC]
      /\ tpc \in [Tasks -> {"new", "rejected", "admitted", "queued", "taken", "done"}]
  BY EchoAssumption DEF Before, ClientFrame, TypeOK
<1>2. /\ wpc[w] = "work" /\ task[w] = c /\ at[w] = "out"
      /\ UNCHANGED <<mpc, cur, task_mutex, app, is_enable, socket, task, exit_, exit_state, in_handler>>
      /\ kind' \in [Fds -> Net!Kinds]
      /\ \/ /\ hpc[c] \in {"start", "round", "blocked"}
            /\ \E to \in {"round", "blocked", "delete"} : hpc' = [hpc EXCEPT ![c] = to]
            /\ UNCHANGED <<at, obj, wpc, tpc>>
         \/ /\ \/ hpc[c] = "start" /\ is_enable[c] /\ hpc' = [hpc EXCEPT ![c] = "delete"]
               \/ hpc[c] = "delete" /\ hpc' = [hpc EXCEPT ![c] = "closing"]
            /\ at' = [at EXCEPT ![w] = "close"] /\ obj' = [obj EXCEPT ![w] = c]
            /\ UNCHANGED <<wpc, tpc>>
         \/ /\ hpc[c] = "closing" /\ hpc' = [hpc EXCEPT ![c] = "freed"]
            /\ UNCHANGED <<at, obj>>
            /\ wpc' = [wpc EXCEPT ![w] = "pause"]
            /\ tpc' = [tpc EXCEPT ![c] = "done"]
  <2>1. CASE Connect(w, c) /\ UNCHANGED <<exit_state, in_handler>>
    BY <1>1, <2>1 DEF Connect, Handles, Net!Prepare, Net!Becomes, Net!Enter, Net!frameVars, Net!socketVars, vars
  <2>2. CASE (Round(w, c) /\ UNCHANGED <<exit_state, in_handler>>) \/ Answered(w, c)
    BY <1>1, <2>2 DEF Round, Answered, Handles, vars
  <2>3. CASE (DeleteSocket(w, c) \/ EndHandler(w, c)) /\ UNCHANGED <<exit_state, in_handler>>
    BY <1>1, <2>3 DEF DeleteSocket, EndHandler, Handles, FinishTask, At, Net!Enter, vars
  <2> QED BY <2>1, <2>2, <2>3
<1>3. /\ tpc[c] = "taken"
      /\ \A v \in Workers : wpc[v] = "work" /\ task[v] = c => v = w
  BY <1>2, OneWorker
<1>4. AddingInv' BY <1>1, <1>2, <1>3, AddingCalm DEF MainMoves
<1>5. ClientFrame'
  <2>1. hpc' \in [Tasks -> HandlerPC] BY <1>1, <1>2
  <2>2. /\ at' \in [Workers \cup Actors -> {"out", "close", "clear", "close_fd"}]
        /\ obj' \in [Workers \cup Actors -> Sockets \cup {None}]
    BY <1>1, <1>2
  <2> QED BY <1>1, <1>2, <2>1, <2>2 DEF ClientFrame
<1>6. InSocket' BY <1>1, <1>2 DEF InSocket
<1>7. hpc[c] = "closing" => ~is_enable[c]
  BY <1>1, <1>2 DEF DeletingInv
<1>8. \A d \in Tasks : /\ tpc'[d] \notin {"taken", "done"} => hpc'[d] = "start"
                       /\ tpc'[d] = "done" <=> hpc'[d] = "freed"
                       /\ hpc'[d] = "freed" => ~is_enable'[d]
  BY <1>1, <1>2, <1>3, <1>7 DEF DeletingInv
<1>9. ASSUME NEW v \in Workers
      PROVE  /\ at'[v] # "out" => hpc'[task'[v]] \in {"delete", "closing"}
             /\ at'[v] = "close_fd" => ~is_enable'[obj'[v]]
             /\ wpc'[v] = "work" /\ hpc'[task'[v]] = "closing" /\ at'[v] = "out" => ~is_enable'[task'[v]]
  <2>1. /\ at[v] # "out" => wpc[v] = "work" /\ hpc[task[v]] \in {"delete", "closing"}
        /\ at[v] = "close_fd" => ~is_enable[obj[v]]
        /\ wpc[v] = "work" /\ hpc[task[v]] = "closing" /\ at[v] = "out" => ~is_enable[task[v]]
    BY <1>1 DEF InSocket, DeletingInv
  <2>2. CASE v = w BY <1>1, <1>2, <2>2
  <2>3. CASE v # w
    <3>1. at'[v] = at[v] /\ obj'[v] = obj[v] /\ wpc'[v] = wpc[v] BY <1>1, <1>2, <2>3
    <3>2. wpc[v] = "work" => task[v] \in Tasks /\ task[v] # c
      BY <1>2, <1>3, <2>3, OneWorker
    <3>3. wpc[v] = "work" => hpc'[task[v]] = hpc[task[v]] BY <1>1, <1>2, <3>2
    <3> QED BY <1>2, <2>1, <3>1, <3>3
  <2> QED BY <2>2, <2>3
<1> QED BY <1>4, <1>5, <1>6, <1>8, <1>9 DEF After, DeletingInv

-----------------------------------------------------------------------------
(* The client.                                                             *)

LEMMA ClientStart == ClientInit => ClientInv
<1> SUFFICES ASSUME ClientInit PROVE ClientInv
  OBVIOUS
<1>1. TypeOK /\ MapInv /\ TaskConservation
  BY TypeOKInit, MapInvInit, ConservationInit DEF ClientInit, EchoInit
<1>2. ClientTypeOK
  BY <1>1, EchoAssumption DEF ClientInit, EchoInit, Init, ClientTypeOK, EchoTypes, Actors, Main
<1>3. AddingInv /\ DeletingInv
  BY EchoAssumption DEF ClientInit, EchoInit, Init, AddingInv, DeletingInv
<1> QED BY <1>1, <1>2, <1>3 DEF ClientInv

LEMMA ClientInvStep == ClientInv /\ [ClientNext]_clientVars => ClientInv'
<1> SUFFICES ASSUME ClientInv, [ClientNext]_clientVars PROVE ClientInv'
  OBVIOUS
<1>1. CASE UNCHANGED clientVars
  <2>1. [Next]_vars /\ UNCHANGED <<vars, mpc, cur, task_mutex, hpc, netVars, exit_state, in_handler>>
    BY <1>1 DEF clientVars, echoVars
  <2>2. TypeOK' /\ MapInv' /\ TaskConservation'
    BY <2>1, TypeOKStep, MapInvStep, ConservationStep DEF ClientInv, ClientTypeOK, EchoTypes
  <2>3. AddingInv' /\ DeletingInv'
    BY <2>1 DEF ClientInv, AddingInv, DeletingInv, vars
  <2>4. ClientTypeOK'
    BY <2>1, <2>2, ClientTypes DEF ClientInv, ClientFrame, InSocket, ClientTypeOK, vars
  <2> QED BY <2>2, <2>3, <2>4 DEF ClientInv
<1>2. CASE ClientNext
  <2>1. TypeOK' /\ MapInv' /\ TaskConservation'
    BY <1>2, ClientPoolStep
  <2>2. Before /\ (pc'[Main] \notin {"off", "done"} => in_handler')
    BY <1>2, ClientTypes, ClientStepOfPool DEF ClientInv, Before
  <2>3. ASSUME NEW w \in Workers,
               ClientThread(w) \/ (Wakeup(w) /\ UNCHANGED <<exit_state, in_handler>>)
        PROVE  After
    BY <2>2, <2>3, PoolKeepsSockets, CloseKeepsSockets, HandlerKeepsSockets
       DEF ClientThread, WorkerThread, PoolSteps
  <2>4. ASSUME NEW a \in Actors, ActorThread(a), UNCHANGED <<exit_state, in_handler>>
        PROVE  After
    BY <2>2, <2>4, PoolKeepsSockets, CloseKeepsSockets, ExitKeepsSockets, MainKeepsSockets
       DEF ActorThread, PoolActor, PoolSteps
  <2>5. ASSUME MainStep, UNCHANGED <<exit_state, in_handler>>
        PROVE  After
    BY <2>2, <2>5, PoolKeepsSockets, MainKeepsSockets, AddKeepsSockets DEF MainStep, AddStep, PoolSteps
  <2>6. ASSUME NEW w \in Workers, NEW c \in Tasks, Answered(w, c)
        PROVE  After
    BY <2>2, <2>6, HandlerKeepsSockets
  <2>7. ASSUME Sigint \/ HandlerReturns
        PROVE  After
    BY <2>2, <2>7, PoolKeepsSockets, MainKeepsSockets
  <2>8. After
    BY <1>2, <2>3, <2>4, <2>5, <2>6, <2>7 DEF ClientNext, ClientActor
  <2> QED BY <2>1, <2>2, <2>8, ClientTypes DEF ClientInv, After
<1> QED BY <1>1, <1>2

LEMMA ClientInvariant == ClientSpec => []ClientInv
BY ClientStart, ClientInvStep, PTL DEF ClientSpec

\* Main adds one Socket at a time, a worker is in close only on the Socket of
\* the task it is running, and main stops the pool only inside the handler of
\* SIGINT, whatever main was interrupted in.
THEOREM ClientTypesCorrect == ClientSpec => []ClientTypeOK
<1>1. ClientInv => ClientTypeOK
  BY DEF ClientInv
<1> QED BY <1>1, ClientInvariant, PTL

\* Until the pool has closed, every open Socket is being added, queued or with
\* its handler: connect may fail, echo_exit and the destructor may close at
\* once, and the shutdown may run in the middle of add_task.
THEOREM SocketsKept == ClientSpec => []NoSocketLost
<1>1. ClientInv => NoSocketLost
  <2> SUFFICES ASSUME ClientInv, NEW c \in Tasks, is_enable[c]
               PROVE  cur = c \/ tpc[c] \in {"queued", "taken"} \/ (exit_ /\ tpc[c] = "rejected")
    BY DEF NoSocketLost
  <2>1. tpc[c] \in {"new", "rejected", "admitted", "queued", "taken", "done"}
    BY DEF ClientInv, ClientTypeOK, EchoTypes, TypeOK
  <2> QED BY <2>1 DEF ClientInv, AddingInv, DeletingInv
<1> QED BY <1>1, ClientInvariant, PTL

=============================================================================
