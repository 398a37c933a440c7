----------------------------- MODULE EchoProofs -----------------------------
(***************************************************************************)
(* Theorems about the echo server of src/main/echo_server_test.cc, for any *)
(* number of connections, WorkThreads and descriptors: the number that a   *)
(* handler uses or a close is about to close never stands for another      *)
(* Socket, and no more than one connection is ever lost.  They rest on the *)
(* invariants of the thread pool.                                          *)
(***************************************************************************)
EXTENDS EchoServer, SteadyProofs

USE DEF workerVars, mapVars, taskVars, poolVars, callVars, loopVars, actorVars

-----------------------------------------------------------------------------
(* The pool inside the server.                                             *)

\* What a worker that runs no task remembers is over.
IdleInv == \A w \in Workers : wpc[w] # "work" => task[w] = None \/ tpc[task[w]] = "done"

PoolInv ==
  /\ TypeOK /\ MapInv /\ TaskConservation /\ IdleInv
  /\ Serving => SteadyInv

\* What a step of the server is to the pool.
LEMMA ServerStepOfPool ==
  ASSUME ServerTypeOK, MainInv, ServerNext
  PROVE  \/ (SteadyNext \/ UNCHANGED vars \/ CrashOnly) /\ (Serving' => Serving)
         \/ Next /\ ~Serving'
<1> USE DEF Serving, Goes, Handles, Running
<1>1. /\ mpc \in {"add", "lock", "push", "unlock"} <=> cur # None
      /\ cur \in Tasks \cup {None}
      /\ ~crashed
  BY DEF ServerTypeOK, EchoTypes, ServerNext
<1>2. ASSUME NEW w \in Workers, WorkerThread(w) \/ Wakeup(w)
      PROVE  (SteadyNext \/ UNCHANGED vars) /\ mpc' = mpc
  BY <1>1, <1>2 DEF WorkerThread, Wakeup, PoolWorker, CloseStep, DeleteSocket, EndHandler,
     SteadyNext, WorkerStep
<1>3. ASSUME NEW a \in Actors, ActorThread(a)
      PROVE  (SteadyNext \/ UNCHANGED vars \/ CrashOnly) /\ mpc' = mpc
  BY <1>1, <1>3 DEF ActorThread, PoolActor, CloseStep, EchoExit, EchoCrash, SteadyNext, ActorStep,
     CallStep, CrashOnly
<1>4. ASSUME NEW w \in Workers, NEW c \in Tasks, EnterRecv(w, c) \/ Received(w, c)
      PROVE  UNCHANGED vars /\ mpc' = mpc
  BY <1>4 DEF EnterRecv, Received
<1>5. CASE MainStep
  <2>1. CASE InitPool("init", "create") BY <1>1, <2>1 DEF InitPool, SteadyNext
  <2>2. CASE CreateServer \/ Listen \/ SetJump \/ SetSocket
    BY <2>2 DEF CreateServer, Listen, SetJump, SetSocket
  <2>3. CASE AddStep("accept")
    BY <1>1, <2>3 DEF AddStep, AddCurrent, LockTasks, PushCurrent, UnlockTasks, SteadyNext, ClientStep
  <2>4. CASE StopPool
    BY <1>1, <2>4, ServerAssumption DEF StopPool, Next
  <2>5. CASE ReturnFromMain BY <2>5 DEF ReturnFromMain
  <2> QED BY <1>5, <2>1, <2>2, <2>3, <2>4, <2>5 DEF MainStep
<1>6. CASE Accept \/ AcceptFails BY <1>6 DEF Accept, AcceptFails
<1>7. CASE SigintEarly BY <1>7 DEF SigintEarly, CrashOnly
<1>8. CASE Sigint
  <2>1. UNCHANGED vars BY <1>8 DEF Sigint
  <2>2. Serving BY <1>8 DEF Sigint, MainInv
  <2> QED BY <2>1, <2>2
<1> QED BY <1>2, <1>3, <1>4, <1>5, <1>6, <1>7, <1>8 DEF ServerNext, ServerThread, ServerActor

\* The pool keeps its invariants inside the server.
LEMMA PoolInvStep ==
  ASSUME ServerTypeOK, MainInv, PoolInv, [ServerNext]_serverVars
  PROVE  PoolInv'
<1>1. CASE UNCHANGED vars /\ (Serving' => Serving)
  <2>1. [Next]_vars /\ [SteadyNext]_vars BY <1>1
  <2>2. TypeOK' /\ MapInv' /\ TaskConservation' /\ (Serving => SteadyInv')
    BY <2>1, TypeOKStep, MapInvStep, ConservationStep, SteadyStep DEF PoolInv
  <2> QED BY <1>1, <2>2 DEF PoolInv, IdleInv, vars
<1>2. CASE CrashOnly /\ (Serving' => Serving)
  <2>1. TypeOK' /\ MapInv' /\ TaskConservation' BY <1>2, CrashKeeps DEF PoolInv
  <2>2. Serving' => SteadyInv'
    BY <1>2 DEF PoolInv, SteadyInv, ManagerInv, LiveInv, StateInv, PlaceInv, CalleeInv, WakeInv,
       Quiet, Resuming, Trimming, CrashOnly
  <2>3. IdleInv' BY <1>2 DEF PoolInv, IdleInv, CrashOnly
  <2> QED BY <2>1, <2>2, <2>3 DEF PoolInv
<1>3. CASE Next /\ (~Serving' \/ (SteadyNext /\ Serving))
  <2>1. TypeOK' /\ MapInv' /\ TaskConservation' /\ (Serving' => SteadyInv')
    BY <1>3, TypeOKStep, MapInvStep, ConservationStep, SteadyStep DEF PoolInv
  <2>2. IdleInv'
    <3>1. CASE QuietStep
      BY <3>1 DEF QuietStep, PoolInv, IdleInv
    <3>2. ASSUME NEW t \in Tasks, AddTask(t) \/ Push(t) PROVE IdleInv'
      BY <3>2 DEF AddTask, Push, PoolInv, IdleInv, TypeOK
    <3>3. ASSUME NEW w \in Workers, GetTask(w) PROVE IdleInv'
      BY <3>3, TaskTaken DEF PoolInv, IdleInv, TypeOK
    <3>4. ASSUME NEW w \in Workers, FinishTask(w) PROVE IdleInv'
      BY <3>4 DEF FinishTask, At, PoolInv, IdleInv, TypeOK
    <3> QED BY <1>3, <3>1, <3>2, <3>3, <3>4, TaskSteps DEF PoolInv
  <2> QED BY <2>1, <2>2 DEF PoolInv
<1>4. CASE UNCHANGED serverVars
  BY <1>1, <1>4 DEF serverVars, echoVars, Serving
<1> QED BY <1>1, <1>2, <1>3, <1>4, ServerStepOfPool DEF Next

-----------------------------------------------------------------------------
(* The Sockets.                                                            *)

USE DEF netVars, Serving, StartingUp, HandlerPC, Net!Kinds, Net!Unused

SocketsSame == UNCHANGED <<hpc, kind, app, at, obj, is_enable, socket>>

\* A step of the pool that neither gives out nor ends a task.
LEMMA QuietFrame ==
  ASSUME TypeOK, HandlerInv, NumberInv, QuietStep, SocketsSame
  PROVE  HandlerInv' /\ NumberInv' /\ (OpenInv => OpenInv')
<1> USE DEF QuietStep, SocketsSame
<1>1. HandlerInv' BY DEF HandlerInv
<1>2. \A s \in Sockets : MayUse(s)' <=> MayUse(s) BY DEF MayUse
<1>3. NumberInv' BY <1>2 DEF NumberInv
<1>4. OpenInv => OpenInv' BY <1>2 DEF OpenInv
<1> QED BY <1>1, <1>3, <1>4

\* A worker takes a task.
LEMMA TakeFrame ==
  ASSUME TypeOK, TaskConservation, HandlerInv, NumberInv, SocketsSame,
         NEW w \in Workers, GetTask(w), at \in [Workers \cup Actors -> {"out", "close", "clear", "close_fd"}],
         at[w] = "out"
  PROVE  HandlerInv' /\ NumberInv' /\ (OpenInv => OpenInv')
<1>1. PICK t \in Tasks : /\ tpc[t] = "queued" /\ tpc' = [tpc EXCEPT ![t] = "taken"]
                         /\ task' = [task EXCEPT ![w] = t]
                         /\ wpc' = [wpc EXCEPT ![w] = "work"]
  BY TaskTaken
<1>2. wpc \in [Workers -> WorkerPC] /\ task \in [Workers -> Tasks \cup {None}]
      /\ tpc \in [Tasks -> {"new", "rejected", "admitted", "queued", "taken", "done"}]
  BY DEF TypeOK
<1> USE <1>1, <1>2 DEF SocketsSame
<1>3. HandlerInv' BY DEF HandlerInv
<1>4. \A s \in Sockets : MayUse(s)' <=> MayUse(s) BY DEF MayUse
<1>5. NumberInv' BY <1>4 DEF NumberInv
<1>6. hpc[t] = "start" BY DEF HandlerInv
<1>7. OpenInv => OpenInv' BY <1>4, <1>6 DEF OpenInv
<1> QED BY <1>3, <1>5, <1>7

\* What the invariant of the whole server is, and what every step starts from.
SystemInv == ServerTypeOK /\ PoolInv /\ ServerInv

\* Types that a step of the server can disturb.
NetTypes ==
  /\ cur \in Tasks \cup {None}
  /\ mpc \in {"add", "lock", "push", "unlock"} <=> cur # None
  /\ task_mutex \in {Free, Main}
  /\ hpc \in [Tasks -> HandlerPC]
  /\ kind \in [Fds -> Net!Kinds]
  /\ app \subseteq Fds
  /\ is_enable \in [Sockets -> BOOLEAN]
  /\ socket \in [Sockets -> Fds \cup {None}]
  /\ at \in [Workers \cup Actors -> {"out", "close", "clear", "close_fd"}]
  /\ obj \in [Workers \cup Actors -> Sockets \cup {None}]
  /\ server_exit \in BOOLEAN
  /\ mpc \in StartingUp \cup {"accept", "accepted", "add", "lock", "push", "unlock", "wait",
                              "stop", "stopping", "returned"}
  /\ mpc = "accepted" <=> app # {}

\* Where a thread is in a member function, it is there on a Socket; a worker, on
\* that of its task.
Within ==
  /\ \A th \in Workers \cup Actors : at[th] # "out" => obj[th] \in Sockets
  /\ \A w \in Workers : at[w] # "out" => wpc[w] = "work" /\ obj[w] = task[w]

LEMMA TypesSplit ==
  /\ ServerTypeOK => TypeOK /\ NetTypes /\ Within
  /\ TypeOK /\ NumberInv /\ NetTypes /\ Within => ServerTypeOK
  /\ TypeOK' /\ NumberInv' /\ NetTypes' /\ Within' => ServerTypeOK'
BY DEF ServerTypeOK, EchoTypes, NetTypes, Within, NumberInv, MayUse

\* The steps of the pool, and those of main that do nothing else.
PoolOnly ==
  \/ \E w \in Workers : PoolWorker(w) \/ Wakeup(w)
  \/ \E a \in Actors : PoolActor(a) /\ ~EchoExit(a)
  \/ InitPool("init", "create") \/ StopPool

MainOnly == SetJump \/ LockTasks \/ UnlockTasks("accept") \/ ReturnFromMain

LEMMA PoolOnlyKeeps ==
  ASSUME SystemInv, Running, PoolInv', PoolOnly, UNCHANGED server_exit
  PROVE  ServerTypeOK' /\ ServerInv'
<1>1. TypeOK /\ MapInv /\ TaskConservation /\ HandlerInv /\ NumberInv /\ MainInv /\ TypeOK'
      /\ NetTypes /\ Within
  BY TypesSplit DEF SystemInv, PoolInv, ServerInv
<1>2. SocketsSame /\ UNCHANGED <<cur, app, task_mutex>>
  BY DEF PoolOnly, PoolWorker, Wakeup, PoolActor, InitPool, StopPool, SocketsSame
<1>3. QuietStep \/ \E w \in Workers : GetTask(w) /\ at[w] = "out"
  <2>1. ASSUME NEW w \in Workers, PoolWorker(w) \/ Wakeup(w)
        PROVE  QuietStep \/ (GetTask(w) /\ at[w] = "out")
    BY <1>1, <2>1, WorkerTaskSteps
       DEF PoolWorker, Wakeup, FinishTask, GetTask, At, SpuriousWakeup, Step, Within
  <2> QED BY <1>1, <2>1, ActorTaskSteps, ServerAssumption
             DEF PoolOnly, PoolActor, InitPool, StopPool
<1>4. HandlerInv' /\ NumberInv' /\ (OpenInv => OpenInv')
  BY <1>1, <1>2, <1>3, QuietFrame, TakeFrame DEF NetTypes
<1>5. /\ \/ mpc' = mpc
         \/ mpc = "init" /\ mpc' = "create"
         \/ mpc = "stop" /\ mpc' = "stopping"
      /\ Serving' => Serving
  BY DEF PoolOnly, PoolWorker, Wakeup, PoolActor, InitPool, StopPool, Goes
<1>6. NetTypes'
  BY <1>1, <1>2, <1>5 DEF NetTypes, SocketsSame
<1>7. Within'
  BY <1>1, <1>2, <1>3 DEF Within, SocketsSame, QuietStep, GetTask, At, TypeOK
<1>8. MainInv'
  <2>1. \A c \in Tasks : tpc[c] = "new" => tpc'[c] = "new"
    BY <1>1, <1>3, TaskTaken DEF QuietStep, TypeOK
  <2>2. mpc = "add" => cur \in Tasks
    BY <1>1 DEF NetTypes
  <2>3. mpc' \in {"stop", "stopping", "returned"} => server_exit'
    BY <1>1, <1>5 DEF MainInv
  <2>4. mpc' = "add" => is_enable'[cur'] /\ tpc'[cur'] = "new"
    BY <1>1, <1>2, <1>5, <2>1, <2>2 DEF MainInv, SocketsSame
  <2>5. mpc' = "accepted" => (\E c \in Tasks : tpc'[c] = "new") /\ \E fd \in Fds : app' = {fd}
    BY <1>1, <1>2, <1>5, <2>1 DEF MainInv, SocketsSame
  <2> QED BY <2>3, <2>4, <2>5 DEF MainInv
<1>9. ServerTypeOK' BY <1>1, <1>4, <1>6, <1>7, TypesSplit
<1> QED BY <1>4, <1>5, <1>8, <1>9 DEF ServerInv, SystemInv

\* A thread's own steps through close; before the shutdown, a worker closes the
\* Socket of its task and main the server's.
LEMMA CloseKeeps ==
  ASSUME SystemInv, PoolInv', NEW th \in Workers \cup Actors, CloseStep(th), UNCHANGED server_exit
  PROVE  ServerTypeOK' /\ ServerInv'
<1>1. /\ TypeOK /\ TaskConservation /\ HandlerInv /\ NumberInv /\ MainInv /\ NetTypes /\ Within
      /\ Serving => OpenInv
      /\ TypeOK'
  BY TypesSplit DEF SystemInv, PoolInv, ServerInv
<1>2. obj[th] \in Sockets /\ at[th] # "out"
  BY <1>1 DEF CloseStep, Net!CloseTest, Net!CloseClear, Net!CloseFd, Net!Advance, Net!Leave, Within
<1>3. /\ at \in [Workers \cup Actors -> {"out", "close", "clear", "close_fd"}]
      /\ obj \in [Workers \cup Actors -> Sockets \cup {None}]
      /\ is_enable \in [Sockets -> BOOLEAN]
      /\ socket \in [Sockets -> Fds \cup {None}]
      /\ kind \in [Fds -> Net!Kinds]
      /\ None \notin Sockets
  BY <1>1, EchoAssumption DEF NetTypes
<1>4. \A t2 \in (Workers \cup Actors) \ {th} : at'[t2] = at[t2] /\ obj'[t2] = obj[t2]
  BY <1>3 DEF CloseStep, Net!CloseTest, Net!CloseClear, Net!CloseFd, Net!Advance, Net!Leave
<1>5. UNCHANGED <<vars, mpc, cur, task_mutex, hpc, app, socket>>
  BY DEF CloseStep, Net!CloseTest, Net!CloseClear, Net!CloseFd, Net!fdVars, Net!socketVars
<1>6. \A s \in Sockets : /\ is_enable'[s] => is_enable[s]
                         /\ MayUse(s)' => MayUse(s)
  <2>1. CASE Net!CloseTest(th)
    BY <1>2, <1>3, <1>4, <1>5, <2>1 DEF Net!CloseTest, Net!Advance, Net!Leave, Net!socketVars, MayUse, vars
  <2>2. CASE Net!CloseClear(th)
    BY <1>2, <1>3, <1>4, <1>5, <2>2 DEF Net!CloseClear, Net!Advance, MayUse, vars
  <2>3. CASE Net!CloseFd(th)
    BY <1>2, <1>3, <1>4, <1>5, <2>3 DEF Net!CloseFd, Net!Leave, Net!socketVars, MayUse, vars
  <2> QED BY <2>1, <2>2, <2>3 DEF CloseStep
<1>7. NumberInv'
  BY <1>1, <1>5, <1>6 DEF NumberInv
<1>8. NetTypes'
  BY <1>1, <1>2, <1>3, <1>5 DEF NetTypes, CloseStep, Net!CloseTest, Net!CloseClear, Net!CloseFd,
     Net!Advance, Net!Leave, Net!Becomes, Net!fdVars, Net!socketVars
<1>9. Within' /\ HandlerInv'
  <2>1. \A t2 \in Workers \cup Actors :
          at'[t2] # "out" => at[t2] # "out" /\ obj'[t2] = obj[t2]
    BY <1>2, <1>3, <1>4 DEF CloseStep, Net!CloseTest, Net!CloseClear, Net!CloseFd, Net!Advance, Net!Leave
  <2> QED BY <1>1, <1>5, <2>1 DEF Within, HandlerInv, vars
<1>10. ASSUME Serving, at[th] \in {"clear", "close_fd"}
       PROVE  /\ \A t2 \in (Workers \cup Actors) \ {th} :
                   at[t2] \in {"clear", "close_fd"} => obj[t2] # obj[th]
              /\ obj[th] = Server \/ (obj[th] \in Tasks /\ tpc[obj[th]] = "taken" /\ hpc[obj[th]] = "closing")
  <2>1. \A t2 \in Workers \cup Actors : at[t2] \in {"clear", "close_fd"} =>
          \/ t2 \in Workers /\ wpc[t2] = "work" /\ obj[t2] = task[t2] /\ task[t2] \in Tasks
             /\ tpc[obj[t2]] = "taken" /\ hpc[obj[t2]] = "closing"
          \/ t2 = Main /\ obj[t2] = Server
    BY <1>1, <1>10 DEF OpenInv, Within, HandlerInv, TypeOK, TaskConservation, Actors, Main
  <2>2. \A v, w \in Workers : wpc[v] = "work" /\ wpc[w] = "work" /\ task[v] = task[w] => v = w
    BY <1>1 DEF TaskConservation
  <2> QED BY <1>10, <2>1, <2>2, ServerAssumption
<1>11. MainInv'
  <2>1. ASSUME mpc = "add" PROVE is_enable'[cur] /\ cur \in Tasks
    <3>1. Serving /\ cur \in Tasks /\ is_enable[cur] /\ tpc[cur] = "new" BY <1>1, <2>1 DEF MainInv, NetTypes
    <3>2. CASE Net!CloseClear(th)
      BY <1>3, <1>10, <3>1, <3>2, ServerAssumption DEF Net!CloseClear, Net!Advance
    <3> QED BY <3>1, <3>2 DEF CloseStep, Net!CloseTest, Net!CloseFd, Net!socketVars
  <2> QED BY <1>1, <1>5, <2>1 DEF MainInv, vars
<1>12. ASSUME Serving PROVE OpenInv'
  <2>1. OpenInv /\ Serving BY <1>1, <1>5, <1>12
  <2>2. CASE Net!CloseFd(th)
    <3>1. /\ at[th] = "close_fd" /\ at'[th] = "out" /\ UNCHANGED is_enable
          /\ ~is_enable[obj[th]] /\ MayUse(obj[th])
          /\ kind' = [kind EXCEPT ![socket[obj[th]]] = "closed"]
      BY <1>2, <1>3, <2>1, <2>2
         DEF Net!CloseFd, Net!Leave, Net!Becomes, Net!socketVars, OpenInv, MayUse
    <3>2. \A s \in Sockets : s = obj[th] => ~MayUse(s)'
      BY <1>3, <1>4, <1>5, <1>10, <2>1, <3>1, ServerAssumption DEF MayUse, vars
    <3>3. \A s \in Sockets : MayUse(s)' => kind'[socket[s]] # "closed"
      <4> SUFFICES ASSUME NEW s \in Sockets, MayUse(s)' PROVE kind'[socket[s]] # "closed"
        OBVIOUS
      <4>1. MayUse(s) /\ s # obj[th] BY <1>6, <3>2
      <4>2. socket[s] \in Fds /\ socket[s] # socket[obj[th]]
        BY <1>1, <1>2, <3>1, <4>1 DEF NumberInv
      <4> QED BY <1>3, <2>1, <3>1, <4>1, <4>2 DEF OpenInv
    <3>4. \A fd \in app : kind'[fd] # "closed"
      <4>1. socket[obj[th]] \in Fds \ app BY <1>1, <1>2, <3>1 DEF NumberInv
      <4> QED BY <1>1, <1>3, <2>1, <3>1, <4>1 DEF OpenInv, NetTypes
    <3>5. \A w \in Workers : wpc[w] = "work" /\ hpc[task[w]] = "closing" /\ at'[w] = "out"
            => ~is_enable[task[w]]
      BY <1>1, <1>4, <2>1, <3>1 DEF OpenInv, Within
    <3>6. \A t2 \in Workers \cup Actors :
            at'[t2] # "out" => at'[t2] = at[t2] /\ obj'[t2] = obj[t2]
      BY <1>4, <3>1
    <3> QED BY <1>5, <2>1, <3>1, <3>3, <3>4, <3>5, <3>6 DEF OpenInv, vars, Actors, Main
  <2>3. CASE Net!CloseClear(th)
    <3>1. /\ at[th] = "clear" /\ at' = [at EXCEPT ![th] = "close_fd"]
          /\ is_enable' = [is_enable EXCEPT ![obj[th]] = FALSE]
          /\ UNCHANGED <<kind, obj>>
      BY <2>3 DEF Net!CloseClear, Net!Advance, Net!fdVars
    <3>2. (\A s \in Sockets : MayUse(s) => ~Net!Unused(socket[s]))'
      BY <1>5, <1>6, <2>1, <3>1 DEF OpenInv
    <3>3. \A t2 \in Workers \cup Actors :
            /\ at'[t2] = "clear" => is_enable'[obj[t2]]
            /\ at'[t2] = "close_fd" => ~is_enable'[obj[t2]]
      BY <1>2, <1>3, <1>10, <2>1, <3>1 DEF OpenInv
    <3>4. \A c \in Tasks :
            /\ tpc[c] \in {"admitted", "queued", "taken"} /\ hpc[c] # "closing" => is_enable'[c]
            /\ hpc[c] = "freed" => ~is_enable'[c]
      BY <1>2, <1>3, <1>10, <2>1, <3>1, ServerAssumption DEF OpenInv
    <3> QED BY <1>2, <1>3, <1>5, <2>1, <3>1, <3>2, <3>3, <3>4 DEF OpenInv, vars
  <2>4. CASE Net!CloseTest(th)
    <3>1. /\ at[th] = "close" /\ UNCHANGED <<kind, is_enable>>
          /\ \/ is_enable[obj[th]] /\ at' = [at EXCEPT ![th] = "clear"] /\ obj' = obj
             \/ /\ ~is_enable[obj[th]] /\ at' = [at EXCEPT ![th] = "out"]
                /\ obj' = [obj EXCEPT ![th] = None]
      BY <2>4 DEF Net!CloseTest, Net!Advance, Net!Leave, Net!fdVars, Net!socketVars
    <3>2. (\A s \in Sockets : MayUse(s) => ~Net!Unused(socket[s]))'
      BY <1>5, <1>6, <2>1, <3>1 DEF OpenInv
    <3>3. \A w \in Workers : wpc[w] = "work" /\ hpc[task[w]] = "closing" /\ at'[w] = "out"
            => ~is_enable[task[w]]
      BY <1>1, <1>3, <2>1, <3>1 DEF OpenInv, Within
    <3>4. th # Manager \/ at'[Manager] = "out"
      BY <1>3, <2>1, <3>1 DEF OpenInv
    <3>5. \A t2 \in Workers \cup Actors :
            /\ at'[t2] = "clear" => is_enable[obj'[t2]]
            /\ at'[t2] = "close_fd" => ~is_enable[obj'[t2]]
      BY <1>3, <2>1, <3>1 DEF OpenInv
    <3>6. /\ at'[Manager] # "out" => at'[Manager] = at[Manager] /\ obj'[Manager] = obj[Manager]
          /\ at'[Main] # "out" => at[Main] # "out" /\ obj'[Main] = obj[Main]
      BY <1>3, <1>4, <3>1, <3>4 DEF Actors, Main
    <3> QED BY <1>5, <2>1, <3>1, <3>2, <3>3, <3>5, <3>6 DEF OpenInv, vars
  <2> QED BY <2>2, <2>3, <2>4 DEF CloseStep
<1> QED BY <1>1, <1>5, <1>7, <1>8, <1>9, <1>11, <1>12, TypesSplit DEF ServerInv

\* The steps of main, and of a dying process, that touch no task and no Socket.
LEMMA MainOnlyKeeps ==
  ASSUME SystemInv, PoolInv',
         \/ MainOnly /\ UNCHANGED server_exit
         \/ (\E a \in Actors : EchoCrash(a)) /\ UNCHANGED server_exit
         \/ SigintEarly
  PROVE  ServerTypeOK' /\ ServerInv'
<1>1. /\ TypeOK /\ HandlerInv /\ NumberInv /\ MainInv /\ NetTypes /\ Within
      /\ Serving => OpenInv
      /\ TypeOK'
  BY TypesSplit DEF SystemInv, PoolInv, ServerInv
<1> USE DEF MainOnly, SetJump, LockTasks, UnlockTasks, ReturnFromMain, Goes, EchoCrash, Crash, SigintEarly
<1>2. QuietStep /\ SocketsSame
  BY DEF QuietStep, SocketsSame, vars
<1>3. HandlerInv' /\ NumberInv' /\ (OpenInv => OpenInv')
  BY <1>1, <1>2, QuietFrame
<1>4. Serving' => Serving
  OBVIOUS
<1>5. NetTypes'
  BY <1>1 DEF NetTypes
<1>6. Within'
  BY <1>1, <1>2 DEF Within, SocketsSame, QuietStep
<1>7. MainInv'
  BY <1>1, <1>2 DEF MainInv, SocketsSame, QuietStep, NetTypes
<1> QED BY <1>1, <1>3, <1>4, <1>5, <1>6, <1>7, TypesSplit DEF ServerInv

\* The steps of echo_handler.
LEMMA HandlerKeeps ==
  ASSUME SystemInv, PoolInv', UNCHANGED server_exit, NEW w \in Workers, NEW c \in Tasks,
         EnterRecv(w, c) \/ Received(w, c) \/ DeleteSocket(w, c) \/ EndHandler(w, c)
  PROVE  ServerTypeOK' /\ ServerInv'
<1>1. /\ TypeOK /\ TaskConservation /\ HandlerInv /\ NumberInv /\ MainInv /\ NetTypes /\ Within
      /\ Serving => OpenInv
      /\ TypeOK'
  BY TypesSplit DEF SystemInv, PoolInv, ServerInv
<1>2. /\ hpc \in [Tasks -> HandlerPC]
      /\ at \in [Workers \cup Actors -> {"out", "close", "clear", "close_fd"}]
      /\ obj \in [Workers \cup Actors -> Sockets \cup {None}]
      /\ wpc \in [Workers -> WorkerPC]
      /\ tpc \in [Tasks -> {"new", "rejected", "admitted", "queued", "taken", "done"}]
      /\ c \in Sockets
  BY <1>1, EchoAssumption DEF NetTypes, TypeOK
<1>3. /\ wpc[w] = "work" /\ task[w] = c /\ at[w] = "out" /\ tpc[c] = "taken"
      /\ \A v \in Workers : wpc[v] = "work" /\ task[v] = c => v = w
      /\ UNCHANGED <<mpc, cur, task_mutex, kind, app, is_enable, socket, task>>
  BY <1>1 DEF EnterRecv, Received, DeleteSocket, EndHandler, Handles, FinishTask, At,
     TaskConservation, vars
<1>4. \/ /\ hpc[c] \in {"start", "blocked"}
         /\ \E to \in {"start", "blocked", "delete"} : hpc' = [hpc EXCEPT ![c] = to]
         /\ UNCHANGED <<at, obj, wpc, tpc>>
      \/ /\ hpc[c] = "delete" /\ hpc' = [hpc EXCEPT ![c] = "closing"]
         /\ at' = [at EXCEPT ![w] = "close"] /\ obj' = [obj EXCEPT ![w] = c]
         /\ UNCHANGED <<wpc, tpc>>
      \/ /\ hpc[c] = "closing" /\ hpc' = [hpc EXCEPT ![c] = "freed"]
         /\ UNCHANGED <<at, obj>>
         /\ wpc' = [wpc EXCEPT ![w] = "pause"]
         /\ tpc' = [tpc EXCEPT ![c] = "done"]
  BY <1>3 DEF EnterRecv, Received, DeleteSocket, EndHandler, Handles, FinishTask, At, Net!Enter, vars
<1>5. \A s \in Sockets : MayUse(s)' => MayUse(s)
  BY <1>2, <1>3, <1>4 DEF MayUse
<1>6. NumberInv' BY <1>1, <1>3, <1>5 DEF NumberInv
<1>7. NetTypes' BY <1>1, <1>2, <1>3, <1>4 DEF NetTypes
<1>8. Within' BY <1>1, <1>2, <1>3, <1>4 DEF Within
<1>9. HandlerInv'
  <2>1. \A d \in Tasks :
          /\ tpc'[d] \notin {"taken", "done"} => hpc'[d] = "start"
          /\ tpc'[d] = "done" <=> hpc'[d] = "freed"
    BY <1>1, <1>2, <1>3, <1>4 DEF HandlerInv
  <2>2. ASSUME NEW v \in Workers, at'[v] # "out" PROVE hpc'[task[v]] = "closing"
    <3>1. CASE v = w BY <1>2, <1>3, <1>4, <2>2, <3>1
    <3>2. CASE v # w
      <4>1. at[v] # "out" BY <1>2, <1>4, <2>2, <3>2
      <4>2. wpc[v] = "work" /\ task[v] \in Tasks /\ task[v] # c
        BY <1>1, <1>3, <3>2, <4>1 DEF Within, TypeOK
      <4> QED BY <1>1, <1>2, <1>4, <4>1, <4>2 DEF HandlerInv
    <3> QED BY <3>1, <3>2
  <2> QED BY <1>3, <2>1, <2>2 DEF HandlerInv
<1>10. MainInv' BY <1>1, <1>2, <1>3, <1>4 DEF MainInv, NetTypes
<1>11. ASSUME Serving PROVE OpenInv'
  <2>1. OpenInv BY <1>1, <1>11
  <2>2. (\A s \in Sockets : MayUse(s) => ~Net!Unused(socket[s]))'
    BY <1>3, <1>5, <2>1 DEF OpenInv
  <2>3. (\A fd \in app : ~Net!Unused(fd))'
    BY <1>3, <2>1 DEF OpenInv
  <2>4. \A th \in Workers \cup Actors :
          /\ at'[th] = "clear" => is_enable'[obj'[th]]
          /\ at'[th] = "close_fd" => ~is_enable'[obj'[th]]
    BY <1>2, <1>3, <1>4, <2>1 DEF OpenInv
  <2>5. \A d \in Tasks :
          /\ tpc'[d] \in {"admitted", "queued", "taken"} /\ hpc'[d] # "closing" => is_enable'[d]
          /\ hpc'[d] = "freed" => ~is_enable'[d]
    BY <1>2, <1>3, <1>4, <2>1 DEF OpenInv
  <2>6. ASSUME NEW v \in Workers, wpc'[v] = "work", hpc'[task[v]] = "closing", at'[v] = "out"
        PROVE  ~is_enable[task[v]]
    <3>1. CASE v = w BY <1>2, <1>3, <1>4, <2>6, <3>1
    <3>2. CASE v # w
      <4>1. wpc[v] = "work" /\ at[v] = "out" BY <1>2, <1>4, <2>6, <3>2
      <4>2. task[v] \in Tasks /\ task[v] # c
        BY <1>1, <1>3, <3>2, <4>1 DEF TypeOK
      <4>3. hpc[task[v]] = "closing"
        BY <1>2, <1>4, <2>6, <4>2
      <4> QED BY <2>1, <4>1, <4>3 DEF OpenInv
    <3> QED BY <3>1, <3>2
  <2>7. /\ at'[Manager] # "out" => /\ at'[Manager] = "close" /\ obj'[Manager] \in Tasks
                                   /\ hpc'[obj'[Manager]] = "freed"
        /\ at'[Main] # "out" => obj'[Main] = Server
    BY <1>2, <1>3, <1>4, <2>1, NamesAssumption DEF OpenInv, Actors, Main
  <2> QED BY <1>3, <2>2, <2>3, <2>4, <2>5, <2>6, <2>7 DEF OpenInv
<1> QED BY <1>1, <1>3, <1>6, <1>7, <1>8, <1>9, <1>10, <1>11, TypesSplit DEF ServerInv

\* echo_exit: before the shutdown the manager calls it only on a WorkThread that
\* has been deleted, whose Socket is closed.
LEMMA ExitKeeps ==
  ASSUME SystemInv, PoolInv', UNCHANGED server_exit, NEW a \in Actors, EchoExit(a)
  PROVE  ServerTypeOK' /\ ServerInv'
<1>1. /\ TypeOK /\ MapInv /\ HandlerInv /\ NumberInv /\ MainInv /\ NetTypes /\ Within
      /\ IdleInv
      /\ Serving => OpenInv /\ SteadyInv
      /\ TypeOK'
  BY TypesSplit DEF SystemInv, PoolInv, ServerInv
<1>2. QuietStep
  BY <1>1, ActorTaskSteps DEF EchoExit, ActorStep, CallStep
<1>3. /\ at \in [Workers \cup Actors -> {"out", "close", "clear", "close_fd"}]
      /\ obj \in [Workers \cup Actors -> Sockets \cup {None}]
      /\ a \notin Workers
  BY <1>1, NamesAssumption DEF NetTypes
<1>4. CASE SocketsSame
  <2>1. HandlerInv' /\ NumberInv' /\ (OpenInv => OpenInv')
    BY <1>1, <1>2, <1>4, QuietFrame
  <2>2. Within'
    BY <1>1, <1>2, <1>4 DEF Within, SocketsSame, QuietStep
  <2>3. NetTypes' /\ MainInv'
    BY <1>1, <1>2, <1>4 DEF NetTypes, MainInv, EchoExit, SocketsSame, QuietStep
  <2> QED BY <1>1, <2>1, <2>2, <2>3, TypesSplit DEF ServerInv, EchoExit
<1>5. CASE ~SocketsSame
  <2>1. PICK c \in Tasks :
          /\ c = task[target[a]] /\ at[a] = "out" /\ pc[a] = "call_exit" /\ target[a] \in Workers
          /\ at' = [at EXCEPT ![a] = "close"] /\ obj' = [obj EXCEPT ![a] = c]
          /\ UNCHANGED <<kind, app, is_enable, socket, mpc, cur, task_mutex, hpc>>
    BY <1>1, <1>5 DEF EchoExit, Net!Enter, SocketsSame, CallExitTask, Return, Goto, TypeOK, CallPC
  <2>2. c \in Sockets BY EchoAssumption
  <2>3. \A s \in Sockets : MayUse(s)' => MayUse(s)
    BY <1>2, <1>3, <2>1 DEF MayUse, QuietStep
  <2>4. NumberInv' BY <1>1, <2>1, <2>3 DEF NumberInv
  <2>5. HandlerInv' BY <1>1, <1>2, <1>3, <2>1 DEF HandlerInv, QuietStep
  <2>6. NetTypes' BY <1>1, <1>3, <2>1, <2>2 DEF NetTypes
  <2>7. Within' BY <1>1, <1>2, <1>3, <2>1, <2>2 DEF Within, QuietStep
  <2>8. MainInv' BY <1>1, <1>2, <2>1 DEF MainInv, QuietStep
  <2>9. ASSUME Serving PROVE OpenInv'
    <3>1. a = Manager /\ object[target[a]] = "deleted"
      BY <1>1, <2>1, <2>9, TrimOnlyDeleted DEF TrimInterruptsNobody, SteadyInv, ManagerInv, Actors
    <3>2. wpc[target[a]] \in {"erase", "gone"}
      BY <2>1, <3>1, <1>1 DEF MapInv, ObjectInv
    <3>3. hpc[c] = "freed"
      BY <1>1, <2>1, <3>2, TasksAssumption DEF IdleInv, HandlerInv
    <3>4. (\A s \in Sockets : MayUse(s) => ~Net!Unused(socket[s]))'
      BY <1>1, <2>1, <2>3, <2>9 DEF OpenInv
    <3>5. \A th \in Workers \cup Actors :
            /\ at'[th] = "clear" => is_enable[obj'[th]]
            /\ at'[th] = "close_fd" => ~is_enable[obj'[th]]
      BY <1>1, <1>3, <2>1, <2>9 DEF OpenInv
    <3>6. \A w \in Workers : at'[w] = at[w]
      BY <1>3, <2>1
    <3>7. /\ at'[Manager] = "close" /\ obj'[Manager] = c
          /\ at'[Main] = at[Main] /\ obj'[Main] = obj[Main]
      BY <1>3, <2>1, <3>1, NamesAssumption DEF Actors, Main
    <3> QED BY <1>1, <1>2, <2>1, <2>9, <3>3, <3>4, <3>5, <3>6, <3>7 DEF OpenInv, QuietStep
  <2> QED BY <1>1, <2>1, <2>4, <2>5, <2>6, <2>7, <2>8, <2>9, TypesSplit DEF ServerInv
<1> QED BY <1>4, <1>5

\* main makes, prepares and leaves its own socket, and accepts a connection: the
\* numbers it is given are not in use, because those in use are open.
LEMMA ListenerKeeps ==
  ASSUME SystemInv, PoolInv', UNCHANGED server_exit, CreateServer \/ Listen \/ Accept \/ AcceptFails
  PROVE  ServerTypeOK' /\ ServerInv'
<1>1. /\ TypeOK /\ HandlerInv /\ NumberInv /\ MainInv /\ NetTypes /\ Within /\ OpenInv
      /\ TypeOK' /\ Serving
      /\ QuietStep
      /\ UNCHANGED <<vars, cur, task_mutex, hpc>>
      /\ app = {} /\ at[Main] = "out" /\ cur = None
      /\ mpc' \in {"listen", "setjmp", "accept", "accepted", "wait"}
  BY TypesSplit DEF SystemInv, PoolInv, ServerInv, CreateServer, Listen, Accept, AcceptFails, Goes,
     NetTypes, QuietStep, vars
<1>2. /\ at \in [Workers \cup Actors -> {"out", "close", "clear", "close_fd"}]
      /\ obj \in [Workers \cup Actors -> Sockets \cup {None}]
      /\ kind \in [Fds -> Net!Kinds]
      /\ is_enable \in [Sockets -> BOOLEAN]
      /\ socket \in [Sockets -> Fds \cup {None}]
      /\ Server \in Sockets /\ Server \notin Tasks
      /\ Main \in Actors /\ Main \notin Workers /\ Main # Manager
  BY <1>1, ServerAssumption, NamesAssumption DEF NetTypes, Actors, Main
<1> USE DEF MainInv
<1>3. CASE UNCHANGED netVars /\ mpc' # "accepted"
  <2>1. SocketsSame BY <1>1, <1>3 DEF SocketsSame
  <2>2. HandlerInv' /\ NumberInv' /\ (OpenInv => OpenInv') BY <1>1, <2>1, QuietFrame
  <2>3. NetTypes' /\ Within' /\ MainInv'
    BY <1>1, <1>3 DEF NetTypes, Within, vars
  <2> QED BY <1>1, <2>2, <2>3, TypesSplit DEF ServerInv
<1>4. CASE Net!Close(Main, Server) /\ mpc' # "accepted"
  <2>1. /\ at' = [at EXCEPT ![Main] = "close"] /\ obj' = [obj EXCEPT ![Main] = Server]
        /\ UNCHANGED <<kind, app, is_enable, socket>>
    BY <1>4 DEF Net!Close, Net!Enter, Net!fdVars, Net!socketVars
  <2>2. \A s \in Sockets : MayUse(s)' => MayUse(s)
    BY <1>1, <1>2, <2>1 DEF MayUse, vars
  <2>3. NumberInv' /\ HandlerInv' /\ NetTypes' /\ Within' /\ MainInv'
    BY <1>1, <1>2, <1>4, <2>1, <2>2 DEF NumberInv, HandlerInv, NetTypes, Within, vars
  <2>4. OpenInv'
    <3>1. (\A s \in Sockets : MayUse(s) => ~Net!Unused(socket[s]))'
      BY <1>1, <2>1, <2>2 DEF OpenInv
    <3>2. \A th \in Workers \cup Actors :
            /\ at'[th] = "clear" => is_enable[obj'[th]]
            /\ at'[th] = "close_fd" => ~is_enable[obj'[th]]
      BY <1>1, <1>2, <2>1 DEF OpenInv
    <3> QED BY <1>1, <1>2, <2>1, <3>1, <3>2 DEF OpenInv, vars, Actors
  <2> QED BY <1>1, <2>3, <2>4, TypesSplit DEF ServerInv
<1>5. CASE Listen /\ Net!Prepare(Main, Server, "listening")
  <2>1. /\ is_enable[Server] /\ MayUse(Server)
        /\ kind' = [kind EXCEPT ![socket[Server]] = "listening"]
        /\ UNCHANGED <<app, at, obj, is_enable, socket>>
    BY <1>5 DEF Net!Prepare, Net!Becomes, Net!frameVars, Net!socketVars, MayUse
  <2>2. \A s \in Sockets : MayUse(s)' <=> MayUse(s)
    BY <1>1, <2>1 DEF MayUse, vars
  <2>3. NumberInv' /\ HandlerInv' /\ NetTypes' /\ Within' /\ MainInv'
    BY <1>1, <1>2, <1>5, <2>1, <2>2 DEF NumberInv, HandlerInv, NetTypes, Within, vars, Listen, Goes
  <2>4. (\A s \in Sockets : MayUse(s) => ~Net!Unused(socket[s]))'
    <3> SUFFICES ASSUME NEW s \in Sockets, MayUse(s) PROVE kind'[socket[s]] # "closed"
      BY <2>1, <2>2
    <3>1. socket[s] \in Fds /\ kind[socket[s]] # "closed" BY <1>1 DEF NumberInv, OpenInv
    <3> QED BY <1>2, <2>1, <3>1
  <2>5. OpenInv' BY <1>1, <2>1, <2>4 DEF OpenInv, vars
  <2> QED BY <1>1, <2>3, <2>5, TypesSplit DEF ServerInv
<1>6. ASSUME NEW fd \in Fds, CreateServer, Net!CreateSocket(Main, Server, fd)
      PROVE  ServerTypeOK' /\ ServerInv'
  <2>1. /\ kind[fd] = "closed" /\ kind' = [kind EXCEPT ![fd] = "socket"]
        /\ socket' = [socket EXCEPT ![Server] = fd]
        /\ is_enable' = [is_enable EXCEPT ![Server] = TRUE]
        /\ UNCHANGED <<app, at, obj>>
        /\ \A th \in Workers \cup Actors : obj[th] # Server
    BY <1>6 DEF Net!CreateSocket, Net!Becomes, Net!Unused, Net!frameVars, Net!Idle, Net!Alone
  <2>2. \A s \in Sockets \ {Server} : (MayUse(s)' <=> MayUse(s)) /\ socket'[s] = socket[s]
    BY <1>1, <1>2, <2>1 DEF MayUse, vars
  <2>3. socket'[Server] = fd BY <1>2, <2>1
  <2>4. \A s \in Sockets : MayUse(s) => socket[s] # fd
    BY <1>1, <2>1 DEF OpenInv
  <2>5. NumberInv' BY <1>1, <1>2, <2>1, <2>2, <2>3, <2>4 DEF NumberInv
  <2>6. HandlerInv' /\ NetTypes' /\ Within' /\ MainInv'
    BY <1>1, <1>2, <1>6, <2>1 DEF HandlerInv, NetTypes, Within, vars, CreateServer, Goes
  <2>7. (\A s \in Sockets : MayUse(s) => ~Net!Unused(socket[s]))'
    <3> SUFFICES ASSUME NEW s \in Sockets, MayUse(s)' PROVE kind'[socket'[s]] # "closed"
      OBVIOUS
    <3>1. CASE s = Server BY <1>2, <2>1, <2>3, <3>1
    <3>2. CASE s # Server
      <4>1. socket'[s] = socket[s] /\ socket[s] \in Fds /\ socket[s] # fd /\ kind[socket[s]] # "closed"
        BY <1>1, <2>2, <2>4, <3>2 DEF NumberInv, OpenInv
      <4> QED BY <1>2, <2>1, <4>1
    <3> QED BY <3>1, <3>2
  <2>8. OpenInv'
    <3>1. \A c \in Tasks : is_enable'[c] = is_enable[c] BY <1>2, <2>1, ServerAssumption
    <3>2. \A w \in Workers : wpc[w] = "work" => task[w] \in Tasks BY <1>1 DEF TypeOK
    <3>3. \A th \in Workers \cup Actors : at[th] # "out" => is_enable'[obj[th]] = is_enable[obj[th]]
      BY <1>1, <1>2, <2>1 DEF Within
    <3>4. \A th \in Workers \cup Actors :
            /\ at[th] = "clear" => is_enable'[obj[th]]
            /\ at[th] = "close_fd" => ~is_enable'[obj[th]]
      BY <1>1, <3>3 DEF OpenInv
    <3>5. \A w \in Workers :
            wpc[w] = "work" /\ hpc[task[w]] = "closing" /\ at[w] = "out" => ~is_enable'[task[w]]
      BY <1>1, <3>1, <3>2 DEF OpenInv
    <3> QED BY <1>1, <2>1, <2>7, <3>1, <3>4, <3>5 DEF OpenInv, vars
  <2> QED BY <1>1, <2>5, <2>6, <2>8, TypesSplit DEF ServerInv
<1>7. ASSUME NEW fd \in Fds, Accept, Net!Accept(Main, Server, fd)
      PROVE  ServerTypeOK' /\ ServerInv'
  <2>1. /\ kind[fd] = "closed" /\ kind' = [kind EXCEPT ![fd] = "connected"]
        /\ app' = {fd}
        /\ UNCHANGED <<at, obj, is_enable, socket>>
        /\ \E c \in Tasks : tpc[c] = "new"
    BY <1>1, <1>7 DEF Accept, Net!Accept, Net!Becomes, Net!Unused, Net!frameVars, Net!socketVars
  <2>2. \A s \in Sockets : MayUse(s)' <=> MayUse(s)
    BY <1>1, <2>1 DEF MayUse, vars
  <2>3. \A s \in Sockets : MayUse(s) => socket[s] \in Fds /\ socket[s] # fd /\ kind[socket[s]] # "closed"
    BY <1>1, <2>1 DEF OpenInv, NumberInv
  <2>4. NumberInv' BY <1>1, <2>1, <2>2, <2>3 DEF NumberInv
  <2>5. HandlerInv' /\ NetTypes' /\ Within' /\ MainInv'
    BY <1>1, <1>2, <1>7, <2>1 DEF HandlerInv, NetTypes, Within, vars, Accept, Goes
  <2>6. OpenInv'
    <3>1. (\A s \in Sockets : MayUse(s) => ~Net!Unused(socket[s]))'
      BY <1>2, <2>1, <2>2, <2>3
    <3>2. (\A e \in app : ~Net!Unused(e))' BY <1>2, <2>1
    <3> QED BY <1>1, <2>1, <3>1, <3>2 DEF OpenInv, vars
  <2> QED BY <1>1, <2>4, <2>5, <2>6, TypesSplit DEF ServerInv
<1> QED BY <1>3, <1>4, <1>5, <1>6, <1>7 DEF CreateServer, Listen, Accept, AcceptFails, Goes

\* A connection is given to the pool: its number passes from main to the Socket,
\* and the task to the queue.
LEMMA AddKeeps ==
  ASSUME SystemInv, PoolInv', UNCHANGED server_exit,
         SetSocket \/ AddCurrent("accept") \/ PushCurrent
  PROVE  ServerTypeOK' /\ ServerInv'
<1>1. /\ TypeOK /\ TaskConservation /\ HandlerInv /\ NumberInv /\ MainInv /\ NetTypes /\ Within
      /\ OpenInv
      /\ TypeOK' /\ Serving
      /\ UNCHANGED <<task, wpc, task_mutex, hpc, kind, at, obj>>
      /\ mpc' \in {"add", "accept", "lock", "unlock"}
  BY TypesSplit DEF SystemInv, PoolInv, ServerInv, SetSocket, AddCurrent, PushCurrent, AddTask, Push,
     Goes, Net!SetSocket, Net!frameVars, vars
<1>2. /\ at \in [Workers \cup Actors -> {"out", "close", "clear", "close_fd"}]
      /\ obj \in [Workers \cup Actors -> Sockets \cup {None}]
      /\ is_enable \in [Sockets -> BOOLEAN]
      /\ socket \in [Sockets -> Fds \cup {None}]
      /\ tpc \in [Tasks -> {"new", "rejected", "admitted", "queued", "taken", "done"}]
      /\ Tasks \subseteq Sockets /\ None \notin Tasks
      /\ \A w \in Workers : wpc[w] = "work" => task[w] \in Tasks /\ tpc[task[w]] = "taken"
  BY <1>1, EchoAssumption, TasksAssumption DEF NetTypes, TypeOK, TaskConservation
<1>3. CASE SetSocket
  <2>1. PICK c \in Tasks, fd \in app :
          /\ tpc[c] = "new" /\ cur' = c /\ mpc' = "add"
          /\ ~is_enable[c] /\ app' = app \ {fd}
          /\ socket' = [socket EXCEPT ![c] = fd]
          /\ is_enable' = [is_enable EXCEPT ![c] = TRUE]
          /\ UNCHANGED <<vars, kind, at, obj>>
          /\ \A th \in Workers \cup Actors : obj[th] # c
    <3>1. \E d \in Tasks : tpc[d] = "new" BY <1>1, <1>3 DEF MainInv, SetSocket, Goes
    <3> QED BY <1>3, <3>1 DEF SetSocket, Goes, Net!SetSocket, Net!Idle, Net!Alone, Net!frameVars
  <2>2. app = {fd} /\ fd \in Fds /\ app' = {}
    BY <1>1, <1>3, <2>1 DEF MainInv, SetSocket, Goes
  <2>3. \A s \in Sockets \ {c} : (MayUse(s)' <=> MayUse(s)) /\ socket'[s] = socket[s]
    BY <1>1, <1>2, <2>1 DEF MayUse, vars
  <2>4. socket'[c] = fd /\ is_enable'[c] BY <1>2, <2>1
  <2>5. NumberInv' BY <1>1, <2>2, <2>3, <2>4 DEF NumberInv
  <2>6. HandlerInv' /\ NetTypes' /\ Within' /\ MainInv'
    BY <1>1, <1>2, <2>1, <2>2, <2>4 DEF HandlerInv, NetTypes, Within, MainInv, vars
  <2>7. (\A s \in Sockets : MayUse(s) => ~Net!Unused(socket[s]))'
    BY <1>1, <2>1, <2>2, <2>3, <2>4 DEF OpenInv
  <2>8. \A th \in Workers \cup Actors :
          /\ at[th] = "clear" => is_enable'[obj[th]]
          /\ at[th] = "close_fd" => ~is_enable'[obj[th]]
    BY <1>1, <1>2, <2>1 DEF OpenInv, Within
  <2>9. \A d \in Tasks :
          /\ tpc[d] \in {"admitted", "queued", "taken"} /\ hpc[d] # "closing" => is_enable'[d]
          /\ hpc[d] = "freed" => ~is_enable'[d]
    BY <1>1, <1>2, <2>1 DEF OpenInv, HandlerInv
  <2>10. \A w \in Workers :
          wpc[w] = "work" /\ hpc[task[w]] = "closing" /\ at[w] = "out" => ~is_enable'[task[w]]
    BY <1>1, <1>2, <2>1 DEF OpenInv
  <2>11. OpenInv' BY <1>1, <2>1, <2>2, <2>7, <2>8, <2>9, <2>10 DEF OpenInv, vars
  <2> QED BY <1>1, <2>5, <2>6, <2>11, TypesSplit DEF ServerInv
<1>4. CASE AddCurrent("accept") \/ PushCurrent
  <2>1. PICK c \in Tasks, to \in {"rejected", "admitted", "queued"} :
          /\ c = cur /\ tpc[c] \in {"new", "admitted"} /\ tpc' = [tpc EXCEPT ![c] = to]
          /\ cur' \in {cur, None} /\ (mpc' \in {"lock", "unlock"} <=> cur' # None)
          /\ mpc' # "add"
          /\ UNCHANGED <<app, is_enable, socket>>
          /\ to # "rejected" => is_enable[c]
    <3>1. mpc \in {"add", "push"} /\ cur \in Tasks /\ (mpc = "add" => is_enable[cur])
      BY <1>1, <1>4 DEF AddCurrent, PushCurrent, Goes, NetTypes, MainInv
    <3>2. mpc = "push" /\ tpc[cur] = "admitted" => is_enable[cur]
      BY <1>1, <3>1 DEF OpenInv, HandlerInv
    <3> QED BY <1>2, <1>4, <3>1, <3>2 DEF AddCurrent, PushCurrent, Goes, AddTask, Push
  <2>2. hpc[c] = "start" BY <1>1, <2>1 DEF HandlerInv
  <2>3. \A s \in Sockets : MayUse(s)' => MayUse(s)
    BY <1>1, <1>2, <2>1 DEF MayUse
  <2>4. NumberInv' BY <1>1, <2>1, <2>3 DEF NumberInv
  <2>5. HandlerInv' BY <1>1, <1>2, <2>1, <2>2 DEF HandlerInv
  <2>6. NetTypes' /\ Within' /\ MainInv'
    <3>1. cur' \in Tasks \cup {None} /\ (mpc' \in {"add", "lock", "push", "unlock"} <=> cur' # None)
      BY <1>1, <2>1 DEF NetTypes
    <3>2. app = {} BY <1>1, <1>4 DEF NetTypes, AddCurrent, PushCurrent, Goes
    <3> QED BY <1>1, <2>1, <3>1, <3>2 DEF NetTypes, Within, MainInv
  <2>7. (\A s \in Sockets : MayUse(s) => ~Net!Unused(socket[s]))'
    BY <1>1, <2>1, <2>3 DEF OpenInv
  <2>8. \A d \in Tasks :
          tpc'[d] \in {"admitted", "queued", "taken"} /\ hpc[d] # "closing" => is_enable[d]
    BY <1>1, <1>2, <2>1 DEF OpenInv
  <2>9. OpenInv' BY <1>1, <2>1, <2>7, <2>8 DEF OpenInv
  <2> QED BY <1>1, <2>4, <2>5, <2>6, <2>9, TypesSplit DEF ServerInv
<1> QED BY <1>3, <1>4

\* SIGINT takes main out of whatever it is doing.
LEMMA SigintKeeps ==
  ASSUME SystemInv, PoolInv', Sigint
  PROVE  ServerTypeOK' /\ ServerInv'
<1>1. /\ TypeOK /\ HandlerInv /\ NumberInv /\ MainInv /\ NetTypes /\ Within
      /\ TypeOK' /\ QuietStep
  BY TypesSplit DEF SystemInv, PoolInv, ServerInv, Sigint, QuietStep, vars
<1>2. /\ at \in [Workers \cup Actors -> {"out", "close", "clear", "close_fd"}]
      /\ obj \in [Workers \cup Actors -> Sockets \cup {None}]
      /\ Main \in Actors /\ Main \notin Workers
  BY <1>1, NamesAssumption DEF NetTypes, Actors, Main
<1>3. /\ mpc' = "stop" /\ cur' = None /\ server_exit' = TRUE /\ app' = {}
      /\ at' = [at EXCEPT ![Main] = "out"] /\ obj' = [obj EXCEPT ![Main] = None]
      /\ UNCHANGED <<vars, task_mutex, hpc, kind, is_enable, socket>>
      /\ OpenInv
  BY <1>1 DEF Sigint, SystemInv, ServerInv, MainInv
<1>4. \A s \in Sockets : MayUse(s)' => MayUse(s)
  BY <1>1, <1>2, <1>3 DEF MayUse, vars
<1>5. NumberInv' /\ HandlerInv' /\ NetTypes' /\ Within' /\ MainInv'
  BY <1>1, <1>2, <1>3, <1>4 DEF NumberInv, HandlerInv, NetTypes, Within, MainInv, vars
<1>6. (\A s \in Sockets : MayUse(s) => ~Net!Unused(socket[s]))'
  BY <1>3, <1>4 DEF OpenInv
<1>7. \A th \in Workers \cup Actors : at'[th] # "out" => at'[th] = at[th] /\ obj'[th] = obj[th]
  BY <1>2, <1>3
<1>8. \A w \in Workers : at'[w] = at[w]
  BY <1>2, <1>3
<1>9. OpenInv' BY <1>1, <1>3, <1>6, <1>7, <1>8 DEF OpenInv, vars, Actors, Main
<1> QED BY <1>1, <1>5, <1>9, TypesSplit DEF ServerInv

-----------------------------------------------------------------------------
(* What gets lost.                                                         *)

\* While the server runs, no task is refused.
LEMMA ExitStep ==
  ASSUME SystemInv, [ServerNext]_serverVars, Serving => ~exit_
  PROVE  Serving' => ~exit_'
<1>1. TypeOK /\ MainInv /\ (Serving => pc[Stopper] = "off")
  BY DEF SystemInv, PoolInv, ServerInv, SteadyInv, ManagerInv
<1>2. CASE UNCHANGED serverVars
  BY <1>2 DEF serverVars, echoVars, vars
<1>3. CASE ServerNext
  <2>1. \/ (SteadyNext \/ UNCHANGED vars \/ CrashOnly) /\ (Serving' => Serving)
        \/ Next /\ ~Serving'
    BY <1>1, <1>3, ServerStepOfPool DEF SystemInv
  <2>2. CASE UNCHANGED vars \/ CrashOnly
    BY <2>1, <2>2 DEF vars, CrashOnly
  <2>3. CASE Next /\ Serving' /\ Serving
    BY <1>1, <2>3, ExitSteps DEF SetExit, StartPool, Goto
  <2> QED BY <2>1, <2>2, <2>3 DEF Next
<1> QED BY <1>2, <1>3

\* Nothing more gets lost where nothing is opened and no open Socket is let go.
LEMMA LostLess ==
  ASSUME LossInv, leaked' \subseteq leaked, server_exit => server_exit',
         \A c \in Tasks : Lost(c)' => Lost(c) /\ socket'[c] = socket[c]
  PROVE  LostNumbers' = {} \/ (server_exit' /\ \E n \in Fds : LostNumbers' = {n})
<1>1. LostNumbers' \subseteq LostNumbers
  BY DEF LostNumbers
<1>2. LostNumbers = {} \/ (server_exit /\ \E n \in Fds : LostNumbers = {n})
  BY DEF LossInv
<1> QED BY <1>1, <1>2

\* The steps that leave every Socket, and every thread in it, where it is.
LEMMA LossCalm ==
  ASSUME SystemInv, LossInv, Serving' => ~exit_', Running,
         UNCHANGED <<is_enable, socket, leaked, at, obj, cur>>,
         \A c \in Tasks : tpc'[c] = tpc[c] \/ (tpc[c] = "queued" /\ tpc'[c] = "taken"),
         \A c \in Tasks : hpc'[c] = hpc[c] \/ hpc'[c] \notin {"closing", "freed"},
         \A w \in Workers : wpc'[w] = "work" =>
           task'[w] \in Tasks /\ ((wpc[w] = "work" /\ task'[w] = task[w]) \/ hpc'[task'[w]] = "start"),
         server_exit' = server_exit \/ (server_exit' /\ crashed'),
         mpc' = mpc \/ (at[Main] = "out" /\ mpc' # "unlock"
                        /\ (mpc \in {"stop", "stopping"} => mpc' \in {"stopping", "returned"})
                        /\ mpc # "returned")
  PROVE  LossInv'
<1>1. /\ TypeOK /\ NetTypes /\ (mpc = "unlock" => cur \in Tasks)
      /\ server_exit => server_exit'
  BY TypesSplit DEF SystemInv, NetTypes
<1>2. \A c \in Tasks : Lost(c)' => Lost(c) /\ socket'[c] = socket[c]
  BY <1>1 DEF Lost
<1>3. LostNumbers' = {} \/ (server_exit' /\ \E n \in Fds : LostNumbers' = {n})
  BY <1>1, <1>2, LostLess
<1>4. server_exit' => crashed' \/ mpc' \in {"stop", "stopping", "returned"}
  BY DEF LossInv, Running
<1>5. mpc' = "unlock" => tpc'[cur'] \in {"queued", "taken", "done"}
  BY <1>1 DEF LossInv
<1>6. at'[Main] # "out" /\ ~server_exit' => mpc' \in {"setjmp", "wait"}
  BY DEF LossInv
<1>7. ASSUME NEW w \in Workers
      PROVE  /\ at'[w] = "close_fd" => ~is_enable'[obj'[w]]
             /\ wpc'[w] = "work" /\ hpc'[task'[w]] = "closing" /\ at'[w] = "out" => ~is_enable'[task'[w]]
  BY <1>7 DEF LossInv
<1>8. \A c \in Tasks : hpc'[c] = "freed" => ~is_enable'[c]
  BY DEF LossInv
<1> QED BY <1>3, <1>4, <1>5, <1>6, <1>7, <1>8 DEF LossInv

\* A close ends with its Socket closed.
LEMMA LossClose ==
  ASSUME SystemInv, LossInv, Serving' => ~exit_', NEW th \in Workers \cup Actors, CloseStep(th),
         UNCHANGED server_exit
  PROVE  LossInv'
<1>1. /\ NetTypes /\ Within /\ Tasks \subseteq Sockets
      /\ at \in [Workers \cup Actors -> {"out", "close", "clear", "close_fd"}]
      /\ obj \in [Workers \cup Actors -> Sockets \cup {None}]
      /\ is_enable \in [Sockets -> BOOLEAN]
      /\ Main \in Workers \cup Actors
  BY TypesSplit, EchoAssumption DEF SystemInv, NetTypes, Actors, Main
<1>2. UNCHANGED <<vars, mpc, cur, hpc, socket, leaked>>
  BY DEF CloseStep, Net!CloseTest, Net!CloseClear, Net!CloseFd, Net!fdVars, Net!socketVars
<1>3. at[th] # "out" /\ obj[th] \in Sockets
  BY <1>1 DEF CloseStep, Net!CloseTest, Net!CloseClear, Net!CloseFd, Net!Advance, Net!Leave, Within
<1>4. /\ \A s \in Sockets : is_enable'[s] => is_enable[s]
      /\ \A t2 \in (Workers \cup Actors) \ {th} : at'[t2] = at[t2] /\ obj'[t2] = obj[t2]
      /\ at'[th] = "close_fd" => ~is_enable'[obj'[th]]
      /\ at'[th] = "out" => ~is_enable'[obj[th]] \/ at[th] = "close_fd"
  <2>1. CASE Net!CloseTest(th)
    BY <1>1, <1>3, <2>1 DEF Net!CloseTest, Net!Advance, Net!Leave, Net!socketVars
  <2>2. CASE Net!CloseClear(th)
    BY <1>1, <1>3, <2>2 DEF Net!CloseClear, Net!Advance
  <2>3. CASE Net!CloseFd(th)
    BY <1>1, <1>3, <2>3 DEF Net!CloseFd, Net!Leave, Net!socketVars
  <2> QED BY <2>1, <2>2, <2>3 DEF CloseStep
<1>5. LostNumbers' = {} \/ (server_exit' /\ \E n \in Fds : LostNumbers' = {n})
  <2>1. \A c \in Tasks : Lost(c)' => Lost(c) /\ socket'[c] = socket[c]
    BY <1>1, <1>2, <1>4 DEF Lost, vars
  <2> QED BY <1>2, <2>1, LostLess
<1>6. ASSUME NEW w \in Workers
      PROVE  /\ at'[w] = "close_fd" => ~is_enable'[obj'[w]]
             /\ wpc'[w] = "work" /\ hpc'[task'[w]] = "closing" /\ at'[w] = "out" => ~is_enable'[task'[w]]
  <2>1. /\ at[w] # "out" => obj[w] \in Sockets /\ obj[w] = task[w]
        /\ wpc[w] = "work" => task[w] \in Sockets
        /\ at[w] = "close_fd" => ~is_enable[obj[w]]
        /\ wpc[w] = "work" /\ hpc[task[w]] = "closing" /\ at[w] = "out" => ~is_enable[task[w]]
    BY <1>1 DEF Within, LossInv, SystemInv, PoolInv, TypeOK
  <2>2. UNCHANGED <<wpc, task, hpc>> BY <1>2 DEF vars
  <2>3. CASE w = th BY <1>3, <1>4, <2>1, <2>2, <2>3
  <2>4. CASE w # th BY <1>4, <2>1, <2>2, <2>4
  <2> QED BY <2>3, <2>4
<1>7. at'[Main] # "out" => at[Main] # "out"
  BY <1>1, <1>3, <1>4
<1>8. \A c \in Tasks : hpc'[c] = "freed" => ~is_enable'[c]
  BY <1>1, <1>2, <1>4 DEF LossInv
<1>9. UNCHANGED <<mpc, cur, tpc, crashed, exit_>> BY <1>2 DEF vars
<1> QED BY <1>5, <1>6, <1>7, <1>8, <1>9 DEF LossInv

\* A handler ends, and its task is done, when its Socket is closed.
LEMMA LossHandler ==
  ASSUME SystemInv, LossInv, Serving' => ~exit_', UNCHANGED server_exit,
         NEW w \in Workers, NEW c \in Tasks, DeleteSocket(w, c) \/ EndHandler(w, c)
  PROVE  LossInv'
<1>1. /\ TypeOK /\ TaskConservation /\ NetTypes /\ c \in Sockets /\ w # Main
      /\ hpc \in [Tasks -> HandlerPC]
      /\ at \in [Workers \cup Actors -> {"out", "close", "clear", "close_fd"}]
      /\ obj \in [Workers \cup Actors -> Sockets \cup {None}]
      /\ wpc \in [Workers -> WorkerPC]
      /\ tpc \in [Tasks -> {"new", "rejected", "admitted", "queued", "taken", "done"}]
      /\ Main \in Actors
  BY TypesSplit, EchoAssumption, NamesAssumption DEF SystemInv, PoolInv, NetTypes, TypeOK, Actors, Main
<1>2. /\ wpc[w] = "work" /\ task[w] = c /\ at[w] = "out"
      /\ UNCHANGED <<mpc, cur, leaked, is_enable, socket, task, exit_, crashed>>
      /\ \/ /\ hpc[c] = "delete" /\ hpc' = [hpc EXCEPT ![c] = "closing"]
            /\ at' = [at EXCEPT ![w] = "close"] /\ obj' = [obj EXCEPT ![w] = c]
            /\ UNCHANGED <<wpc, tpc>>
         \/ /\ hpc[c] = "closing" /\ hpc' = [hpc EXCEPT ![c] = "freed"]
            /\ UNCHANGED <<at, obj>>
            /\ wpc' = [wpc EXCEPT ![w] = "pause"]
            /\ tpc' = [tpc EXCEPT ![c] = "done"]
  BY DEF DeleteSocket, EndHandler, Handles, FinishTask, At, Net!Enter, vars
<1>3. hpc[c] = "closing" => ~is_enable[c]
  BY <1>2 DEF LossInv
<1>4. LostNumbers' = {} \/ (server_exit' /\ \E n \in Fds : LostNumbers' = {n})
  <2>1. \A d \in Tasks : Lost(d)' => Lost(d) /\ socket'[d] = socket[d]
    BY <1>1, <1>2, <1>3 DEF Lost
  <2> QED BY <1>2, <2>1, LostLess
<1>5. ASSUME NEW v \in Workers
      PROVE  /\ at'[v] = "close_fd" => ~is_enable'[obj'[v]]
             /\ wpc'[v] = "work" /\ hpc'[task'[v]] = "closing" /\ at'[v] = "out" => ~is_enable'[task'[v]]
  <2>1. /\ at[v] = "close_fd" => ~is_enable[obj[v]]
        /\ wpc[v] = "work" /\ hpc[task[v]] = "closing" /\ at[v] = "out" => ~is_enable[task[v]]
    BY DEF LossInv
  <2>2. CASE v = w BY <1>1, <1>2, <2>2
  <2>3. CASE v # w
    <3>1. at'[v] = at[v] /\ obj'[v] = obj[v] /\ wpc'[v] = wpc[v] BY <1>1, <1>2, <2>3
    <3>2. wpc[v] = "work" => task[v] \in Tasks /\ task[v] # c
      BY <1>1, <1>2, <2>3 DEF TypeOK, TaskConservation
    <3>3. wpc[v] = "work" => hpc'[task[v]] = hpc[task[v]] BY <1>1, <1>2, <3>2
    <3> QED BY <1>2, <2>1, <3>1, <3>3
  <2> QED BY <2>2, <2>3
<1>6. at'[Main] = at[Main]
  BY <1>1, <1>2
<1>7. \A d \in Tasks : hpc'[d] = "freed" => ~is_enable'[d]
  BY <1>1, <1>2, <1>3 DEF LossInv
<1>8. mpc' = "unlock" => tpc'[cur'] \in {"queued", "taken", "done"}
  BY <1>1, <1>2 DEF LossInv, NetTypes
<1> QED BY <1>2, <1>4, <1>5, <1>6, <1>7, <1>8 DEF LossInv

\* What only starts a close opens and closes nothing.
LEMMA LossEnter ==
  ASSUME SystemInv, LossInv, Serving' => ~exit_', UNCHANGED server_exit, NEW a \in Actors,
         UNCHANGED <<tpc, hpc, cur, leaked, is_enable, socket, crashed>>,
         \A w \in Workers : /\ wpc'[w] = "work" <=> wpc[w] = "work"
                            /\ task'[w] = task[w] /\ at'[w] = at[w] /\ obj'[w] = obj[w],
         a = Main => server_exit \/ mpc' \in {"setjmp", "wait"},
         a # Main => at'[Main] = at[Main],
         mpc' = mpc \/ (a = Main /\ ~server_exit)
  PROVE  LossInv'
<1>1. LostNumbers' = {} \/ (server_exit' /\ \E n \in Fds : LostNumbers' = {n})
  <2>1. \A d \in Tasks : Lost(d)' => Lost(d) /\ socket'[d] = socket[d]
    BY DEF Lost
  <2> QED BY <2>1, LostLess
<1>2. \A w \in Workers :
        /\ at'[w] = "close_fd" => ~is_enable'[obj'[w]]
        /\ wpc'[w] = "work" /\ hpc'[task'[w]] = "closing" /\ at'[w] = "out" => ~is_enable'[task'[w]]
  BY DEF LossInv
<1>3. \A c \in Tasks : hpc'[c] = "freed" => ~is_enable'[c]
  BY DEF LossInv
<1>4. /\ server_exit' => crashed' \/ mpc' \in {"stop", "stopping", "returned"}
      /\ mpc' = "unlock" => tpc'[cur'] \in {"queued", "taken", "done"}
      /\ at'[Main] # "out" /\ ~server_exit' => mpc' \in {"setjmp", "wait"}
  BY DEF LossInv
<1> QED BY <1>1, <1>2, <1>3, <1>4 DEF LossInv

LEMMA LossExit ==
  ASSUME SystemInv, LossInv, Serving' => ~exit_', UNCHANGED server_exit, NEW a \in Actors, EchoExit(a)
  PROVE  LossInv'
<1>1. /\ TypeOK /\ MapInv /\ MainInv /\ NetTypes
      /\ Serving => pc[Stopper] = "off"
      /\ at \in [Workers \cup Actors -> {"out", "close", "clear", "close_fd"}]
      /\ obj \in [Workers \cup Actors -> Sockets \cup {None}]
      /\ a \notin Workers /\ Main \in Actors
  BY TypesSplit, NamesAssumption
     DEF SystemInv, PoolInv, ServerInv, SteadyInv, ManagerInv, NetTypes, Actors, Main
<1>2. QuietStep
  BY <1>1, ActorTaskSteps DEF EchoExit, ActorStep, CallStep
<1>3. /\ UNCHANGED <<hpc, cur, mpc, leaked, is_enable, socket, crashed>>
      /\ pc[a] = "call_exit"
      /\ (at' = [at EXCEPT ![a] = "close"] /\ \E c : obj' = [obj EXCEPT ![a] = c]) \/ UNCHANGED <<at, obj>>
  BY DEF EchoExit, CallExitTask, Return, Goto, Net!Enter
<1>4. a = Main => server_exit
  BY <1>1, <1>3 DEF MainInv, Main
<1>5. \A w \in Workers : /\ wpc'[w] = "work" <=> wpc[w] = "work"
                         /\ task'[w] = task[w] /\ at'[w] = at[w] /\ obj'[w] = obj[w]
  BY <1>1, <1>2, <1>3 DEF QuietStep
<1>6. a # Main => at'[Main] = at[Main]
  BY <1>1, <1>3
<1> QED BY <1>2, <1>3, <1>4, <1>5, <1>6, LossEnter DEF QuietStep

\* main and its own socket.
LEMMA LossListener ==
  ASSUME SystemInv, LossInv, Running, Serving' => ~exit_', UNCHANGED server_exit,
         CreateServer \/ Listen \/ Accept \/ AcceptFails
  PROVE  LossInv'
<1>1. /\ TypeOK /\ NetTypes /\ Within /\ Main \in Actors /\ Main \notin Workers
      /\ at \in [Workers \cup Actors -> {"out", "close", "clear", "close_fd"}]
      /\ obj \in [Workers \cup Actors -> Sockets \cup {None}]
      /\ UNCHANGED <<vars, cur, hpc>>
      /\ at[Main] = "out" /\ ~server_exit
      /\ mpc \in {"create", "listen", "accept"}
      /\ mpc' \in {"listen", "setjmp", "accepted", "wait"}
  BY TypesSplit, NamesAssumption
     DEF SystemInv, NetTypes, CreateServer, Listen, Accept, AcceptFails, Goes, LossInv, Running,
         Actors, Main
<1>2. UNCHANGED <<tpc, wpc, task, exit_, crashed>>
  BY <1>1 DEF vars
<1>3. CASE Net!Close(Main, Server) /\ mpc' \in {"setjmp", "wait"}
  <2>1. /\ at' = [at EXCEPT ![Main] = "close"] /\ obj' = [obj EXCEPT ![Main] = Server]
        /\ UNCHANGED <<leaked, is_enable, socket>>
    BY <1>3 DEF Net!Close, Net!Enter, Net!fdVars, Net!socketVars
  <2>2. \A w \in Workers : at'[w] = at[w] /\ obj'[w] = obj[w]
    BY <1>1, <2>1
  <2> QED BY <1>1, <1>2, <1>3, <2>1, <2>2, LossEnter
<1>4. CASE UNCHANGED <<at, obj, leaked, is_enable, socket>>
  BY <1>1, <1>2, <1>4, LossCalm DEF TypeOK
<1>5. ASSUME NEW fd \in Fds, Net!CreateSocket(Main, Server, fd), mpc' = "listen" PROVE LossInv'
  <2>1. /\ UNCHANGED <<at, obj, leaked>>
        /\ socket' = [socket EXCEPT ![Server] = fd]
        /\ is_enable' = [is_enable EXCEPT ![Server] = TRUE]
    BY <1>5 DEF Net!CreateSocket, Net!frameVars
  <2>2. \A c \in Tasks : is_enable'[c] = is_enable[c] /\ socket'[c] = socket[c]
    BY <1>1, <2>1, ServerAssumption DEF NetTypes
  <2>3. LostNumbers' = {} \/ (server_exit' /\ \E n \in Fds : LostNumbers' = {n})
    <3>1. \A d \in Tasks : Lost(d)' => Lost(d) /\ socket'[d] = socket[d]
      BY <1>1, <1>2, <2>2 DEF Lost
    <3> QED BY <2>1, <3>1, LostLess
  <2>4. \A w \in Workers : /\ wpc[w] = "work" => task[w] \in Tasks
                           /\ at[w] # "out" => wpc[w] = "work" /\ obj[w] = task[w]
    BY <1>1 DEF Within, TypeOK
  <2>5. \A w \in Workers :
          /\ at'[w] = "close_fd" => ~is_enable'[obj'[w]]
          /\ wpc'[w] = "work" /\ hpc'[task'[w]] = "closing" /\ at'[w] = "out" => ~is_enable'[task'[w]]
    BY <1>1, <1>2, <2>1, <2>2, <2>4 DEF LossInv
  <2>6. \A c \in Tasks : hpc'[c] = "freed" => ~is_enable'[c]
    BY <1>1, <2>2 DEF LossInv
  <2> QED BY <1>1, <1>2, <1>5, <2>1, <2>3, <2>5, <2>6 DEF LossInv
<1> QED BY <1>3, <1>4, <1>5 DEF CreateServer, Listen, Accept, AcceptFails, Goes, Net!Prepare,
           Net!Accept, Net!frameVars, Net!socketVars

\* A connection on its way from main to the queue.
LEMMA LossAdd ==
  ASSUME SystemInv, LossInv, Running, Serving' => ~exit_', UNCHANGED server_exit,
         SetSocket \/ AddCurrent("accept") \/ PushCurrent \/ UnlockTasks("accept")
  PROVE  LossInv'
<1>1. /\ TypeOK /\ TaskConservation /\ HandlerInv /\ MainInv /\ NetTypes /\ Within
      /\ at[Main] = "out" /\ ~server_exit /\ Serving /\ ~exit_
      /\ UNCHANGED <<at, obj, hpc, wpc, task, leaked, crashed>>
      /\ mpc \in {"accepted", "add", "push", "unlock"}
  BY TypesSplit DEF SystemInv, PoolInv, ServerInv, SetSocket, AddCurrent, PushCurrent, UnlockTasks,
     AddTask, Push, Goes, Net!SetSocket, Net!frameVars, vars, LossInv, Running
<1>2. /\ is_enable \in [Sockets -> BOOLEAN] /\ socket \in [Sockets -> Fds \cup {None}]
      /\ tpc \in [Tasks -> {"new", "rejected", "admitted", "queued", "taken", "done"}]
      /\ Tasks \subseteq Sockets /\ None \notin Tasks
      /\ \A w \in Workers : wpc[w] = "work" => task[w] \in Tasks /\ tpc[task[w]] = "taken"
  BY <1>1, EchoAssumption, TasksAssumption DEF NetTypes, TypeOK, TaskConservation
<1>3. CASE SetSocket
  <2>1. PICK c \in Tasks :
          /\ tpc[c] = "new" /\ cur' = c /\ mpc' = "add" /\ cur = None
          /\ \E fd : socket' = [socket EXCEPT ![c] = fd]
          /\ is_enable' = [is_enable EXCEPT ![c] = TRUE]
          /\ UNCHANGED <<tpc, exit_>>
          /\ \A th \in Workers \cup Actors : obj[th] # c
    <3>1. \E d \in Tasks : tpc[d] = "new" BY <1>1, <1>3 DEF MainInv, SetSocket, Goes
    <3>2. cur = None BY <1>1, <1>3 DEF NetTypes, SetSocket, Goes
    <3> QED BY <1>3, <3>1, <3>2 DEF SetSocket, Goes, Net!SetSocket, Net!Idle, Net!Alone, vars
  <2>2. \A d \in Sockets \ {c} : is_enable'[d] = is_enable[d] /\ socket'[d] = socket[d]
    BY <1>2, <2>1
  <2>3. LostNumbers' = {} \/ (server_exit' /\ \E n \in Fds : LostNumbers' = {n})
    <3>1. \A d \in Tasks : Lost(d)' => Lost(d) /\ socket'[d] = socket[d]
      BY <1>2, <2>1, <2>2 DEF Lost
    <3> QED BY <1>1, <3>1, LostLess
  <2>4. \A w \in Workers :
          /\ at'[w] = "close_fd" => ~is_enable'[obj'[w]]
          /\ wpc'[w] = "work" /\ hpc'[task'[w]] = "closing" /\ at'[w] = "out" => ~is_enable'[task'[w]]
    BY <1>1, <1>2, <2>1, <2>2 DEF LossInv, Within
  <2>5. \A d \in Tasks : hpc'[d] = "freed" => ~is_enable'[d]
    BY <1>1, <1>2, <2>1, <2>2 DEF LossInv, HandlerInv
  <2> QED BY <1>1, <2>1, <2>3, <2>4, <2>5 DEF LossInv
<1>4. CASE AddCurrent("accept") \/ PushCurrent \/ UnlockTasks("accept")
  <2>1. /\ UNCHANGED <<is_enable, socket>> /\ cur \in Tasks
        /\ \/ tpc[cur] = "new" /\ tpc' = [tpc EXCEPT ![cur] = "admitted"] /\ cur' = cur /\ mpc' = "lock"
           \/ tpc[cur] = "admitted" /\ tpc' = [tpc EXCEPT ![cur] = "queued"] /\ cur' = cur /\ mpc' = "unlock"
           \/ mpc = "unlock" /\ tpc' = tpc /\ cur' = None /\ mpc' = "accept"
    BY <1>1, <1>4 DEF AddCurrent, PushCurrent, UnlockTasks, AddTask, Push, Goes, NetTypes, vars
  <2>2. LostNumbers' = {} \/ (server_exit' /\ \E n \in Fds : LostNumbers' = {n})
    <3>1. mpc = "unlock" => tpc[cur] \in {"queued", "taken"} \/ ~is_enable[cur]
      BY <1>1, <2>1 DEF LossInv, HandlerInv
    <3>2. \A d \in Tasks : Lost(d)' => Lost(d) /\ socket'[d] = socket[d]
      BY <1>2, <2>1, <3>1 DEF Lost
    <3> QED BY <1>1, <3>2, LostLess
  <2>3. mpc' = "unlock" => tpc'[cur'] \in {"queued", "taken", "done"}
    BY <1>2, <2>1
  <2>4. \A w \in Workers :
          /\ at'[w] = "close_fd" => ~is_enable'[obj'[w]]
          /\ wpc'[w] = "work" /\ hpc'[task'[w]] = "closing" /\ at'[w] = "out" => ~is_enable'[task'[w]]
    BY <1>1, <2>1 DEF LossInv
  <2>5. \A d \in Tasks : hpc'[d] = "freed" => ~is_enable'[d]
    BY <1>1, <2>1 DEF LossInv
  <2> QED BY <1>1, <2>2, <2>3, <2>4, <2>5 DEF LossInv
<1> QED BY <1>3, <1>4

\* SIGINT loses what main has in its hands, which is one connection at most: the
\* number accept returned, the Socket it is adding, or one it is about to close.
LEMMA LossSigint ==
  ASSUME SystemInv, LossInv, Serving' => ~exit_', Sigint
  PROVE  LossInv'
<1>1. /\ NumberInv /\ MainInv /\ NetTypes /\ Tasks \subseteq Sockets
      /\ at[Main] # "out" => obj[Main] = Server
      /\ ~server_exit /\ server_exit' /\ LostNumbers = {}
      /\ Main \in Actors /\ Main \notin Workers /\ Server \in Sockets
      /\ at \in [Workers \cup Actors -> {"out", "close", "clear", "close_fd"}]
      /\ obj \in [Workers \cup Actors -> Sockets \cup {None}]
  BY TypesSplit, NamesAssumption, ServerAssumption
     DEF SystemInv, ServerInv, MainInv, OpenInv, Sigint, LossInv, NetTypes, Actors, Main
<1>2. /\ mpc' = "stop" /\ cur' = None
      /\ leaked' = leaked \cup app \cup (IF at[Main] = "close_fd" THEN {socket[Server]} ELSE {})
      /\ at' = [at EXCEPT ![Main] = "out"] /\ obj' = [obj EXCEPT ![Main] = None]
      /\ UNCHANGED <<vars, hpc, is_enable, socket>>
  BY DEF Sigint
<1>3. UNCHANGED <<tpc, wpc, task, exit_, crashed>> BY <1>2 DEF vars
<1>4. leaked = {} /\ \A d \in Tasks : ~Lost(d)
  BY <1>1 DEF LostNumbers
<1>5. \A d \in Tasks : Lost(d)' => d = cur /\ is_enable[d]
  BY <1>2, <1>3, <1>4 DEF Lost
<1>6. LostNumbers' = {} \/ \E n \in Fds : LostNumbers' = {n}
  <2>1. LostNumbers' = leaked' \cup {socket[c] : c \in {d \in Tasks : Lost(d)'}}
    BY <1>2 DEF LostNumbers
  <2>2. CASE app # {}
    <3>1. mpc = "accepted" /\ cur = None BY <1>1, <2>2 DEF NetTypes
    <3>2. at[Main] = "out" /\ \E fd \in Fds : app = {fd} BY <1>1, <3>1 DEF LossInv, MainInv
    <3>3. \A d \in Tasks : ~Lost(d)' BY <1>5, <3>1, TasksAssumption
    <3>4. leaked' = app BY <1>2, <1>4, <3>2
    <3> QED BY <2>1, <3>2, <3>3, <3>4
  <2>3. CASE at[Main] = "close_fd"
    <3>1. mpc \in {"setjmp", "wait"} BY <1>1, <2>3 DEF LossInv
    <3>2. cur = None /\ app = {} BY <1>1, <3>1 DEF NetTypes
    <3>3. socket[Server] \in Fds BY <1>1, <2>3 DEF NumberInv, MayUse
    <3>4. \A d \in Tasks : ~Lost(d)' BY <1>5, <3>2, TasksAssumption
    <3>5. leaked' = {socket[Server]} BY <1>2, <1>4, <2>3, <3>2
    <3> QED BY <2>1, <3>3, <3>4, <3>5
  <2>4. CASE app = {} /\ at[Main] # "close_fd"
    <3>1. leaked' = {} BY <1>2, <1>4, <2>4
    <3>2. CASE \A d \in Tasks : ~Lost(d)' BY <2>1, <3>1, <3>2
    <3>3. ASSUME NEW d \in Tasks, Lost(d)' PROVE \E n \in Fds : LostNumbers' = {n}
      <4>1. d = cur /\ \A e \in Tasks : Lost(e)' => e = d BY <1>5, <3>3
      <4>2. {socket[c] : c \in {e \in Tasks : Lost(e)'}} = {socket[d]} BY <3>3, <4>1
      <4>3. socket[d] \in Fds BY <1>1, <1>5, <3>3 DEF NumberInv, MayUse
      <4> QED BY <2>1, <3>1, <4>2, <4>3
    <3> QED BY <3>2, <3>3
  <2> QED BY <2>2, <2>3, <2>4
<1>7. \A w \in Workers : at'[w] = at[w] /\ obj'[w] = obj[w]
  BY <1>1, <1>2
<1>8. \A w \in Workers :
        /\ at'[w] = "close_fd" => ~is_enable'[obj'[w]]
        /\ wpc'[w] = "work" /\ hpc'[task'[w]] = "closing" /\ at'[w] = "out" => ~is_enable'[task'[w]]
  BY <1>2, <1>3, <1>7 DEF LossInv
<1>9. \A c \in Tasks : hpc'[c] = "freed" => ~is_enable'[c]
  BY <1>2 DEF LossInv
<1> QED BY <1>1, <1>2, <1>6, <1>8, <1>9 DEF LossInv

\* The steps of the pool.
LEMMA LossPool ==
  ASSUME SystemInv, LossInv, Running, Serving' => ~exit_', PoolOnly, UNCHANGED server_exit
  PROVE  LossInv'
<1>1. /\ TypeOK /\ MapInv /\ TaskConservation /\ HandlerInv /\ Within
      /\ UNCHANGED <<hpc, cur, leaked, at, obj, is_enable, socket>>
      /\ \A w \in Workers : wpc[w] = "work" => task[w] \in Tasks
  BY TypesSplit DEF SystemInv, PoolInv, ServerInv, TypeOK, PoolOnly, PoolWorker, Wakeup, PoolActor,
     InitPool, StopPool
<1>2. QuietStep \/ \E w \in Workers : GetTask(w)
  <2>1. ASSUME NEW w \in Workers, PoolWorker(w) \/ Wakeup(w)
        PROVE  QuietStep \/ GetTask(w)
    BY <1>1, <2>1, WorkerTaskSteps
       DEF PoolWorker, Wakeup, FinishTask, GetTask, At, SpuriousWakeup, Step
  <2> QED BY <1>1, <2>1, ActorTaskSteps, ServerAssumption
             DEF PoolOnly, PoolActor, InitPool, StopPool
<1>3. /\ \A c \in Tasks : tpc'[c] = tpc[c] \/ (tpc[c] = "queued" /\ tpc'[c] = "taken")
      /\ \A w \in Workers : wpc'[w] = "work" =>
           task'[w] \in Tasks /\ ((wpc[w] = "work" /\ task'[w] = task[w]) \/ hpc'[task'[w]] = "start")
  <2>1. CASE QuietStep BY <1>1, <2>1 DEF QuietStep
  <2>2. ASSUME NEW w \in Workers, GetTask(w)
        PROVE  /\ \A c \in Tasks : tpc'[c] = tpc[c] \/ (tpc[c] = "queued" /\ tpc'[c] = "taken")
               /\ \A v \in Workers : wpc'[v] = "work" =>
                    task'[v] \in Tasks
                    /\ ((wpc[v] = "work" /\ task'[v] = task[v]) \/ hpc'[task'[v]] = "start")
    <3>1. PICK t \in Tasks : /\ tpc[t] = "queued" /\ tpc' = [tpc EXCEPT ![t] = "taken"]
                             /\ task' = [task EXCEPT ![w] = t]
                             /\ wpc' = [wpc EXCEPT ![w] = "work"]
      BY <1>1, <2>2, TaskTaken
    <3>2. hpc'[t] = "start" BY <1>1, <3>1 DEF HandlerInv
    <3> QED BY <1>1, <3>1, <3>2 DEF TypeOK
  <2> QED BY <1>2, <2>1, <2>2
<1>4. mpc' = mpc \/ (at[Main] = "out" /\ mpc' # "unlock"
                     /\ (mpc \in {"stop", "stopping"} => mpc' \in {"stopping", "returned"})
                     /\ mpc # "returned")
  BY DEF PoolOnly, PoolWorker, Wakeup, PoolActor, InitPool, StopPool, Goes
<1> QED BY <1>1, <1>3, <1>4, LossCalm

\* The other steps that touch no Socket.
LEMMA LossOther ==
  ASSUME SystemInv, LossInv, Running, Serving' => ~exit_',
         \/ (SetJump \/ LockTasks \/ ReturnFromMain) /\ UNCHANGED server_exit
         \/ (\E a \in Actors : EchoCrash(a)) /\ UNCHANGED server_exit
         \/ SigintEarly
         \/ \E w \in Workers, c \in Tasks :
              (EnterRecv(w, c) /\ UNCHANGED server_exit) \/ Received(w, c)
  PROVE  LossInv'
<1>1. /\ hpc \in [Tasks -> HandlerPC]
      /\ \A w \in Workers : wpc[w] = "work" => task[w] \in Tasks
  BY TypesSplit DEF SystemInv, PoolInv, TypeOK, NetTypes
<1>2. /\ UNCHANGED <<tpc, wpc, task, cur, leaked, at, obj, is_enable, socket>>
      /\ \/ UNCHANGED hpc
         \/ \E c \in Tasks, to \in {"start", "blocked", "delete"} : hpc' = [hpc EXCEPT ![c] = to]
      /\ server_exit' = server_exit \/ (server_exit' /\ crashed')
      /\ mpc' = mpc \/ (at[Main] = "out" /\ mpc' # "unlock"
                        /\ (mpc \in {"stop", "stopping"} => mpc' \in {"stopping", "returned"})
                        /\ mpc # "returned")
  BY DEF SetJump, LockTasks, ReturnFromMain, EchoCrash, Crash, SigintEarly, EnterRecv, Received,
     Handles, Goes, vars
<1>3. \A c \in Tasks : hpc'[c] = hpc[c] \/ hpc'[c] \notin {"closing", "freed"}
  BY <1>1, <1>2
<1> QED BY <1>1, <1>2, <1>3, LossCalm

LEMMA LossInit == ServerInit => LossInv
<1> SUFFICES ASSUME ServerInit PROVE LossInv
  OBVIOUS
<1>1. LostNumbers = {}
  BY EchoAssumption DEF ServerInit, EchoInit, Init, LostNumbers, Lost
<1> QED BY <1>1, EchoAssumption DEF ServerInit, EchoInit, Init, LossInv, Actors, Main

LEMMA LossStep == SystemInv /\ LossInv /\ [ServerNext]_serverVars => LossInv'
<1> SUFFICES ASSUME SystemInv, LossInv, [ServerNext]_serverVars PROVE LossInv'
  OBVIOUS
<1>1. Serving' => ~exit_'
  BY ExitStep DEF LossInv
<1>2. CASE UNCHANGED serverVars
  BY <1>2 DEF serverVars, echoVars, vars, LossInv, LostNumbers, Lost
<1>3. CASE ServerNext
  <2> USE <1>1
  <2>1. Running BY <1>3 DEF ServerNext
  <2>2. ASSUME NEW w \in Workers, ServerThread(w) \/ (Wakeup(w) /\ UNCHANGED server_exit)
        PROVE  LossInv'
    <3>1. CASE PoolWorker(w) \/ Wakeup(w)
      BY <2>1, <2>2, <3>1, LossPool DEF ServerThread, PoolOnly
    <3>2. CASE ~(PoolWorker(w) \/ Wakeup(w))
      BY <2>1, <2>2, <3>2, LossClose, LossHandler, LossOther DEF ServerThread, WorkerThread
    <3> QED BY <3>1, <3>2
  <2>3. ASSUME NEW a \in Actors, ActorThread(a), UNCHANGED server_exit
        PROVE  LossInv'
    <3>1. CASE PoolActor(a) /\ ~EchoExit(a)
      BY <2>1, <2>3, <3>1, LossPool DEF PoolOnly
    <3> QED BY <2>1, <2>3, <3>1, LossClose, LossExit, LossOther DEF ActorThread, PoolActor
  <2>4. ASSUME MainStep, UNCHANGED server_exit
        PROVE  LossInv'
    BY <2>1, <2>4, LossPool, LossOther, LossListener, LossAdd DEF MainStep, AddStep, PoolOnly
  <2>5. ASSUME NEW w \in Workers, NEW c \in Tasks, Received(w, c)
        PROVE  LossInv'
    BY <2>1, <2>5, LossOther
  <2>6. ASSUME Accept \/ AcceptFails
        PROVE  LossInv'
    BY <2>1, <2>6, LossListener DEF Accept, AcceptFails
  <2>7. ASSUME Sigint \/ SigintEarly
        PROVE  LossInv'
    BY <2>1, <2>7, LossSigint, LossOther
  <2> QED BY <1>3, <2>2, <2>3, <2>4, <2>5, <2>6, <2>7 DEF ServerNext, ServerActor
<1> QED BY <1>2, <1>3

-----------------------------------------------------------------------------
(* The server.                                                             *)

LEMMA SystemInit == ServerInit => SystemInv
<1> SUFFICES ASSUME ServerInit PROVE SystemInv
  OBVIOUS
<1>1. TypeOK /\ MapInv /\ TaskConservation /\ SteadyInv
  BY TypeOKInit, MapInvInit, ConservationInit, SteadyInit DEF ServerInit, EchoInit
<1>2. PoolInv
  BY <1>1 DEF PoolInv, IdleInv, ServerInit, EchoInit, Init
<1>3. ServerTypeOK
  BY <1>1, EchoAssumption DEF ServerInit, EchoInit, ServerTypeOK, EchoTypes
<1>4. ServerInv
  BY EchoAssumption, TasksAssumption
     DEF ServerInit, EchoInit, Init, ServerInv, NumberInv, MayUse, HandlerInv, MainInv, OpenInv, Actors, Main
<1> QED BY <1>2, <1>3, <1>4 DEF SystemInv

LEMMA SystemStep == SystemInv /\ [ServerNext]_serverVars => SystemInv'
<1> SUFFICES ASSUME SystemInv, [ServerNext]_serverVars PROVE SystemInv'
  OBVIOUS
<1>1. PoolInv'
  BY PoolInvStep DEF SystemInv, ServerInv
<1>2. CASE UNCHANGED serverVars
  BY <1>1, <1>2, TypesSplit DEF SystemInv, serverVars, echoVars, vars, NetTypes, Within, PoolInv,
     ServerInv, NumberInv, HandlerInv, MainInv, OpenInv, MayUse
<1>3. CASE ServerNext
  <2> USE <1>1
  <2>1. Running BY <1>3 DEF ServerNext
  <2>2. ASSUME NEW w \in Workers, ServerThread(w) \/ (Wakeup(w) /\ UNCHANGED server_exit)
        PROVE  ServerTypeOK' /\ ServerInv'
    BY <2>1, <2>2, PoolOnlyKeeps, CloseKeeps, HandlerKeeps DEF ServerThread, WorkerThread, PoolOnly
  <2>3. ASSUME NEW a \in Actors, ActorThread(a), UNCHANGED server_exit
        PROVE  ServerTypeOK' /\ ServerInv'
    BY <2>1, <2>3, PoolOnlyKeeps, CloseKeeps, ExitKeeps, MainOnlyKeeps DEF ActorThread, PoolActor, PoolOnly
  <2>4. ASSUME MainStep, UNCHANGED server_exit
        PROVE  ServerTypeOK' /\ ServerInv'
    BY <2>1, <2>4, PoolOnlyKeeps, MainOnlyKeeps, ListenerKeeps, AddKeeps
       DEF MainStep, AddStep, PoolOnly, MainOnly
  <2>5. ASSUME NEW w \in Workers, NEW c \in Tasks, Received(w, c)
        PROVE  ServerTypeOK' /\ ServerInv'
    BY <2>5, HandlerKeeps DEF Received
  <2>6. ASSUME Accept \/ AcceptFails
        PROVE  ServerTypeOK' /\ ServerInv'
    BY <2>6, ListenerKeeps DEF Accept, AcceptFails
  <2>7. ASSUME Sigint \/ SigintEarly
        PROVE  ServerTypeOK' /\ ServerInv'
    BY <2>7, SigintKeeps, MainOnlyKeeps
  <2> QED BY <1>3, <2>2, <2>3, <2>4, <2>5, <2>6, <2>7 DEF ServerNext, ServerActor, SystemInv
<1> QED BY <1>2, <1>3

LEMMA SystemInvariant == ServerSpec => []SystemInv
BY SystemInit, SystemStep, PTL DEF ServerSpec

\* Main adds one task at a time, and a worker is in close only on the Socket of
\* the task it is running, whatever the order of the threads and of the signal.
THEOREM ServerTypesCorrect == ServerSpec => []ServerTypeOK
<1>1. SystemInv => ServerTypeOK
  BY DEF SystemInv
<1> QED BY <1>1, SystemInvariant, PTL

\* The number that a handler uses, or a close is about to close, never stands
\* for another Socket: until the pool is stopped one thread closes each number,
\* and afterwards no number is handed out again.
THEOREM NumbersKept == ServerSpec => []NumbersNotMixedUp
<1>1. SystemInv => NumbersNotMixedUp
  <2> SUFFICES ASSUME SystemInv, NEW c \in Tasks, InUse(c)
               PROVE  /\ socket[c] \notin app
                      /\ \A s \in Sockets \ {c} : is_enable[s] => socket[s] # socket[c]
    BY DEF NumbersNotMixedUp
  <2>1. NumberInv /\ c \in Sockets
    BY EchoAssumption DEF SystemInv, ServerInv
  <2>2. MayUse(c)
    BY DEF InUse, MayUse
  <2> QED BY <2>1, <2>2 DEF NumberInv, MayUse
<1> QED BY <1>1, SystemInvariant, PTL

\* A connection is lost only by SIGINT, and then one at most, whatever main was
\* doing and however many there are; the pool refuses none while it serves.
THEOREM ConnectionsKept == ServerSpec => []OneLostAtMost
<1>1. ServerSpec => []LossInv
  BY LossInit, LossStep, SystemInvariant, PTL DEF ServerSpec
<1>2. LossInv => OneLostAtMost
  <2> SUFFICES ASSUME LossInv PROVE Cardinality(LostNumbers) <= IF server_exit THEN 1 ELSE 0
    BY DEF OneLostAtMost, LostNumbers, Lost
  <2>1. LostNumbers = {} \/ (server_exit /\ \E n \in Fds : LostNumbers = {n})
    BY DEF LossInv
  <2>2. Cardinality({}) = 0 /\ \A n \in Fds : Cardinality({n}) = 1
    BY FS_EmptySet, FS_Singleton
  <2> QED BY <2>1, <2>2
<1> QED BY <1>1, <1>2, PTL

=============================================================================
