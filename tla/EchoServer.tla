------------------------------ MODULE EchoServer ------------------------------
(***************************************************************************)
(* The echo server of src/main/echo_server_test.cc: main accepts           *)
(* connections and gives each to the pool as a task, until SIGINT throws   *)
(* it out of whatever it is doing, and it stops the pool.                  *)
(* Left out: the task that prints the pool's state, and the worker that    *)
(* does nothing else until its exit_task is called.                        *)
(***************************************************************************)
EXTENDS EchoTasks

CONSTANT Server   \* the Socket echo_server; the others are connections

ASSUME ServerAssumption ==
  /\ Sockets = Tasks \cup {Server} /\ Server \notin Tasks
  /\ ExitActions = {FALSE}

VARIABLE server_exit   \* SIGINT has come

serverVars == <<echoVars, server_exit>>

\* Socket echo_server(...); nobody looks whether there is a socket.
CreateServer ==
  /\ Goes("create", "listen")
  /\ \/ \E fd \in Fds : Lowest(fd) /\ Net!CreateSocket(Main, Server, fd)
     \/ UNCHANGED netVars
  /\ UNCHANGED <<vars, cur, task_mutex, hpc>>

\* listen, which closes the socket if it fails.
Listen ==
  /\ Goes("listen", "setjmp")
  /\ Net!Prepare(Main, Server, "listening") \/ Net!Close(Main, Server)
  /\ UNCHANGED <<vars, cur, task_mutex, hpc>>

SetJump == Goes("setjmp", "accept") /\ UNCHANGED <<vars, cur, task_mutex, hpc, netVars>>

\* A client connects.
Accept ==
  /\ Goes("accept", "accepted")
  /\ \E c \in Tasks : tpc[c] = "new"
  /\ \E fd \in Fds : Lowest(fd) /\ Net!Accept(Main, Server, fd)
  /\ UNCHANGED <<vars, cur, task_mutex, hpc, server_exit>>

\* An error, or no socket to accept from: the loop ends.
AcceptFails ==
  /\ Goes("accept", "wait")
  /\ Net!Close(Main, Server)
  /\ UNCHANGED <<vars, cur, task_mutex, hpc, server_exit>>

\* Mutant: the task is not added.
SetSocketOnly ==
  /\ Goes("accepted", "accept")
  /\ \E fd \in app : Net!SetSocket(Main, CHOOSE d \in Tasks : tpc[d] = "new", fd)
  /\ UNCHANGED <<vars, cur, task_mutex, hpc>>

\* new Socket and its set_socket, which agrees to what accept returned.
SetSocket ==
  LET c == CHOOSE d \in Tasks : tpc[d] = "new" IN
  /\ Goes("accepted", "add")
  /\ \E fd \in app : Net!SetSocket(Main, c, fd)
  /\ cur' = c
  /\ UNCHANGED <<vars, task_mutex, hpc>>

StartingUp == {"init", "create", "listen", "setjmp"}

\* SIGINT before setjmp: longjmp has nowhere to go.
SigintEarly ==
  /\ ~server_exit /\ mpc \in StartingUp
  /\ server_exit' = TRUE
  /\ crashed' = TRUE
  /\ UNCHANGED <<workerVars, mapVars, taskVars, exit_, pool_state, actorVars,
                 mpc, cur, task_mutex, hpc, netVars>>

\* SIGINT: server_exit is set, and SIGIO's handler jumps back to setjmp out of
\* any function main is in, with all it holds.  Bound: it comes once, and the
\* kernel gives it to main.
Sigint ==
  /\ ~server_exit /\ mpc \notin StartingUp
  /\ server_exit' = TRUE
  /\ mpc' = "stop"
  /\ cur' = None
  /\ leaked' = leaked \cup app \cup
       (IF at[Main] = "close_fd" THEN {socket[Server]} ELSE {})
  /\ app' = {}
  /\ at' = [at EXCEPT ![Main] = "out"]
  /\ obj' = [obj EXCEPT ![Main] = None]
  /\ UNCHANGED <<vars, task_mutex, hpc, kind, local, is_enable, socket>>

\* pool.stop_handler()
StopPool ==
  /\ Goes("stop", "stopping")
  /\ BeginShutdown(FALSE)
  /\ UNCHANGED <<cur, task_mutex, hpc, netVars>>

\* The rest of main finds exit_, server_exit and the pool's state set.
ReturnFromMain ==
  /\ Goes("stopping", "returned")
  /\ pc[Main] = "done"
  /\ UNCHANGED <<vars, cur, task_mutex, hpc, netVars>>

MainStep ==
  \/ InitPool("init", "create") \/ CreateServer \/ Listen \/ SetJump \/ SetSocket
  \/ AddStep("accept") \/ StopPool \/ ReturnFromMain

\* while (cli_info->get_socket_state()), and recv, which tests is_enable_ again
\* before the kernel looks the number up: all three end the loop alike.
EnterRecv(w, c) ==
  /\ Handles(w, c, "start", IF Connected(c) THEN "blocked" ELSE "delete")
  /\ UNCHANGED netVars

\* recv returns when the client sends a message, which is sent back, or sends
\* "quit" or hangs up; not when another thread closes the number.
Received(w, c) ==
  /\ Handles(w, c, "blocked", "start") \/ Handles(w, c, "blocked", "delete")
  /\ UNCHANGED <<netVars, server_exit>>

ServerThread(w) ==
  /\ WorkerThread(w) \/ \E c \in Tasks : EnterRecv(w, c)
  /\ UNCHANGED server_exit

ServerActor(a) == (ActorThread(a) \/ (a = Main /\ MainStep)) /\ UNCHANGED server_exit

ServerInit == EchoInit /\ server_exit = FALSE

ServerNext ==
  /\ Running
  /\ \/ \E w \in Workers : ServerThread(w) \/ (Wakeup(w) /\ UNCHANGED server_exit)
     \/ \E a \in Actors : ServerActor(a)
     \/ \E w \in Workers, c \in Tasks : Received(w, c)
     \/ Accept \/ AcceptFails \/ SigintEarly \/ Sigint

ServerSpec == ServerInit /\ [][ServerNext]_serverVars

\* Every thread that can run does; nothing makes a client connect, send or hang
\* up, accept fail or a signal come.
FairServerSpec ==
  /\ ServerSpec
  /\ \A w \in Workers : WF_serverVars(Running /\ ServerThread(w))
  /\ \A a \in Actors :
       /\ WF_serverVars(Running /\ ServerActor(a))
       /\ SF_serverVars(Running /\ EchoSignal(a) /\ UNCHANGED server_exit)

-----------------------------------------------------------------------------

\* The type invariant.
ServerTypeOK ==
  /\ EchoTypes
  /\ server_exit \in BOOLEAN
  /\ mpc \in StartingUp \cup {"accept", "accepted", "add", "lock", "push", "unlock", "wait",
                              "stop", "stopping", "returned"}
  /\ mpc = "accepted" <=> app # {}

\* A handler that has tested is_enable_ may use the number of its Socket until
\* the end of its loop, closed or not; and a close is about to close it.
InUse(c) ==
  \/ tpc[c] = "taken" /\ hpc[c] \in {"start", "blocked"}
  \/ \E th \in Workers \cup Actors : obj[th] = c /\ at[th] = "close_fd"

\* The number that a handler uses, or a close is about to close, never stands
\* for another Socket, although echo_exit and the destructor may both close it
\* and the handler goes on with the closed number (echo_server_test.cc:63,
\* 113-119, 132, 145).
NumbersNotMixedUp ==
  \A c \in Tasks : InUse(c) =>
    /\ socket[c] \notin app
    /\ \A s \in Sockets \ {c} : is_enable[s] => socket[s] # socket[c]

\* No accepted connection gets lost but the one SIGINT takes out of main's
\* hands: any other open Socket is being added, queued or with its handler,
\* and none is refused because the pool is closing
\* (echo_server_test.cc:63-77, 94-97).
OneLostAtMost ==
  Cardinality(leaked \cup {socket[c] : c \in {d \in Tasks :
     is_enable[d] /\ cur # d /\ tpc[d] \notin {"queued", "taken"}}})
    <= IF server_exit THEN 1 ELSE 0

\* SIGINT ends the server, unless one of the obstacles is there for ever
\* (echo_server_test.cc:51-53, 80-96).
ServerStops ==
  <>server_exit => <>(mpc = "returned" \/ crashed) \/ <>[](\E w \in Workers : Obstacle(w))

-----------------------------------------------------------------------------
(* Why the numbers stay apart: with ServerTypeOK and the invariants of the *)
(* pool, an inductive invariant of ServerSpec.                             *)

\* The pool has not been stopped.
Serving == mpc \notin {"stopping", "returned"}

\* Somebody has the number of Socket s, and is going to use or to close it.
MayUse(s) ==
  \/ is_enable[s]
  \/ s \in Tasks /\ tpc[s] \in {"admitted", "queued", "taken"} /\ hpc[s] \in {"start", "blocked"}
  \/ \E th \in Workers \cup Actors : obj[th] = s /\ at[th] \in {"clear", "close_fd"}

NumberInv ==
  \A s \in Sockets : MayUse(s) =>
    /\ socket[s] \in Fds \ app
    /\ \A r \in Sockets \ {s} : MayUse(r) => socket[r] # socket[s]

\* How far a handler is, by its task and by its worker.
HandlerInv ==
  /\ \A c \in Tasks :
       /\ tpc[c] \notin {"taken", "done"} => hpc[c] = "start"
       /\ tpc[c] = "done" <=> hpc[c] = "freed"
  /\ \A w \in Workers : at[w] # "out" => hpc[task[w]] = "closing"

MainInv ==
  /\ mpc = "add" => is_enable[cur] /\ tpc[cur] = "new"
  /\ mpc = "accepted" => \E c \in Tasks : tpc[c] = "new"
  /\ mpc = "accepted" => \E fd \in Fds : app = {fd}
  /\ mpc \in {"stop", "stopping", "returned"} => server_exit

\* Until the pool is stopped, every number in use is open, and one thread
\* closes it: the worker of the task, or main its own.
OpenInv ==
  /\ \A s \in Sockets : MayUse(s) => ~Net!Unused(socket[s])
  /\ \A fd \in app : ~Net!Unused(fd)
  /\ \A th \in Workers \cup Actors :
       /\ at[th] = "clear" => is_enable[obj[th]]
       /\ at[th] = "close_fd" => ~is_enable[obj[th]]
  /\ \A c \in Tasks :
       /\ tpc[c] \in {"admitted", "queued", "taken"} /\ hpc[c] # "closing" => is_enable[c]
       /\ hpc[c] = "freed" => ~is_enable[c]
  /\ \A w \in Workers :
       wpc[w] = "work" /\ hpc[task[w]] = "closing" /\ at[w] = "out" => ~is_enable[task[w]]
  /\ at[Manager] # "out" =>
       at[Manager] = "close" /\ obj[Manager] \in Tasks /\ hpc[obj[Manager]] = "freed"
  /\ at[Main] # "out" => obj[Main] = Server

ServerInv == NumberInv /\ HandlerInv /\ MainInv /\ (Serving => OpenInv)

-----------------------------------------------------------------------------
(* Why at most one connection is lost: with ServerInv and the invariants   *)
(* of the pool, another one.                                               *)

\* Socket c is open, and nobody is going to close it.
Lost(c) == is_enable[c] /\ cur # c /\ tpc[c] \notin {"queued", "taken"}

LostNumbers == leaked \cup {socket[c] : c \in {d \in Tasks : Lost(d)}}

\* Only SIGINT loses one, and nothing comes after it; a handler ends when its
\* Socket is closed.
LossInv ==
  /\ LostNumbers = {} \/ (server_exit /\ \E n \in Fds : LostNumbers = {n})
  /\ server_exit => crashed \/ mpc \in {"stop", "stopping", "returned"}
  /\ Serving => ~exit_
  /\ mpc = "unlock" => tpc[cur] \in {"queued", "taken", "done"}
  /\ at[Main] # "out" /\ ~server_exit => mpc \in {"setjmp", "wait"}
  /\ \A w \in Workers :
       /\ at[w] = "close_fd" => ~is_enable[obj[w]]
       /\ wpc[w] = "work" /\ hpc[task[w]] = "closing" /\ at[w] = "out" => ~is_enable[task[w]]
  /\ \A c \in Tasks : hpc[c] = "freed" => ~is_enable[c]

==============================================================================
