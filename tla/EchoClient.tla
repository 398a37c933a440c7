------------------------------ MODULE EchoClient ------------------------------
(***************************************************************************)
(* The echo client of src/main/echo_client_test.cc: main creates Sockets   *)
(* and gives each to the pool as a task; echo_handler connects it and      *)
(* exchanges a few messages.  The handler of SIGINT stops the whole pool   *)
(* on main's own stack, whatever main is in, and returns to it.            *)
(* Left out: write_file, a log of descriptor numbers.                      *)
(***************************************************************************)
EXTENDS EchoTasks

\* main configures SHUTDOWN_ALL_THREAD_IMMEDIATELY.
ASSUME ClientAssumption == Sockets = Tasks /\ ExitActions = {FALSE}

VARIABLES
  exit_state,   \* exit_state: SIGINT has been handled
  in_handler    \* main is in sig_int

clientVars == <<echoVars, exit_state, in_handler>>

\* new Socket(...): a Socket that could not be created is skipped.  Bound: as
\* many as there are names; the code goes on for ever.
NewSocket ==
  LET c == CHOOSE d \in Tasks : tpc[d] = "new" IN
  /\ Goes("create", "add")
  /\ \E d \in Tasks : tpc[d] = "new"
  /\ \E fd \in Fds : Lowest(fd) /\ Net!CreateSocket(Main, c, fd)
  /\ cur' = c
  /\ UNCHANGED <<vars, task_mutex, hpc>>

\* The end of the inner loop: if (exit_state == true) break;
TestExit ==
  /\ Goes("create", IF exit_state THEN "join" ELSE "create")
  /\ UNCHANGED <<vars, cur, task_mutex, hpc, netVars>>

\* pool.wait_thread() joins the manager.
JoinPool ==
  /\ Goes("join", "returned")
  /\ pc[Manager] \in {"off", "done"}
  /\ UNCHANGED <<vars, cur, task_mutex, hpc, netVars>>

MainStep ==
  /\ ~in_handler
  /\ InitPool("init", "create") \/ NewSocket \/ AddStep("create") \/ TestExit \/ JoinPool

\* SIGINT: sig_int calls pool.stop_handler() at once.  Bound: it comes once.
Sigint ==
  /\ ~exit_state /\ ~in_handler
  /\ in_handler' = TRUE
  /\ BeginShutdown(FALSE)
  /\ UNCHANGED <<mpc, cur, task_mutex, hpc, netVars, exit_state>>

\* Mutant: exit_state is not set.
HandlerForgets ==
  /\ in_handler /\ pc[Main] = "done" /\ at[Main] = "out"
  /\ in_handler' = FALSE
  /\ UNCHANGED <<echoVars, exit_state>>

\* exit_state = true; and main goes on where it was.
HandlerReturns ==
  /\ in_handler /\ pc[Main] = "done" /\ at[Main] = "out"
  /\ in_handler' = FALSE
  /\ exit_state' = TRUE
  /\ UNCHANGED echoVars

\* connect, which closes the Socket when it fails.
Connect(w, c) ==
  \/ Handles(w, c, "start", "round") /\ Net!Prepare(w, c, "connected")
  \/ /\ Handles(w, c, "start", "delete")
     /\ \/ is_enable[c] /\ Net!Enter(w, c, "close", None)
        \/ ~is_enable[c] /\ UNCHANGED <<at, obj, local>>
     /\ UNCHANGED <<kind, app, leaked, is_enable, socket>>

\* The loop condition, send and recv, up to where recv waits for the answer.
Round(w, c) ==
  /\ Handles(w, c, "round", IF Connected(c) THEN "blocked" ELSE "delete")
  /\ UNCHANGED netVars

\* The answer comes, or the last one, or the end of the connection.  Left out:
\* the count that ends the loop after eleven messages.
Answered(w, c) ==
  /\ Handles(w, c, "blocked", "round") \/ Handles(w, c, "blocked", "delete")
  /\ UNCHANGED <<netVars, exit_state, in_handler>>

ClientThread(w) ==
  /\ WorkerThread(w) \/ \E c \in Tasks : Connect(w, c) \/ Round(w, c)
  /\ UNCHANGED <<exit_state, in_handler>>

ClientActor(a) ==
  \/ ActorThread(a) /\ UNCHANGED <<exit_state, in_handler>>
  \/ a = Main /\ (HandlerReturns \/ (MainStep /\ UNCHANGED <<exit_state, in_handler>>))

ClientInit == EchoInit /\ exit_state = FALSE /\ in_handler = FALSE

ClientNext ==
  /\ Running
  /\ \/ \E w \in Workers :
          ClientThread(w) \/ (Wakeup(w) /\ UNCHANGED <<exit_state, in_handler>>)
     \/ \E a \in Actors : ClientActor(a)
     \/ \E w \in Workers, c \in Tasks : Answered(w, c)
     \/ Sigint

ClientSpec == ClientInit /\ [][ClientNext]_clientVars

\* Every thread that can run does, and main is not in its loop for ever;
\* nothing makes an answer or a signal come.
FairClientSpec ==
  /\ ClientSpec
  /\ \A w \in Workers : WF_clientVars(Running /\ ClientThread(w))
  /\ \A a \in Actors :
       /\ WF_clientVars(Running /\ ClientActor(a))
       /\ SF_clientVars(Running /\ EchoSignal(a) /\ UNCHANGED <<exit_state, in_handler>>)

-----------------------------------------------------------------------------

\* The type invariant.
ClientTypeOK ==
  /\ EchoTypes
  /\ exit_state \in BOOLEAN /\ in_handler \in BOOLEAN
  /\ mpc \in {"init", "create", "add", "lock", "push", "unlock", "join", "returned"}
  /\ pc[Main] \notin {"off", "done"} => in_handler

\* Until the pool has closed, every open Socket is being added, queued or with
\* its handler; only then does add_task drop one (echo_client_test.cc:33-47,
\* thread.cc:242-244).
NoSocketLost ==
  \A c \in Tasks :
    is_enable[c] => cur = c \/ tpc[c] \in {"queued", "taken"} \/ (exit_ /\ tpc[c] = "rejected")

\* SIGINT ends the client, unless one of the obstacles is there for ever, which
\* includes a task_mutex_ the interrupted main holds, or it came before
\* pool.init, which starts the manager of the pool just stopped
\* (echo_client_test.cc:29, 52-56, 61-66).
ClientStops ==
  <>in_handler =>
    \/ <>(mpc = "returned" \/ crashed)
    \/ <>[](OutOfAddresses \/ \E w \in Workers : Obstacle(w))
    \/ <>(mpc = "init" /\ in_handler)

-----------------------------------------------------------------------------
(* Why no Socket is lost: with ClientTypeOK and the invariants of the      *)
(* pool, an inductive invariant of ClientSpec.                             *)

\* Main is as far with a task as the pool says, and has made a Socket for no
\* other task that is not in the pool.
AddingInv ==
  /\ mpc = "init" => \A c \in Tasks : tpc[c] = "new" /\ ~is_enable[c]
  /\ mpc = "add" => tpc[cur] = "new"
  /\ mpc \in {"lock", "push"} => tpc[cur] = "admitted"
  /\ mpc = "unlock" => tpc[cur] \in {"queued", "taken", "done"}
  /\ \A c \in Tasks :
       /\ tpc[c] = "new" /\ is_enable[c] => cur = c
       /\ tpc[c] = "admitted" => cur = c
       /\ tpc[c] = "rejected" => exit_

\* A handler deletes its Socket before it returns, and deletes a closed one.
DeletingInv ==
  /\ \A c \in Tasks :
       /\ tpc[c] \notin {"taken", "done"} => hpc[c] = "start"
       /\ tpc[c] = "done" <=> hpc[c] = "freed"
       /\ hpc[c] = "freed" => ~is_enable[c]
  /\ \A w \in Workers :
       /\ at[w] # "out" => hpc[task[w]] \in {"delete", "closing"}
       /\ at[w] = "close_fd" => ~is_enable[obj[w]]
       /\ wpc[w] = "work" /\ hpc[task[w]] = "closing" /\ at[w] = "out" => ~is_enable[task[w]]

==============================================================================
