------------------------------- MODULE FdTable -------------------------------
(***************************************************************************)
(* What the objects of src/src/socket.cc and src/src/stream.cc share: the  *)
(* operating system's table of open descriptors, which hands out a free    *)
(* number at every open, whoever used it before, and the member functions  *)
(* that the threads of the program are in the middle of.                   *)
(***************************************************************************)

CONSTANTS
  Fds,       \* descriptor numbers (bound: an open fails when all are taken)
  Sockets,   \* Socket objects
  Streams,   \* Stream objects
  Threads,   \* threads that call their members
  None

VARIABLES
  kind,      \* what each descriptor number stands for
  app,       \* descriptors the application itself is to close or to hand over
  leaked,    \* open descriptors that nobody is going to close
  at,        \* where each thread is in a member function
  obj,       \* the object it runs on
  local      \* the descriptor in its local variable fd

fdVars    == <<kind, app, leaked>>
frameVars == <<at, obj, local>>

Kinds == {"closed", "socket", "listening", "connected", "file"}

ASSUME ObjectsAssumption ==
  /\ Sockets \cap Streams = {}
  /\ None \notin Fds \cup Sockets \cup Streams

\* The kernel returns an unused number.
Unused(fd) == kind[fd] = "closed"
Becomes(fd, k) == kind' = [kind EXCEPT ![fd] = k]

\* An object has no lock: the program lets one thread at a time call it.
Alone(o) == \A th \in Threads : obj[th] # o

Enter(th, o, where, fd) ==
  /\ at[th] = "out"
  /\ at' = [at EXCEPT ![th] = where]
  /\ obj' = [obj EXCEPT ![th] = o]
  /\ local' = [local EXCEPT ![th] = fd]

Advance(th, from, to) ==
  /\ at[th] = from
  /\ at' = [at EXCEPT ![th] = to]
  /\ UNCHANGED <<obj, local>>

Leave(th, from) ==
  /\ at[th] = from
  /\ at' = [at EXCEPT ![th] = "out"]
  /\ obj' = [obj EXCEPT ![th] = None]
  /\ local' = [local EXCEPT ![th] = None]

=============================================================================
