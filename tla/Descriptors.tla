----------------------------- MODULE Descriptors -----------------------------
(***************************************************************************)
(* Socket and Stream objects of one process side by side: each is used by  *)
(* one thread at a time, the threads run at the same time, and the numbers *)
(* one of them closes are handed out again to the others.                  *)
(***************************************************************************)
EXTENDS Socket, Stream

CONSTANTS App, Lost, Nobody   \* the holders that are neither object nor thread

objects == <<socketVars, streamVars>>
vars == <<fdVars, frameVars, socketVars, streamVars>>

Objects == Sockets \cup Streams
Holders == Objects \cup Threads \cup {App, Lost}

ASSUME HoldersAssumption ==
  /\ Objects \cap Threads = {}
  /\ {App, Lost, Nobody} \cap (Objects \cup Threads) = {}
  /\ App # Lost /\ App # Nobody /\ Lost # Nobody

\* The application's own files and pipes.
AppOpen(fd) ==
  /\ Unused(fd)
  /\ Becomes(fd, "file")
  /\ app' = app \cup {fd}
  /\ UNCHANGED <<leaked, frameVars, objects>>

AppClose(fd) ==
  /\ fd \in app
  /\ Becomes(fd, "closed")
  /\ app' = app \ {fd}
  /\ UNCHANGED <<leaked, frameVars, objects>>

Init ==
  /\ kind = [fd \in Fds |-> "closed"]
  /\ app = {}
  /\ leaked = {}
  /\ at = [th \in Threads |-> "out"]
  /\ obj = [th \in Threads |-> None]
  /\ local = [th \in Threads |-> None]
  /\ is_enable = [s \in Sockets |-> FALSE]
  /\ socket = [s \in Sockets |-> None]
  /\ file_open_flag = [st \in Streams |-> FALSE]
  /\ open_on_exit \in [Streams -> BOOLEAN]   \* uninitialised
  /\ stream_fd = [st \in Streams |-> None]
  /\ then = [th \in Threads |-> "return"]

Next ==
  \/ \E th \in Threads :
       \/ SocketStep(th) /\ UNCHANGED streamVars
       \/ StreamStep(th) /\ UNCHANGED socketVars
  \/ \E fd \in Fds : AppOpen(fd) \/ AppClose(fd)

Spec == Init /\ [][Next]_vars

-----------------------------------------------------------------------------

\* p is the one to close fd.
Holds(p, fd) ==
  \/ p \in Sockets /\ is_enable[p] /\ socket[p] = fd
  \/ p \in Streams /\ file_open_flag[p] /\ stream_fd[p] = fd
  \/ p \in Threads /\ at[p] = "close_fd" /\ socket[obj[p]] = fd
  \/ p \in Threads /\ at[p] = "close_old" /\ stream_fd[obj[p]] = fd
  \/ p \in Threads /\ then[p] = "assign" /\ local[p] = fd
  \/ p = App /\ fd \in app
  \/ p = Lost /\ fd \in leaked

At == {"out", "close", "clear", "close_fd", "stat", "close_file", "close_old", "closed"}

\* The type invariant: descriptors, objects and frames stay in their domains,
\* a thread inside a member function has an object of that class, and an
\* object that is enabled or open has a descriptor.
TypeOK ==
  /\ kind \in [Fds -> Kinds]
  /\ app \subseteq Fds
  /\ leaked \subseteq Fds
  /\ at \in [Threads -> At]
  /\ obj \in [Threads -> Objects \cup {None}]
  /\ local \in [Threads -> Fds \cup {None}]
  /\ is_enable \in [Sockets -> BOOLEAN]
  /\ socket \in [Sockets -> Fds \cup {None}]
  /\ file_open_flag \in [Streams -> BOOLEAN]
  /\ open_on_exit \in [Streams -> BOOLEAN]
  /\ stream_fd \in [Streams -> Fds \cup {None}]
  /\ then \in [Threads -> {"return", "assign", "adopt"}]
  /\ \A th \in Threads :
       /\ at[th] = "out" => obj[th] = None /\ local[th] = None /\ then[th] = "return"
       /\ at[th] \in {"close", "clear", "close_fd"} =>
            obj[th] \in Sockets /\ local[th] = None /\ then[th] = "return"
       /\ at[th] \in {"stat", "close_file", "close_old", "closed"} =>
            obj[th] \in Streams /\ (then[th] = "return" <=> local[th] = None)
       /\ at[th] = "stat" => then[th] = "assign"
  /\ \A s \in Sockets : is_enable[s] => socket[s] \in Fds
  /\ \A st \in Streams : file_open_flag[st] => stream_fd[st] \in Fds

\* No descriptor is held twice: no Socket, Stream, application variable or
\* close in progress refers to a number that another of them is to close, so
\* no object reads from, writes to or closes a connection of another one, even
\* though numbers are reused at once (socket.cc:21-34, stream.cc:94-105).
HeldOnce ==
  \A fd \in Fds : \A p \in Holders :
    Holds(p, fd) => \A q \in Holders : Holds(q, fd) => p = q

\* Every holder holds an open descriptor, and every open descriptor is held,
\* if only by Lost: none is lost in another way than by a shutdown that fails
\* or by an open whose stat fails (socket.cc:41-42, stream.cc:45-48).
OpenIsHeld ==
  \A fd \in Fds : kind[fd] # "closed" <=> \E p \in Holders : Holds(p, fd)

\* Why: two threads never share an object, a descriptor about to be closed has
\* left its object, and an open Stream owns its descriptor.
CallInv ==
  /\ \A t, u \in Threads : obj[t] # None /\ obj[t] = obj[u] => t = u
  /\ \A th \in Threads :
       /\ at[th] = "clear" => is_enable[obj[th]]
       /\ at[th] = "close_fd" => ~is_enable[obj[th]] /\ socket[obj[th]] \in Fds
       /\ at[th] \in {"close_old", "closed"} => ~file_open_flag[obj[th]]
       /\ at[th] = "close_old" => stream_fd[obj[th]] \in Fds
       /\ at[th] = "close_old" => stream_fd[obj[th]] # local[th] \/ then[th] = "adopt"
  /\ \A st \in Streams : file_open_flag[st] => open_on_exit[st]

\* The inductive invariant.
HolderInv == HeldOnce /\ OpenIsHeld /\ CallInv

HolderOf(fd) ==
  IF \E p \in Holders : Holds(p, fd) THEN CHOOSE p \in Holders : Holds(p, fd) ELSE Nobody

Owner == INSTANCE Ownership WITH owner <- [fd \in Fds |-> HolderOf(fd)]

\* Socket and Stream implement the abstract ownership of descriptors.
ImplementsOwnership == Owner!Spec

=============================================================================
