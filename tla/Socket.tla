-------------------------------- MODULE Socket --------------------------------
(***************************************************************************)
(* The life of a descriptor in the class Socket of src/src/socket.cc.      *)
(* A call that is refused, or fails without closing anything, changes      *)
(* nothing here and has no action, but for set_socket, whose caller still  *)
(* has a descriptor to close.  The statements up to and after the system   *)
(* call of create_socket, set_socket and accept touch only the object and  *)
(* are one step with it; close is three, because between them the number   *)
(* is neither the object's nor free.                                       *)
(***************************************************************************)
EXTENDS FdTable

VARIABLES
  is_enable,   \* Socket::is_enable_
  socket       \* Socket::socket_; None while it is uninitialised

socketVars == <<is_enable, socket>>

\* Thread th is outside, and nobody else is inside s.
Idle(th, s) == at[th] = "out" /\ Alone(s)

\* Mutant: the test of is_enable_ is missing.
CreateAgain(th, s, fd) ==
  /\ Idle(th, s) /\ Unused(fd)
  /\ Becomes(fd, "socket")
  /\ socket' = [socket EXCEPT ![s] = fd]
  /\ is_enable' = [is_enable EXCEPT ![s] = TRUE]
  /\ UNCHANGED <<app, leaked, frameVars>>

\* create_socket, and the constructor with an address.
CreateSocket(th, s, fd) ==
  /\ Idle(th, s) /\ ~is_enable[s]
  /\ Unused(fd)
  /\ Becomes(fd, "socket")
  /\ socket' = [socket EXCEPT ![s] = fd]
  /\ is_enable' = [is_enable EXCEPT ![s] = TRUE]
  /\ UNCHANGED <<app, leaked, frameVars>>

\* Mutant: the caller goes on using the descriptor it has handed over.
SetSocketShared(th, s, fd) ==
  /\ Idle(th, s) /\ ~is_enable[s]
  /\ fd \in app
  /\ socket' = [socket EXCEPT ![s] = fd]
  /\ is_enable' = [is_enable EXCEPT ![s] = TRUE]
  /\ UNCHANGED <<fdVars, frameVars>>

\* set_socket with a descriptor of the application, of whatever kind, and an
\* address.
SetSocket(th, s, fd) ==
  /\ Idle(th, s) /\ ~is_enable[s]
  /\ fd \in app
  /\ app' = app \ {fd}
  /\ socket' = [socket EXCEPT ![s] = fd]
  /\ is_enable' = [is_enable EXCEPT ![s] = TRUE]
  /\ UNCHANGED <<kind, leaked, frameVars>>

\* Mutant: an object that has a descriptor takes another one.
SetSocketReplaces(th, s, fd) ==
  /\ Idle(th, s)
  /\ fd \in app
  /\ app' = app \ {fd}
  /\ socket' = [socket EXCEPT ![s] = fd]
  /\ is_enable' = [is_enable EXCEPT ![s] = TRUE]
  /\ UNCHANGED <<kind, leaked, frameVars>>

\* Refused, by an object that has a descriptor or for want of an address (the
\* default arguments): the number stays with the caller.
SetSocketRefused(th, s, fd) ==
  Idle(th, s) /\ fd \in app /\ UNCHANGED <<fdVars, frameVars, socketVars>>

\* bind and listen, or connect: only on a socket that is neither yet.
Prepare(th, s, k) ==
  /\ Idle(th, s) /\ is_enable[s]
  /\ kind[socket[s]] = "socket"
  /\ k \in {"listening", "connected"}
  /\ Becomes(socket[s], k)
  /\ UNCHANGED <<app, leaked, frameVars, socketVars>>

\* accept: the new descriptor goes to the caller.
Accept(th, s, fd) ==
  /\ Idle(th, s) /\ is_enable[s]
  /\ kind[socket[s]] = "listening"
  /\ Unused(fd)
  /\ Becomes(fd, "connected")
  /\ app' = app \cup {fd}
  /\ UNCHANGED <<leaked, frameVars, socketVars>>

\* close(), the destructor, and the this->close() of a listen, connect or
\* accept that failed, for whatever reason: a second listen, a connect on a
\* connected socket, an interrupted accept.
Close(th, s) ==
  Idle(th, s) /\ Enter(th, s, "close", None) /\ UNCHANGED <<fdVars, socketVars>>

\* shutdown: a listening socket stops listening; a connection may have been
\* reset, and a socket that is not connected cannot be shut down.
ShutdownListener(th, s) ==
  /\ Idle(th, s) /\ is_enable[s]
  /\ kind[socket[s]] = "listening"
  /\ Becomes(socket[s], "socket")
  /\ UNCHANGED <<app, leaked, frameVars, socketVars>>

ShutdownFails(th, s) ==
  /\ Idle(th, s) /\ is_enable[s]
  /\ kind[socket[s]] # "listening"
  /\ is_enable' = [is_enable EXCEPT ![s] = FALSE]
  /\ leaked' = leaked \cup {socket[s]}
  /\ UNCHANGED <<kind, app, frameVars, socket>>

\* if (is_enable_)
CloseTest(th) ==
  /\ at[th] = "close"
  /\ IF is_enable[obj[th]] THEN Advance(th, "close", "clear") ELSE Leave(th, "close")
  /\ UNCHANGED <<fdVars, socketVars>>

\* Mutant: is_enable_ is not reset.
CloseUncleared(th) == Advance(th, "clear", "close_fd") /\ UNCHANGED <<fdVars, socketVars>>

\* is_enable_ = false;
CloseClear(th) ==
  /\ Advance(th, "clear", "close_fd")
  /\ is_enable' = [is_enable EXCEPT ![obj[th]] = FALSE]
  /\ UNCHANGED <<fdVars, socket>>

\* ::close(socket_) releases the number, also when it reports an error.
CloseFd(th) ==
  /\ Leave(th, "close_fd")
  /\ Becomes(socket[obj[th]], "closed")
  /\ UNCHANGED <<app, leaked, socketVars>>

SocketStep(th) ==
  \/ CloseTest(th) \/ CloseClear(th) \/ CloseFd(th)
  \/ \E s \in Sockets :
       \/ Close(th, s) \/ ShutdownListener(th, s) \/ ShutdownFails(th, s)
       \/ \E k \in Kinds : Prepare(th, s, k)
       \/ \E fd \in Fds :
            \/ CreateSocket(th, s, fd) \/ Accept(th, s, fd)
            \/ SetSocket(th, s, fd) \/ SetSocketRefused(th, s, fd)

=============================================================================
