-------------------------------- MODULE Stream --------------------------------
(***************************************************************************)
(* The life of a descriptor in the class Stream of src/src/stream.cc: open, *)
(* set_fd and close_file.  What read and write do with the data is in      *)
(* module Transfer.                                                        *)
(***************************************************************************)
EXTENDS FdTable

VARIABLES
  file_open_flag,   \* Stream::file_open_flag_
  open_on_exit,     \* Stream::open_on_exit_
  stream_fd,        \* Stream::fd_; None while it is uninitialised
  then              \* what a thread does after the close_file it is in

streamVars == <<file_open_flag, open_on_exit, stream_fd, then>>

Then(th, what) == then' = [then EXCEPT ![th] = what]

\* Mutant: the test fd == -1 is missing.
OpenUnchecked(th, st, fd) ==
  /\ Alone(st)
  /\ Enter(th, st, "stat", None)
  /\ Then(th, "assign")
  /\ UNCHANGED <<fdVars, file_open_flag, open_on_exit, stream_fd>>

\* open: the file is there, or is created, and can be opened.
OpenFile(th, st, fd) ==
  /\ Alone(st) /\ Unused(fd)
  /\ Enter(th, st, "stat", fd)
  /\ Becomes(fd, "file")
  /\ Then(th, "assign")
  /\ UNCHANGED <<app, leaked, file_open_flag, open_on_exit, stream_fd>>

\* ::stat(file_path): the file may be gone again.
StatFile(th) == Advance(th, "stat", "close_file") /\ UNCHANGED <<fdVars, streamVars>>

StatFails(th) ==
  /\ Leave(th, "stat")
  /\ leaked' = leaked \cup {local[th]}
  /\ Then(th, "return")
  /\ UNCHANGED <<kind, app, file_open_flag, open_on_exit, stream_fd>>

\* set_fd, after check_fd: the descriptor is open, whosever it is.
SetFd(th, st, fd) ==
  /\ Alone(st) /\ ~Unused(fd)
  /\ Enter(th, st, "close_file", fd)
  /\ Then(th, "adopt")
  /\ UNCHANGED <<fdVars, file_open_flag, open_on_exit, stream_fd>>

\* close_file, called by the application or by the destructor.
CloseFile(th, st) ==
  /\ Alone(st)
  /\ Enter(th, st, "close_file", None)
  /\ Then(th, "return")
  /\ UNCHANGED <<fdVars, file_open_flag, open_on_exit, stream_fd>>

\* if (file_open_flag_ == true && open_on_exit_) file_open_flag_ = false;
TestFlag(th) ==
  LET st == obj[th]
      own == file_open_flag[st] /\ open_on_exit[st]
  IN /\ Advance(th, "close_file", IF own THEN "close_old" ELSE "closed")
     /\ file_open_flag' = [file_open_flag EXCEPT ![st] = @ /\ ~own]
     /\ UNCHANGED <<fdVars, open_on_exit, stream_fd, then>>

\* close(fd_)
CloseOld(th) ==
  /\ Advance(th, "close_old", "closed")
  /\ Becomes(stream_fd[obj[th]], "closed")
  /\ UNCHANGED <<app, leaked, streamVars>>

\* close_file returns to open, to set_fd or to its own caller.
FileClosed(th) ==
  /\ then[th] = "return"
  /\ Leave(th, "closed")
  /\ UNCHANGED <<fdVars, streamVars>>

\* The assignments at the end of open.
Assign(th) ==
  LET st == obj[th] IN
  /\ then[th] = "assign"
  /\ Leave(th, "closed")
  /\ stream_fd' = [stream_fd EXCEPT ![st] = local[th]]
  /\ file_open_flag' = [file_open_flag EXCEPT ![st] = TRUE]
  /\ open_on_exit' = [open_on_exit EXCEPT ![st] = TRUE]
  /\ Then(th, "return")
  /\ UNCHANGED fdVars

\* Mutant: set_fd sets file_open_flag_, as open does.
AdoptOpening(th, keep) ==
  LET st == obj[th] IN
  /\ then[th] = "adopt"
  /\ Leave(th, "closed")
  /\ stream_fd' = [stream_fd EXCEPT ![st] = local[th]]
  /\ file_open_flag' = [file_open_flag EXCEPT ![st] = ~Unused(local[th])]
  /\ open_on_exit' = [open_on_exit EXCEPT ![st] = IF Unused(local[th]) THEN @ ELSE keep]
  /\ Then(th, "return")
  /\ UNCHANGED fdVars

\* The rest of set_fd: fstat fails if it was the descriptor just closed, and
\* nothing sets file_open_flag_.
Adopt(th, keep) ==
  LET st == obj[th] IN
  /\ then[th] = "adopt"
  /\ Leave(th, "closed")
  /\ stream_fd' = [stream_fd EXCEPT ![st] = local[th]]
  /\ file_open_flag' = [file_open_flag EXCEPT ![st] = @ /\ ~Unused(local[th])]
  /\ open_on_exit' = [open_on_exit EXCEPT ![st] = IF Unused(local[th]) THEN @ ELSE keep]
  /\ Then(th, "return")
  /\ UNCHANGED fdVars

StreamStep(th) ==
  \/ StatFile(th) \/ StatFails(th) \/ TestFlag(th) \/ CloseOld(th)
  \/ FileClosed(th) \/ Assign(th) \/ \E keep \in BOOLEAN : Adopt(th, keep)
  \/ \E st \in Streams :
       \/ CloseFile(th, st)
       \/ \E fd \in Fds : OpenFile(th, st, fd) \/ SetFd(th, st, fd)

=============================================================================
