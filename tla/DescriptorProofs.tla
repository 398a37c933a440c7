--------------------------- MODULE DescriptorProofs ---------------------------
(***************************************************************************)
(* Proofs about module Descriptors, for any number of descriptors, threads *)
(* and objects.  Every step either leaves the holders as they are (Same)   *)
(* or passes one descriptor from one holder to another (Pass); the         *)
(* invariant and the refinement of Ownership both follow from that.        *)
(***************************************************************************)
EXTENDS Descriptors, TLAPS

USE ObjectsAssumption, HoldersAssumption DEF Objects, Holders

-----------------------------------------------------------------------------
(* Types.                                                                  *)

LEMMA TypeInit == Init => TypeOK
BY DEF Init, TypeOK, Kinds, At

LEMMA TypeSocket ==
  ASSUME TypeOK, NEW th \in Threads, SocketStep(th), UNCHANGED streamVars
  PROVE  TypeOK'
<1> USE DEF TypeOK, Kinds, At, fdVars, frameVars, socketVars, streamVars, Idle, Alone,
            Unused, Becomes, Enter, Advance, Leave
<1>1. CASE CloseTest(th) BY <1>1 DEF CloseTest
<1>2. CASE CloseClear(th) BY <1>2 DEF CloseClear
<1>3. CASE CloseFd(th) BY <1>3 DEF CloseFd
<1>4. ASSUME NEW s \in Sockets, Close(th, s) PROVE TypeOK'
  BY <1>4 DEF Close
<1>5. ASSUME NEW s \in Sockets, ShutdownListener(th, s) PROVE TypeOK'
  BY <1>5 DEF ShutdownListener
<1>6. ASSUME NEW s \in Sockets, ShutdownFails(th, s) PROVE TypeOK'
  BY <1>6 DEF ShutdownFails
<1>7. ASSUME NEW s \in Sockets, NEW k \in Kinds, Prepare(th, s, k) PROVE TypeOK'
  BY <1>7 DEF Prepare
<1>8. ASSUME NEW s \in Sockets, NEW fd \in Fds, CreateSocket(th, s, fd) PROVE TypeOK'
  BY <1>8 DEF CreateSocket
<1>9. ASSUME NEW s \in Sockets, NEW fd \in Fds, SetSocket(th, s, fd) PROVE TypeOK'
  BY <1>9 DEF SetSocket
<1>10. ASSUME NEW s \in Sockets, NEW fd \in Fds, Accept(th, s, fd) PROVE TypeOK'
  BY <1>10 DEF Accept
<1>11. ASSUME NEW s \in Sockets, NEW fd \in Fds, SetSocketRefused(th, s, fd) PROVE TypeOK'
  BY <1>11 DEF SetSocketRefused
<1> HIDE DEF TypeOK, Kinds
<1> QED BY <1>1, <1>2, <1>3, <1>4, <1>5, <1>6, <1>7, <1>8, <1>9, <1>10, <1>11 DEF SocketStep

LEMMA TypeStream ==
  ASSUME TypeOK, NEW th \in Threads, StreamStep(th), UNCHANGED socketVars
  PROVE  TypeOK'
<1> USE DEF TypeOK, Kinds, At, fdVars, frameVars, socketVars, streamVars, Alone,
            Unused, Becomes, Enter, Advance, Leave, Then
<1>1. CASE StatFile(th) BY <1>1 DEF StatFile
<1>2. CASE StatFails(th) BY <1>2 DEF StatFails
<1>3. CASE TestFlag(th) BY <1>3 DEF TestFlag
<1>4. CASE CloseOld(th) BY <1>4 DEF CloseOld
<1>5. CASE FileClosed(th) BY <1>5 DEF FileClosed
<1>6. CASE Assign(th) BY <1>6 DEF Assign
<1>7. ASSUME NEW keep \in BOOLEAN, Adopt(th, keep) PROVE TypeOK'
  BY <1>7 DEF Adopt
<1>8. ASSUME NEW st \in Streams, CloseFile(th, st) PROVE TypeOK'
  BY <1>8 DEF CloseFile
<1>9. ASSUME NEW st \in Streams, NEW fd \in Fds, OpenFile(th, st, fd) PROVE TypeOK'
  BY <1>9 DEF OpenFile
<1>10. ASSUME NEW st \in Streams, NEW fd \in Fds, SetFd(th, st, fd) PROVE TypeOK'
  BY <1>10 DEF SetFd
<1> HIDE DEF TypeOK
<1> QED BY <1>1, <1>2, <1>3, <1>4, <1>5, <1>6, <1>7, <1>8, <1>9, <1>10 DEF StreamStep

\* The type invariant of sockets, streams and calls, for any number of each.
THEOREM TypeCorrect == Spec => []TypeOK
<1>1. TypeOK /\ [Next]_vars => TypeOK'
  <2> SUFFICES ASSUME TypeOK, [Next]_vars PROVE TypeOK'
    OBVIOUS
  <2>1. CASE UNCHANGED vars
    BY <2>1 DEF TypeOK, vars, fdVars, frameVars, socketVars, streamVars
  <2>2. ASSUME NEW fd \in Fds, AppOpen(fd) \/ AppClose(fd) PROVE TypeOK'
    BY <2>2 DEF TypeOK, AppOpen, AppClose, Becomes, Kinds, frameVars, objects, socketVars,
       streamVars
  <2> QED BY <2>1, <2>2, TypeSocket, TypeStream DEF Next
<1> QED BY <1>1, TypeInit, PTL DEF Spec

-----------------------------------------------------------------------------
(* How a step changes the holders.                                         *)

Taken(fd) == kind[fd] # "closed"

\* Nobody gets, gives or closes a descriptor.
Same ==
  /\ \A p \in Holders, x \in Fds : Holds(p, x)' <=> Holds(p, x)
  /\ \A x \in Fds : Taken(x)' <=> Taken(x)

\* fd passes from `from` to `to`; Nobody stands for the kernel.
PassTo(from, to, fd) ==
  /\ from # to
  /\ from = Nobody \/ (from \in Holders /\ Holds(from, fd))
  /\ from = Nobody => ~Taken(fd)
  /\ to \in Holders \cup {Nobody}
  /\ \A p \in Holders, x \in Fds :
       Holds(p, x)' <=> IF x = fd THEN p = to ELSE Holds(p, x)
  /\ \A x \in Fds : Taken(x)' <=> IF x = fd THEN to # Nobody ELSE Taken(x)

LEMMA SameKeeps ==
  ASSUME HeldOnce, OpenIsHeld, Same
  PROVE  HeldOnce' /\ OpenIsHeld'
BY DEF HeldOnce, OpenIsHeld, Same, Taken

LEMMA PassKeeps ==
  ASSUME HeldOnce, OpenIsHeld, NEW from, NEW to, NEW fd \in Fds, PassTo(from, to, fd)
  PROVE  HeldOnce' /\ OpenIsHeld'
<1>1. HeldOnce' BY DEF HeldOnce, PassTo
<1>2. OpenIsHeld'
  <2>1. \A p \in Holders : p # Nobody OBVIOUS
  <2> QED BY <2>1 DEF OpenIsHeld, PassTo, Taken
<1> QED BY <1>1, <1>2

Passes == \E from, to \in Holders \cup {Nobody}, fd \in Fds :
            PassTo(from, to, fd) /\ Owner!MayPass(from, to)

\* How the holders look after fd has passed to `to`.
Passed(to, fd) ==
  /\ \A p \in Holders, x \in Fds :
       Holds(p, x)' <=> IF x = fd THEN p = to ELSE Holds(p, x)
  /\ \A x \in Fds : Taken(x)' <=> IF x = fd THEN to # Nobody ELSE Taken(x)

LEMMA OnlyHolder ==
  ASSUME HeldOnce, OpenIsHeld, NEW p \in Holders, NEW fd \in Fds, Holds(p, fd)
  PROVE  Taken(fd) /\ \A q \in Holders : Holds(q, fd) => q = p
BY DEF HeldOnce, OpenIsHeld, Taken

LEMMA Passing ==
  ASSUME NEW from \in Holders, NEW to \in Holders \cup {Nobody}, NEW fd \in Fds,
         Holds(from, fd), from # to, Owner!MayPass(from, to), Passed(to, fd)
  PROVE  Passes
BY DEF Passes, PassTo, Passed

LEMMA Acquiring ==
  ASSUME NEW to \in Holders, NEW fd \in Fds, ~Taken(fd), Owner!MayPass(Nobody, to), Passed(to, fd)
  PROVE  Passes
BY DEF Passes, PassTo, Passed

-----------------------------------------------------------------------------
(* The steps of Socket.                                                    *)

Pre == TypeOK /\ HeldOnce /\ OpenIsHeld /\ CallInv

LEMMA SocketShape ==
  ASSUME Pre, TypeOK', NEW th \in Threads, SocketStep(th), UNCHANGED streamVars
  PROVE  Same \/ Passes
<1> USE DEF Pre, TypeOK, CallInv, Same, Taken, Kinds, At, fdVars, frameVars, socketVars,
            streamVars, Idle, Alone, Unused, Becomes, Enter, Advance, Leave, Holds
<1>1. ASSUME CloseTest(th) PROVE Same
  BY <1>1 DEF CloseTest
<1>2. ASSUME CloseClear(th) PROVE Passes
  <2>1. PICK s \in Sockets, fd \in Fds : s = obj[th] /\ fd = socket[s] /\ Holds(s, fd) BY <1>2 DEF CloseClear
  <2>2. Taken(fd) /\ \A q \in Holders : Holds(q, fd) => q = s
    <3> HIDE DEF TypeOK, CallInv, Holds, Taken
    <3> QED BY <2>1, OnlyHolder
  <2>3. Passed(th, fd)
    <3>1. ASSUME NEW x \in Fds PROVE Taken(x)' <=> IF x = fd THEN th # Nobody ELSE Taken(x)
      BY <1>2, <2>1, <2>2 DEF CloseClear
    <3>2. ASSUME NEW p \in Holders, NEW x \in Fds, x # fd PROVE Holds(p, x)' <=> Holds(p, x)
      BY <1>2, <2>1, <3>2 DEF CloseClear
    <3>3. ASSUME NEW p \in Holders PROVE Holds(p, fd)' <=> p = th
      <4>1. Holds(p, fd) => p = s BY <2>2
      <4> QED BY <1>2, <2>1, <4>1 DEF CloseClear
    <3> HIDE DEF Taken, Holds, Pre, TypeOK, CallInv, Same
    <3> QED BY <3>1, <3>2, <3>3 DEF Passed
  <2> HIDE DEF TypeOK, CallInv, Holds, Taken
  <2> QED BY <2>1, <2>3, Passing DEF Owner!MayPass
<1>3. ASSUME CloseFd(th) PROVE Passes
  <2>1. PICK fd \in Fds : fd = socket[obj[th]] /\ Holds(th, fd) BY <1>3 DEF CloseFd
  <2>2. Taken(fd) /\ \A q \in Holders : Holds(q, fd) => q = th
    <3> HIDE DEF TypeOK, CallInv, Holds, Taken
    <3> QED BY <2>1, OnlyHolder
  <2>3. Passed(Nobody, fd)
    <3>1. ASSUME NEW x \in Fds PROVE Taken(x)' <=> IF x = fd THEN Nobody # Nobody ELSE Taken(x)
      BY <1>3, <2>1, <2>2 DEF CloseFd
    <3>2. ASSUME NEW p \in Holders, NEW x \in Fds, x # fd PROVE Holds(p, x)' <=> Holds(p, x)
      BY <1>3, <2>1, <3>2 DEF CloseFd
    <3>3. ASSUME NEW p \in Holders PROVE Holds(p, fd)' <=> p = Nobody
      <4>1. Holds(p, fd) => p = th BY <2>2
      <4> QED BY <1>3, <2>1, <4>1 DEF CloseFd
    <3> HIDE DEF Taken, Holds, Pre, TypeOK, CallInv, Same
    <3> QED BY <3>1, <3>2, <3>3 DEF Passed
  <2> HIDE DEF TypeOK, CallInv, Holds, Taken
  <2> QED BY <2>1, <2>3, Passing DEF Owner!MayPass
<1>4. ASSUME NEW s \in Sockets, Close(th, s) PROVE Same
  BY <1>4 DEF Close
<1>5. ASSUME NEW s \in Sockets, ShutdownListener(th, s) PROVE Same
  BY <1>5 DEF ShutdownListener
<1>6. ASSUME NEW s \in Sockets, ShutdownFails(th, s) PROVE Passes
  <2>1. PICK fd \in Fds : fd = socket[s] /\ Holds(s, fd) BY <1>6 DEF ShutdownFails
  <2>2. Taken(fd) /\ \A q \in Holders : Holds(q, fd) => q = s
    <3> HIDE DEF TypeOK, CallInv, Holds, Taken
    <3> QED BY <2>1, OnlyHolder
  <2>3. Passed(Lost, fd)
    <3>1. ASSUME NEW x \in Fds PROVE Taken(x)' <=> IF x = fd THEN Lost # Nobody ELSE Taken(x)
      BY <1>6, <2>1, <2>2 DEF ShutdownFails
    <3>2. ASSUME NEW p \in Holders, NEW x \in Fds, x # fd PROVE Holds(p, x)' <=> Holds(p, x)
      BY <1>6, <2>1, <3>2 DEF ShutdownFails
    <3>3. ASSUME NEW p \in Holders PROVE Holds(p, fd)' <=> p = Lost
      <4>1. Holds(p, fd) => p = s BY <2>2
      <4> QED BY <1>6, <2>1, <4>1 DEF ShutdownFails
    <3> HIDE DEF Taken, Holds, Pre, TypeOK, CallInv, Same
    <3> QED BY <3>1, <3>2, <3>3 DEF Passed
  <2> HIDE DEF TypeOK, CallInv, Holds, Taken
  <2> QED BY <2>1, <2>3, Passing DEF Owner!MayPass
<1>7. ASSUME NEW s \in Sockets, NEW k \in Kinds, Prepare(th, s, k) PROVE Same
  BY <1>7 DEF Prepare
<1>8. ASSUME NEW s \in Sockets, NEW fd \in Fds, CreateSocket(th, s, fd) PROVE Passes
  <2>1. ~Taken(fd) /\ \A q \in Holders : ~Holds(q, fd) BY <1>8 DEF CreateSocket, OpenIsHeld
  <2>2. Passed(s, fd) BY <1>8, <2>1 DEF CreateSocket, Passed
  <2> HIDE DEF TypeOK, CallInv, Holds, Taken
  <2> QED BY <2>1, <2>2, Acquiring DEF Owner!MayPass
<1>9. ASSUME NEW s \in Sockets, NEW fd \in Fds, SetSocket(th, s, fd) PROVE Passes
  <2>1. App \in {App} /\ fd \in Fds /\ Holds(App, fd) BY <1>9 DEF SetSocket
  <2>2. Taken(fd) /\ \A q \in Holders : Holds(q, fd) => q = App
    <3> HIDE DEF TypeOK, CallInv, Holds, Taken
    <3> QED BY <2>1, OnlyHolder
  <2>3. Passed(s, fd) BY <1>9, <2>1, <2>2 DEF SetSocket, Passed
  <2> HIDE DEF TypeOK, CallInv, Holds, Taken
  <2> QED BY <2>1, <2>3, Passing DEF Owner!MayPass
<1>10. ASSUME NEW s \in Sockets, NEW fd \in Fds, Accept(th, s, fd) PROVE Passes
  <2>1. ~Taken(fd) /\ \A q \in Holders : ~Holds(q, fd) BY <1>10 DEF Accept, OpenIsHeld
  <2>2. Passed(App, fd) BY <1>10, <2>1 DEF Accept, Passed
  <2> HIDE DEF TypeOK, CallInv, Holds, Taken
  <2> QED BY <2>1, <2>2, Acquiring DEF Owner!MayPass
<1>11. ASSUME NEW s \in Sockets, NEW fd \in Fds, SetSocketRefused(th, s, fd) PROVE Same
  BY <1>11 DEF SetSocketRefused
<1> HIDE DEF Pre, Same, TypeOK, Kinds, streamVars
<1> QED BY <1>1, <1>2, <1>3, <1>4, <1>5, <1>6, <1>7, <1>8, <1>9, <1>10, <1>11 DEF SocketStep

LEMMA SocketCalls ==
  ASSUME Pre, TypeOK', NEW th \in Threads, SocketStep(th), UNCHANGED streamVars
  PROVE  CallInv'
<1> USE DEF Pre, TypeOK, CallInv, fdVars, frameVars, socketVars,
            streamVars, Idle, Alone, Becomes, Enter, Advance, Leave
<1>1. CASE CloseTest(th) BY <1>1 DEF CloseTest
<1>2. CASE CloseClear(th) BY <1>2 DEF CloseClear
<1>3. CASE CloseFd(th) BY <1>3 DEF CloseFd
<1>4. ASSUME NEW s \in Sockets, Close(th, s) PROVE CallInv'
  BY <1>4 DEF Close
<1>5. ASSUME NEW s \in Sockets, ShutdownListener(th, s) PROVE CallInv'
  BY <1>5 DEF ShutdownListener
<1>6. ASSUME NEW s \in Sockets, ShutdownFails(th, s) PROVE CallInv'
  BY <1>6 DEF ShutdownFails
<1>7. ASSUME NEW s \in Sockets, NEW k \in Kinds, Prepare(th, s, k) PROVE CallInv'
  BY <1>7 DEF Prepare
<1>8. ASSUME NEW s \in Sockets, NEW fd \in Fds, CreateSocket(th, s, fd) PROVE CallInv'
  BY <1>8 DEF CreateSocket
<1>9. ASSUME NEW s \in Sockets, NEW fd \in Fds, SetSocket(th, s, fd) PROVE CallInv'
  BY <1>9 DEF SetSocket
<1>10. ASSUME NEW s \in Sockets, NEW fd \in Fds, Accept(th, s, fd) PROVE CallInv'
  BY <1>10 DEF Accept
<1>11. ASSUME NEW s \in Sockets, NEW fd \in Fds, SetSocketRefused(th, s, fd) PROVE CallInv'
  BY <1>11 DEF SetSocketRefused
<1> HIDE DEF Pre, CallInv, TypeOK, streamVars
<1> QED BY <1>1, <1>2, <1>3, <1>4, <1>5, <1>6, <1>7, <1>8, <1>9, <1>10, <1>11 DEF SocketStep

-----------------------------------------------------------------------------
(* The steps of Stream.                                                    *)

LEMMA StreamShape ==
  ASSUME Pre, TypeOK', NEW th \in Threads, StreamStep(th), UNCHANGED socketVars
  PROVE  Same \/ Passes
<1> USE DEF Pre, TypeOK, CallInv, Same, Taken, Kinds, At, fdVars, frameVars, socketVars,
            streamVars, Alone, Unused, Becomes, Enter, Advance, Leave, Then, Holds
<1>1. ASSUME StatFile(th) PROVE Same
  BY <1>1 DEF StatFile
<1>2. ASSUME StatFails(th) PROVE Passes
  <2>1. PICK fd \in Fds : fd = local[th] /\ Holds(th, fd) BY <1>2 DEF StatFails
  <2>2. Taken(fd) /\ \A q \in Holders : Holds(q, fd) => q = th
    <3> HIDE DEF TypeOK, CallInv, Holds, Taken
    <3> QED BY <2>1, OnlyHolder
  <2>3. Passed(Lost, fd)
    <3>1. ASSUME NEW x \in Fds PROVE Taken(x)' <=> IF x = fd THEN Lost # Nobody ELSE Taken(x)
      BY <1>2, <2>1, <2>2 DEF StatFails
    <3>2. ASSUME NEW p \in Holders, NEW x \in Fds, x # fd PROVE Holds(p, x)' <=> Holds(p, x)
      BY <1>2, <2>1, <3>2 DEF StatFails
    <3>3. ASSUME NEW p \in Holders PROVE Holds(p, fd)' <=> p = Lost
      <4>1. Holds(p, fd) => p = th BY <2>2
      <4> QED BY <1>2, <2>1, <4>1 DEF StatFails
    <3> HIDE DEF Taken, Holds, Pre, TypeOK, CallInv, Same
    <3> QED BY <3>1, <3>2, <3>3 DEF Passed
  <2> HIDE DEF TypeOK, CallInv, Holds, Taken
  <2> QED BY <2>1, <2>3, Passing DEF Owner!MayPass
<1>3. ASSUME TestFlag(th), file_open_flag[obj[th]] PROVE Passes
  <2>1. PICK st \in Streams, fd \in Fds : st = obj[th] /\ fd = stream_fd[st] /\ Holds(st, fd) BY <1>3 DEF TestFlag
  <2> /\ at' = [at EXCEPT ![th] = "close_old"]
      /\ file_open_flag' = [file_open_flag EXCEPT ![st] = FALSE]
      /\ UNCHANGED <<kind, app, leaked, obj, local, socketVars, stream_fd, open_on_exit, then>>
    BY <1>3, <2>1 DEF TestFlag
  <2>2. Taken(fd) /\ \A q \in Holders : Holds(q, fd) => q = st
    <3> HIDE DEF TypeOK, CallInv, Holds, Taken
    <3> QED BY <2>1, OnlyHolder
  <2>3. Passed(th, fd)
    <3>1. ASSUME NEW x \in Fds PROVE Taken(x)' <=> IF x = fd THEN th # Nobody ELSE Taken(x)
      BY <1>3, <2>1, <2>2 DEF TestFlag
    <3>2. ASSUME NEW p \in Holders, NEW x \in Fds, x # fd PROVE Holds(p, x)' <=> Holds(p, x)
      BY <1>3, <2>1, <3>2 DEF TestFlag
    <3>3. ASSUME NEW p \in Holders PROVE Holds(p, fd)' <=> p = th
      <4>1. Holds(p, fd) => p = st BY <2>2
      <4> QED BY <1>3, <2>1, <4>1 DEF TestFlag
    <3> HIDE DEF Taken, Holds, Pre, TypeOK, CallInv, Same
    <3> QED BY <3>1, <3>2, <3>3 DEF Passed
  <2> HIDE DEF TypeOK, CallInv, Holds, Taken
  <2> QED BY <2>1, <2>3, Passing DEF Owner!MayPass
<1>4. ASSUME TestFlag(th), ~file_open_flag[obj[th]] PROVE Same
  BY <1>4 DEF TestFlag
<1>5. ASSUME CloseOld(th) PROVE Passes
  <2>1. PICK fd \in Fds : fd = stream_fd[obj[th]] /\ Holds(th, fd) BY <1>5 DEF CloseOld
  <2>2. Taken(fd) /\ \A q \in Holders : Holds(q, fd) => q = th
    <3> HIDE DEF TypeOK, CallInv, Holds, Taken
    <3> QED BY <2>1, OnlyHolder
  <2>3. Passed(Nobody, fd)
    <3>1. ASSUME NEW x \in Fds PROVE Taken(x)' <=> IF x = fd THEN Nobody # Nobody ELSE Taken(x)
      BY <1>5, <2>1, <2>2 DEF CloseOld
    <3>2. ASSUME NEW p \in Holders, NEW x \in Fds, x # fd PROVE Holds(p, x)' <=> Holds(p, x)
      BY <1>5, <2>1, <3>2 DEF CloseOld
    <3>3. ASSUME NEW p \in Holders PROVE Holds(p, fd)' <=> p = Nobody
      <4>1. Holds(p, fd) => p = th BY <2>2
      <4> QED BY <1>5, <2>1, <4>1 DEF CloseOld
    <3> HIDE DEF Taken, Holds, Pre, TypeOK, CallInv, Same
    <3> QED BY <3>1, <3>2, <3>3 DEF Passed
  <2> HIDE DEF TypeOK, CallInv, Holds, Taken
  <2> QED BY <2>1, <2>3, Passing DEF Owner!MayPass
<1>6. ASSUME FileClosed(th) PROVE Same
  BY <1>6 DEF FileClosed
<1>7. ASSUME Assign(th) PROVE Passes
  <2>1. PICK st \in Streams, fd \in Fds : st = obj[th] /\ fd = local[th] /\ Holds(th, fd) BY <1>7 DEF Assign
  <2>2. Taken(fd) /\ \A q \in Holders : Holds(q, fd) => q = th
    <3> HIDE DEF TypeOK, CallInv, Holds, Taken
    <3> QED BY <2>1, OnlyHolder
  <2>3. Passed(st, fd)
    <3>1. ASSUME NEW x \in Fds PROVE Taken(x)' <=> IF x = fd THEN st # Nobody ELSE Taken(x)
      BY <1>7, <2>1, <2>2 DEF Assign
    <3>2. ASSUME NEW p \in Holders, NEW x \in Fds, x # fd PROVE Holds(p, x)' <=> Holds(p, x)
      BY <1>7, <2>1, <3>2 DEF Assign
    <3>3. ASSUME NEW p \in Holders PROVE Holds(p, fd)' <=> p = st
      <4>1. Holds(p, fd) => p = th BY <2>2
      <4> QED BY <1>7, <2>1, <4>1 DEF Assign
    <3> HIDE DEF Taken, Holds, Pre, TypeOK, CallInv, Same
    <3> QED BY <3>1, <3>2, <3>3 DEF Passed
  <2> HIDE DEF TypeOK, CallInv, Holds, Taken
  <2> QED BY <2>1, <2>3, Passing DEF Owner!MayPass
<1>8. ASSUME NEW keep \in BOOLEAN, Adopt(th, keep) PROVE Same
  BY <1>8 DEF Adopt
<1>9. ASSUME NEW st \in Streams, CloseFile(th, st) PROVE Same
  BY <1>9 DEF CloseFile
<1>10. ASSUME NEW st \in Streams, NEW fd \in Fds, OpenFile(th, st, fd) PROVE Passes
  <2>1. ~Taken(fd) /\ \A q \in Holders : ~Holds(q, fd) BY <1>10 DEF OpenFile, OpenIsHeld
  <2>2. Passed(th, fd) BY <1>10, <2>1 DEF OpenFile, Passed
  <2> HIDE DEF TypeOK, CallInv, Holds, Taken
  <2> QED BY <2>1, <2>2, Acquiring DEF Owner!MayPass
<1>11. ASSUME NEW st \in Streams, NEW fd \in Fds, SetFd(th, st, fd) PROVE Same
  BY <1>11 DEF SetFd
<1> HIDE DEF Pre, Same, TypeOK
<1> QED BY <1>1, <1>2, <1>3, <1>4, <1>5, <1>6, <1>7, <1>8, <1>9, <1>10, <1>11 DEF StreamStep

LEMMA StreamCalls ==
  ASSUME Pre, TypeOK', NEW th \in Threads, StreamStep(th), UNCHANGED socketVars
  PROVE  CallInv'
<1> USE DEF Pre, TypeOK, CallInv, fdVars, frameVars, socketVars,
            streamVars, Alone, Becomes, Enter, Advance, Leave, Then
<1>1. CASE StatFile(th) BY <1>1 DEF StatFile
<1>2. CASE StatFails(th) BY <1>2 DEF StatFails
<1>3. CASE TestFlag(th)
  <2>1. PICK st \in Streams : st = obj[th] BY <1>3 DEF TestFlag
  <2>2. \A t \in Threads : t # th => obj[t] # st BY <2>1
  <2>3. ASSUME file_open_flag[st], then[th] = "assign" PROVE stream_fd[st] # local[th]
    <3>1. (Holds(st, stream_fd[st]) /\ Holds(th, stream_fd[st])) \/ stream_fd[st] # local[th]
      BY <2>3 DEF Holds
    <3> QED BY <3>1, <2>1, <2>3 DEF HeldOnce
  <2>4. CASE file_open_flag[st]
    <3> /\ at' = [at EXCEPT ![th] = "close_old"]
        /\ file_open_flag' = [file_open_flag EXCEPT ![st] = FALSE]
        /\ UNCHANGED <<kind, app, leaked, obj, local, socketVars, stream_fd, open_on_exit, then>>
      BY <1>3, <2>1, <2>4 DEF TestFlag
    <3> QED BY <2>1, <2>2, <2>3, <2>4
  <2>5. CASE ~file_open_flag[st]
    BY <1>3, <2>1, <2>2, <2>5 DEF TestFlag
  <2> QED BY <2>4, <2>5
<1>4. CASE CloseOld(th) BY <1>4 DEF CloseOld
<1>5. CASE FileClosed(th) BY <1>5 DEF FileClosed
<1>6. CASE Assign(th) BY <1>6 DEF Assign
<1>7. ASSUME NEW keep \in BOOLEAN, Adopt(th, keep) PROVE CallInv'
  BY <1>7 DEF Adopt
<1>8. ASSUME NEW st \in Streams, CloseFile(th, st) PROVE CallInv'
  BY <1>8 DEF CloseFile
<1>9. ASSUME NEW st \in Streams, NEW fd \in Fds, OpenFile(th, st, fd) PROVE CallInv'
  BY <1>9 DEF OpenFile
<1>10. ASSUME NEW st \in Streams, NEW fd \in Fds, SetFd(th, st, fd) PROVE CallInv'
  BY <1>10 DEF SetFd
<1> HIDE DEF Pre, CallInv, TypeOK
<1> QED BY <1>1, <1>2, <1>3, <1>4, <1>5, <1>6, <1>7, <1>8, <1>9, <1>10 DEF StreamStep

-----------------------------------------------------------------------------
(* The application's own descriptors, and the theorems.                    *)

LEMMA AppShape ==
  ASSUME Pre, NEW fd \in Fds, AppOpen(fd) \/ AppClose(fd)
  PROVE  Passes /\ CallInv'
<1> USE DEF Pre, Taken, Becomes, Unused, frameVars, objects, socketVars, streamVars, Holds
<1>1. ASSUME AppOpen(fd) PROVE Passes
  <2>1. ~Taken(fd) /\ \A q \in Holders : ~Holds(q, fd) BY <1>1 DEF AppOpen, OpenIsHeld
  <2>2. Passed(App, fd) BY <1>1, <2>1 DEF AppOpen, Passed, TypeOK
  <2> HIDE DEF Holds, Taken
  <2> QED BY <2>1, <2>2, Acquiring DEF Owner!MayPass
<1>2. ASSUME AppClose(fd) PROVE Passes
  <2>1. Holds(App, fd) BY <1>2 DEF AppClose
  <2>2. \A q \in Holders : Holds(q, fd) => q = App
    <3> HIDE DEF Holds, Taken
    <3> QED BY <2>1, OnlyHolder
  <2>3. Passed(Nobody, fd) BY <1>2, <2>1, <2>2 DEF AppClose, Passed, TypeOK
  <2> HIDE DEF Holds, Taken
  <2> QED BY <2>1, <2>3, Passing DEF Owner!MayPass
<1>3. CallInv' BY DEF CallInv, AppOpen, AppClose
<1> QED BY <1>1, <1>2, <1>3

LEMMA StepShape ==
  ASSUME Pre, TypeOK', Next
  PROVE  (Same \/ Passes) /\ CallInv'
BY SocketShape, SocketCalls, StreamShape, StreamCalls, AppShape DEF Next

LEMMA StutterShape ==
  ASSUME Pre, UNCHANGED vars
  PROVE  Same /\ CallInv'
BY DEF Pre, CallInv, Same, Taken, Holds, vars, fdVars, frameVars, socketVars, streamVars

LEMMA HolderStep ==
  ASSUME TypeOK, TypeOK', HolderInv, [Next]_vars
  PROVE  HolderInv'
<1>1. Pre BY DEF Pre, HolderInv
<1>2. (Same \/ Passes) /\ CallInv' BY <1>1, StepShape, StutterShape
<1>3. HeldOnce' /\ OpenIsHeld'
  BY <1>1, <1>2, SameKeeps, PassKeeps DEF Pre, Passes
<1> QED BY <1>2, <1>3 DEF HolderInv

LEMMA HolderInit == Init => HolderInv
BY DEF Init, HolderInv, HeldOnce, OpenIsHeld, CallInv, Holds

\* The inductive invariant: every open descriptor has exactly one holder, and
\* a descriptor about to be closed has left its object.
THEOREM HolderInvariant == Spec => []HolderInv
<1>1. HolderInv /\ TypeOK /\ TypeOK' /\ [Next]_vars => HolderInv' BY HolderStep
<1> QED BY <1>1, HolderInit, TypeCorrect, PTL DEF Spec

\* No object ever uses or closes a descriptor that another is to close.
THEOREM NeverHeldTwice == Spec => []HeldOnce
BY HolderInvariant, PTL DEF HolderInv

\* No descriptor is lost, but by the two paths that lose one.
THEOREM NothingElseLost == Spec => []OpenIsHeld
BY HolderInvariant, PTL DEF HolderInv

LEMMA HolderIs ==
  ASSUME HeldOnce, NEW p \in Holders, NEW fd \in Fds, Holds(p, fd)
  PROVE  HolderOf(fd) = p
<1>1. \A q \in Holders : Holds(q, fd) => q = p BY DEF HeldOnce
<1> HIDE DEF Holders
<1> QED BY <1>1 DEF HolderOf

LEMMA SameOwner ==
  ASSUME Same, NEW fd \in Fds
  PROVE  HolderOf(fd)' = HolderOf(fd)
<1>1. \A p \in Holders : Holds(p, fd)' <=> Holds(p, fd) BY DEF Same
<1> HIDE DEF Holders
<1> QED BY <1>1 DEF HolderOf

LEMMA PassOwner ==
  ASSUME Pre, HeldOnce', NEW from \in Holders \cup {Nobody}, NEW to \in Holders \cup {Nobody},
         NEW fd \in Fds, PassTo(from, to, fd)
  PROVE  /\ HolderOf(fd) = from
         /\ HolderOf(fd)' = to
         /\ \A x \in Fds \ {fd} : HolderOf(x)' = HolderOf(x)
<1>1. HolderOf(fd) = from
  <2>1. CASE from = Nobody
    <3>1. \A p \in Holders : ~Holds(p, fd) BY <2>1 DEF PassTo, Pre, OpenIsHeld, Taken
    <3> HIDE DEF Holders
    <3> QED BY <2>1, <3>1 DEF HolderOf
  <2>2. CASE from # Nobody
    <3>1. from \in Holders /\ Holds(from, fd) BY <2>2 DEF PassTo
    <3> QED BY <3>1, HolderIs DEF Pre
  <2> QED BY <2>1, <2>2
<1>2. \A p \in Holders : Holds(p, fd)' <=> p = to BY DEF PassTo
<1>3. HolderOf(fd)' = to
  <2>1. CASE to = Nobody
    <3>1. \A p \in Holders : ~Holds(p, fd)' BY <1>2, <2>1
    <3> HIDE DEF Holders
    <3> QED BY <2>1, <3>1 DEF HolderOf
  <2>2. CASE to # Nobody
    <3>1. to \in Holders BY <2>2
    <3> HIDE DEF Holders
    <3> QED BY <3>1, <1>2 DEF HolderOf
  <2> QED BY <2>1, <2>2
<1>4. ASSUME NEW x \in Fds, x # fd PROVE HolderOf(x)' = HolderOf(x)
  <2>1. \A p \in Holders : Holds(p, x)' <=> Holds(p, x) BY <1>4 DEF PassTo
  <2> HIDE DEF Holders
  <2> QED BY <2>1 DEF HolderOf
<1> QED BY <1>1, <1>3, <1>4

LEMMA OwnerStep ==
  ASSUME Pre, HeldOnce', Same \/ Passes
  PROVE  [Owner!Next]_([fd \in Fds |-> HolderOf(fd)])
<1> DEFINE owner == [fd \in Fds |-> HolderOf(fd)]
<1>1. CASE Same
  <2>1. \A fd \in Fds : HolderOf(fd)' = HolderOf(fd) BY <1>1, SameOwner
  <2>2. owner' = owner BY <2>1
  <2> QED BY <2>2
<1>2. CASE Passes
  <2>1. PICK from \in Holders \cup {Nobody}, to \in Holders \cup {Nobody}, fd \in Fds :
          PassTo(from, to, fd) /\ Owner!MayPass(from, to)
    BY <1>2 DEF Passes
  <2>2. /\ HolderOf(fd) = from
        /\ HolderOf(fd)' = to
        /\ \A x \in Fds \ {fd} : HolderOf(x)' = HolderOf(x)
    BY <2>1, PassOwner
  <2>3. owner[fd] = from /\ owner'[fd] = to BY <2>2
  <2>4. owner' = [owner EXCEPT ![fd] = owner'[fd]] BY <2>2
  <2>5. Owner!MayPass(owner[fd], owner'[fd]) BY <2>1, <2>3
  <2> QED BY <2>4, <2>5 DEF Owner!Next
<1> QED BY <1>1, <1>2

LEMMA OwnerInit == Init => Owner!Init
<1> SUFFICES ASSUME Init PROVE Owner!Init
  OBVIOUS
<1>1. \A fd \in Fds : \A p \in Holders : ~Holds(p, fd) BY DEF Init, Holds
<1>2. \A fd \in Fds : HolderOf(fd) = Nobody
  <2> HIDE DEF Holders
  <2> QED BY <1>1 DEF HolderOf
<1> QED BY <1>2 DEF Owner!Init

\* Socket and Stream implement the abstract ownership: only the holder gives a
\* descriptor on, only the thread or the application that holds it closes it.
THEOREM DescriptorsImplementOwnership == Spec => ImplementsOwnership
<1>1. TypeOK /\ TypeOK' /\ HolderInv /\ HolderInv' /\ [Next]_vars
        => [Owner!Next]_([fd \in Fds |-> HolderOf(fd)])
  <2> SUFFICES ASSUME TypeOK, TypeOK', HolderInv, HolderInv', [Next]_vars
               PROVE  [Owner!Next]_([fd \in Fds |-> HolderOf(fd)])
    OBVIOUS
  <2>1. Pre /\ HeldOnce' BY DEF Pre, HolderInv
  <2>2. Same \/ Passes BY <2>1, StepShape, StutterShape
  <2> QED BY <2>1, <2>2, OwnerStep
<1> QED BY <1>1, OwnerInit, TypeCorrect, HolderInvariant, PTL
        DEF Spec, ImplementsOwnership, Owner!Spec

=============================================================================
