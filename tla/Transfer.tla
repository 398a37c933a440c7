------------------------------- MODULE Transfer -------------------------------
(***************************************************************************)
(* Stream::read and write (src/src/stream.cc) and Socket::recv and send    *)
(* (src/src/socket.cc): one thread moves bytes from a source through one   *)
(* ByteBuffer to a sink.  Every system call may move fewer bytes than      *)
(* asked for, or fail, and every member function refuses to run on a       *)
(* Stream or Socket that is not open; the program fills, reads out or      *)
(* clears the buffer between the calls.                                    *)
(***************************************************************************)
EXTENDS ByteRing

CONSTANTS
  Bytes,     \* how many bytes come in, numbered 1, 2, ... (bound)
  Requests,  \* the sizes asked for
  SizeMod    \* size_t counts modulo this; 2^64 in the code

\* A size_t counts every byte that ever comes in, and a request and one more.
ASSUME TransferAssumption ==
  /\ Bytes \in Nat
  /\ SizeMod \in Nat \ {0} /\ Bytes < SizeMod
  /\ Requests \subseteq 0..(SizeMod - 2)

VARIABLES
  buff,      \* the ByteBuffer
  came,      \* bytes that have come in
  left,      \* the bytes that have left the buffer, in their order
  call       \* the member function that runs or ran last

vars == <<buff, came, left, call>>

\* f: the function; n: buff_size; remain: remain_size; moved: bytes moved in
\* this call; ret: what it returned; busy: still in its loop.
Calling(f, n) == [f |-> f, n |-> n, remain |-> n % SizeMod, moved |-> 0, ret |-> 0, busy |-> TRUE]
Returned(c, ret) == [c EXCEPT !.ret = ret, !.busy = FALSE]
Done(f) == Returned(Calling(f, 0), 0)

Smaller(a, b) == IF a < b THEN a ELSE b
Numbers(from, n) == [k \in 1..n |-> from + k]

\* What a ::read or ::recv of at most `size` bytes may return; 0 at the end of
\* the file or of the connection, or if there is no room.
Available(size) ==
  LET most == Smaller(size, Bytes - came)
  IN IF most = 0 THEN {0} ELSE 1..most

\* What a ::write or ::send of `size` bytes may return.
Accepted(size) == IF size = 0 THEN {0} ELSE 1..size

TakeIn(r, k) == UpdateWritePos(Fill(r, Numbers(came, k)), k)

\* The loop after a system call that moved k bytes and left r in the buffer.
\* remain_size is a size_t.
AfterMoving(r, k, ret) ==
  LET c == [call EXCEPT !.remain = (@ - k) % SizeMod, !.moved = @ + k]
  IN IF k = 0 \/ IdleSize(r) = 0 \/ c.remain = 0 THEN Returned(c, ret) ELSE c

-----------------------------------------------------------------------------

Read(n) ==
  /\ ~call.busy
  /\ buff' = Resize(buff, n)
  /\ call' = Calling("read", n)
  /\ UNCHANGED <<came, left>>

ReadSome(k) ==
  LET r == TakeIn(buff, k) IN
  /\ call.busy /\ call.f = "read"
  /\ buff' = r
  /\ came' = came + k
  /\ call' = AfterMoving(r, k, r.used)   \* return buff.data_size()
  /\ UNCHANGED left

\* Mutant: recv does not make room.
RecvUnsized(n, k) ==
  LET got == Smaller(k, ContWriteSize(buff)) IN
  /\ ~call.busy
  /\ buff' = TakeIn(buff, got)
  /\ came' = came + got
  /\ call' = Returned([Calling("recv", n) EXCEPT !.moved = got], got)
  /\ UNCHANGED left

\* recv is a single system call.
Recv(n, k) ==
  /\ ~call.busy
  /\ buff' = TakeIn(Resize(buff, n + 1), k)
  /\ came' = came + k
  /\ call' = Returned([Calling("recv", n) EXCEPT !.moved = k], k)
  /\ UNCHANGED left

\* The system call of recv fails, after resize.
RecvFails(n) ==
  /\ ~call.busy
  /\ buff' = Resize(buff, n + 1)
  /\ call' = Returned(Calling("recv", n), -1)
  /\ UNCHANGED <<came, left>>

\* Mutant: write refuses with what it was asked for.
RefusedAsWritten(f, n) ==
  /\ ~call.busy
  /\ call' = Returned(Calling(f, n), IF f = "write" THEN n ELSE -1)
  /\ UNCHANGED <<buff, came, left>>

\* The Stream is not open, or the Socket not enabled: the buffer stays as it
\* is.  write alone returns 0.  One buffer may go from object to object, so
\* any call may meet such a one.
Refused(f, n) ==
  /\ ~call.busy
  /\ call' = Returned(Calling(f, n), IF f = "write" THEN 0 ELSE -1)
  /\ UNCHANGED <<buff, came, left>>

\* write and send on an open object start their loops without touching the
\* buffer.
Start(f, n) == ~call.busy /\ call' = Calling(f, n) /\ UNCHANGED <<buff, came, left>>

\* Mutants: the read position moves by what was asked for; the loop goes on
\* when nothing is left to move; it never goes on; send reports what it was
\* asked for.
SendAll(k) ==
  LET r == UpdateReadPos(buff, ContReadSize(buff)) IN
  /\ call.busy /\ call.f \in {"send", "write"}
  /\ left' = left \o SubSeq(Contents(buff), 1, k)
  /\ buff' = r
  /\ call' = AfterMoving(r, k, call.n)
  /\ UNCHANGED came

SendForever(k) ==
  LET r == UpdateReadPos(buff, k)
      c == [call EXCEPT !.remain = (@ - k) % SizeMod, !.moved = @ + k]
  IN
  /\ call.busy /\ call.f \in {"send", "write"}
  /\ left' = left \o SubSeq(Contents(buff), 1, k)
  /\ buff' = r
  /\ call' = IF c.remain = 0 THEN Returned(c, call.n) ELSE c
  /\ UNCHANGED came

SendOnce(k) ==
  LET r == UpdateReadPos(buff, k) IN
  /\ call.busy /\ call.f \in {"send", "write"}
  /\ left' = left \o SubSeq(Contents(buff), 1, k)
  /\ buff' = r
  /\ call' = Returned([call EXCEPT !.moved = @ + k],
                      IF call.f = "write" THEN call.n ELSE call.moved + k)
  /\ UNCHANGED came

SendAsAsked(k) ==
  LET r == UpdateReadPos(buff, k) IN
  /\ call.busy /\ call.f \in {"send", "write"}
  /\ left' = left \o SubSeq(Contents(buff), 1, k)
  /\ buff' = r
  /\ call' = AfterMoving(r, k, call.n)
  /\ UNCHANGED came

\* write returns buff_size, send buff_size - remain_size.
SendSome(k) ==
  LET r == UpdateReadPos(buff, k) IN
  /\ call.busy /\ call.f \in {"send", "write"}
  /\ left' = left \o SubSeq(Contents(buff), 1, k)
  /\ buff' = r
  /\ call' = AfterMoving(r, k, IF call.f = "write" THEN call.n
                               ELSE (call.n - (call.remain - k)) % SizeMod)
  /\ UNCHANGED came

\* The system call of a loop fails: read, write and send return -1, whatever
\* they have moved before.
Fails == call.busy /\ call' = Returned(call, -1) /\ UNCHANGED <<buff, came, left>>

-----------------------------------------------------------------------------
(* What the program does with the buffer itself.                           *)

\* write_string of n new bytes
WriteString(n) ==
  /\ ~call.busy
  /\ n \in 1..(Bytes - came)
  /\ buff' = Put(buff, Numbers(came, n))
  /\ came' = came + n
  /\ call' = Done("write_string")
  /\ UNCHANGED left

\* read_string reads everything; clear drops it, and the memory too.
ReadString ==
  /\ ~call.busy
  /\ left' = left \o Contents(buff)
  /\ buff' = UpdateReadPos(buff, buff.used)
  /\ call' = Done("read_string")
  /\ UNCHANGED came

Clear ==
  /\ ~call.busy
  /\ left' = left \o Contents(buff)
  /\ buff' = EmptyRing
  /\ call' = Done("clear")
  /\ UNCHANGED came

Init ==
  /\ buff = EmptyRing
  /\ came = 0
  /\ left = << >>
  /\ call = Done("none")

Loop ==
  \/ \E k \in Available(ContWriteSize(buff)) : ReadSome(k)
  \/ \E k \in Accepted(ContReadSize(buff)) : SendSome(k)

Next ==
  \/ Loop \/ Fails
  \/ ReadString \/ Clear
  \/ \E n \in Requests :
       \/ Read(n) \/ Start("write", n) \/ Start("send", n) \/ WriteString(n)
       \/ \E k \in Available(ContWriteSize(Resize(buff, n + 1))) : Recv(n, k)
       \/ RecvFails(n)
       \/ \E f \in {"read", "recv", "write", "send"} : Refused(f, n)

Spec == Init /\ [][Next]_vars

\* A system call on a file or on a connection that takes and gives data
\* returns, and not always with an error; nothing makes the program start a
\* call.
FairSpec == Spec /\ WF_vars(Loop)

-----------------------------------------------------------------------------

\* The type invariant: the positions lie in the memory and agree with the
\* count of unread bytes, of which there is never a full lap.
TypeOK ==
  /\ came \in 0..Bytes
  /\ left \in Seq(1..Bytes)
  /\ call.remain \in 0..(SizeMod - 1)
  /\ buff.max \in Nat /\ DOMAIN buff.cell = 0..(buff.max - 1)
  /\ buff.max = 0 => buff = EmptyRing
  /\ buff.max > 0 =>
       /\ buff.read \in 0..(buff.max - 1) /\ buff.write \in 0..(buff.max - 1)
       /\ buff.used = (buff.write - buff.read) % buff.max

\* No byte is lost, repeated or reordered, whatever mix of partial transfers,
\* wraps around the end of the memory, enlargements and failures it has seen:
\* what left and what is still in the buffer are the bytes that came, in order
\* (stream.cc:159-173, 204-216, socket.cc:246-252, 265-278).
InOrder == left \o Contents(buff) = Numbers(0, came)

\* send returns the number of bytes it has sent, although it counts them down
\* from a number it does not stop at, in a size_t (socket.cc:265-280).
SendReportsSent ==
  ~call.busy /\ call.f = "send" /\ call.ret # -1 => call.ret = call.moved

\* A send that returns without error, and a write that returns what it was
\* asked for, have moved as much as asked, or all there is: the test of the
\* free space, which is about reading, does not end them early.  A write that
\* returns neither that nor -1 has returned 0 and moved nothing
\* (stream.cc:198-218, socket.cc:265-280).
SentEnough ==
  ~call.busy /\ call.f \in {"send", "write"} /\ call.ret # -1 =>
    \/ call.moved >= call.n \/ buff.used = 0
    \/ call.f = "write" /\ call.ret = 0 /\ call.moved = 0

\* A recv that returns 0 means the end of the connection, or a buffer that was
\* left full with at least as many bytes as were asked for: resize makes room
\* only in a memory that is smaller than the request (socket.cc:246-247).
ZeroMeansEnd ==
  ~call.busy /\ call.f = "recv" /\ call.ret = 0 =>
    came = Bytes \/ (IdleSize(buff) = 0 /\ buff.used >= call.n)

\* Every loop ends, also when remain_size has wrapped around
\* (stream.cc:170-173, 213-216, socket.cc:275-278).
LoopsEnd == call.busy ~> ~call.busy

Positions == 0..(buff.max - 1)

\* How far p is from the first unread byte.
Distance(p) == (p - buff.read) % buff.max

\* An iterator whose position lies in the memory, wherever the ring has moved
\* since it was there, is dereferenced only where an unread byte is; ++ from
\* begin() passes all of them in order and then stays at end()
\* (byte_buffer.h:133-142, 171-182, 337-358).
IteratorsSeeContents ==
  buff.max > 0 =>
    LET at[k \in 0..(buff.used + 1)] == IF k = 0 THEN Begin(buff) ELSE Move(buff, at[k - 1], 1)
    IN /\ \A p \in Positions : Check(buff, p) <=> Distance(p) < buff.used
       /\ \A k \in 1..buff.used : buff.cell[at[k - 1]] = Contents(buff)[k]
       /\ at[buff.used] = End(buff) /\ at[buff.used + 1] = End(buff)

\* The order of the iterators errs to one side only: < and <= never answer
\* true wrongly, > and >= never false, and while the unread bytes do not go
\* around the end of the memory all four are exact (byte_buffer.h:258-313).
OrderErrsOneWay ==
  \A p, q \in Positions :
    Distance(p) < buff.used /\ Distance(q) <= buff.used =>
      /\ Less(buff, p, q) => Distance(p) < Distance(q)
      /\ LessOrEqual(buff, p, q) => Distance(p) <= Distance(q)
      /\ Distance(p) > Distance(q) => Greater(buff, p, q)
      /\ Distance(p) >= Distance(q) => GreaterOrEqual(buff, p, q)
      /\ buff.read <= buff.write =>
           /\ Less(buff, p, q) <=> Distance(p) < Distance(q)
           /\ LessOrEqual(buff, p, q) <=> Distance(p) <= Distance(q)
           /\ Greater(buff, p, q) <=> Distance(p) > Distance(q)
           /\ GreaterOrEqual(buff, p, q) <=> Distance(p) >= Distance(q)

-----------------------------------------------------------------------------
(* Why the bytes stay in order and are counted right: with the properties  *)
(* about call, an inductive invariant of Spec.                             *)

\* The ring has its positions in the memory and counts what lies between them.
Sound(r) ==
  /\ r = Ring(r.max, r.used, r.read, r.write, r.cell)
  /\ r.cell \in [0..(r.max - 1) -> Nat]
  /\ {r.max, r.used, r.read, r.write} \subseteq Nat
  /\ IF r.max = 0 THEN r = EmptyRing
     ELSE /\ r.read < r.max /\ r.write < r.max
          /\ r.used = r.write - r.read + (IF r.write < r.read THEN r.max ELSE 0)

\* The unread bytes are those after the first n that came.
Follow(r, n) == \A k \in 1..r.used : Contents(r)[k] = n + k

OrderInv ==
  /\ left = Numbers(0, Len(left))
  /\ came = Len(left) + buff.used
  /\ Follow(buff, Len(left))

Calls ==
  [f : {"none", "read", "recv", "write", "send", "write_string", "read_string", "clear"},
   n : Requests \cup {0}, remain : 0..(SizeMod - 1), moved : Nat, ret : Int, busy : BOOLEAN]

\* remain_size is what is left of the request, modulo SizeMod, and what a call
\* has moved out is no more than what has left.
CallInv ==
  /\ call \in Calls
  /\ call.busy => call.f \in {"read", "write", "send"}
  /\ call.busy /\ call.f # "read" =>
       /\ call.moved <= Len(left)
       /\ call.remain = call.n - call.moved + (IF call.n < call.moved THEN SizeMod ELSE 0)

=============================================================================
