------------------------------- MODULE ByteRing -------------------------------
(***************************************************************************)
(* The ring buffer ByteBuffer of src/inc/byte_buffer.h as a record, and    *)
(* the positions its iterator can take.  The iterator is inline in the     *)
(* header; the members of ByteBuffer are in a prebuilt library             *)
(* (src/lib/release/libbuffer.a) and are modelled by what the header and   *)
(* their callers in stream.cc and socket.cc expect of them.  One cell      *)
(* always stays free, so that equal positions mean empty.                  *)
(***************************************************************************)
EXTENDS Integers, Sequences

\* max_buffer_size_, used_data_size_, start_read_pos_, start_write_pos_, buffer_
Ring(max, used, read, write, cell) ==
  [max |-> max, used |-> used, read |-> read, write |-> write, cell |-> cell]

NoCells == [i \in {} |-> 0]
EmptyRing == Ring(0, 0, 0, 0, NoCells)

IdleSize(r) == IF r.max = 0 THEN 0 ELSE r.max - 1 - r.used

\* The unread bytes, in the order in which they came.
Contents(r) == [k \in 1..r.used |-> r.cell[(r.read + k - 1) % r.max]]

\* get_cont_write_size: free cells from the write position on, up to the end
\* of the memory, without the one that stays free.
ContWriteSize(r) ==
  IF IdleSize(r) <= 0 THEN 0
  ELSE IF r.read > r.write \/ r.read = 0 THEN IdleSize(r)
  ELSE r.max - r.write

\* get_cont_read_size
ContReadSize(r) ==
  IF r.read > r.write THEN r.max - r.read ELSE r.used

\* Whoever got get_write_buffer_ptr() stores bytes from there on.
Fill(r, bytes) ==
  [r EXCEPT !.cell = [i \in DOMAIN r.cell |->
     IF i - r.write + 1 \in DOMAIN bytes THEN bytes[i - r.write + 1] ELSE r.cell[i]]]

\* Mutant: the position does not wrap.
UpdateWriteUnwrapped(r, n) ==
  IF n <= 0 \/ n > IdleSize(r) THEN r ELSE [r EXCEPT !.used = @ + n, !.write = @ + n]

\* update_write_pos and update_read_pos ignore an offset that is out of range.
UpdateWritePos(r, n) ==
  IF n <= 0 \/ n > IdleSize(r) THEN r
  ELSE [r EXCEPT !.used = @ + n, !.write = (@ + n) % r.max]

UpdateReadPos(r, n) ==
  IF n <= 0 \/ n > r.used THEN r
  ELSE [r EXCEPT !.used = @ - n, !.read = (@ + n) % r.max]

\* The memory grows to n cells and the unread bytes move to its front.
Grow(r, n) ==
  Ring(n, r.used, 0, r.used, [i \in 0..(n - 1) |-> IF i < r.used THEN Contents(r)[i + 1] ELSE 0])

\* resize only ever enlarges.
Resize(r, n) == IF n <= r.max THEN r ELSE Grow(r, 2 * n)

\* write_string, and write_bytes: grows first when the bytes do not fit, and
\* goes around the end of the memory.
Put(r, bytes) ==
  LET n == Len(bytes)
      g == IF n >= IdleSize(r) THEN Resize(r, r.max + n) ELSE r
      first == IF ContWriteSize(g) < n THEN ContWriteSize(g) ELSE n
      h == UpdateWritePos(Fill(g, SubSeq(bytes, 1, first)), first)
  IN UpdateWritePos(Fill(h, SubSeq(bytes, first + 1, n)), n - first)

-----------------------------------------------------------------------------
(* ByteBuffer_Iterator: a position p in the memory of the ring r.          *)

Begin(r) == r.read
End(r) == r.write

\* Mutant: the end counts as a position with a byte.
CheckPastEnd(r, p) ==
  /\ r.max > 0
  /\ IF r.write >= r.read THEN r.read <= p /\ p <= r.write
                          ELSE r.read <= p \/ p < r.write

\* check_iterator, which also moves a position that fails it to the end.
Check(r, p) ==
  /\ r.max > 0
  /\ IF r.write >= r.read THEN r.read <= p /\ p < r.write
                          ELSE r.read <= p \/ p < r.write

Clamp(r, p) == IF Check(r, p) THEN p ELSE End(r)

\* ++, --, and the operators that move by more.
Move(r, p, by) ==
  IF Check(r, p) THEN Clamp(r, (p + r.max + by) % r.max) ELSE End(r)

\* Mutant: operator> without its second test.
GreaterByPosition(r, p, q) == p > q

\* The four comparisons.  A position before the first unread byte is taken for
\* one that has gone around the end of the memory, wherever the other is.
Greater(r, p, q) == p > q \/ (p < q /\ p < r.read)
GreaterOrEqual(r, p, q) == p >= q \/ (p < q /\ p < r.read)
Less(r, p, q) == p < q /\ p >= r.read
LessOrEqual(r, p, q) == p = q \/ (p < q /\ p >= r.read)

=============================================================================
