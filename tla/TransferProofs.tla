--------------------------- MODULE TransferProofs ---------------------------
(***************************************************************************)
(* Proofs about the transfers of module Transfer: that the ring buffer     *)
(* keeps every byte in its place, what read, write, recv and send report,  *)
(* and what an iterator sees.                                              *)
(***************************************************************************)
EXTENDS Transfer, TLAPS, WellFoundedInduction, SequenceTheorems

-----------------------------------------------------------------------------
(* The arithmetic of positions.                                            *)

\* One lap is enough to bring a position, or a size, back into its range.
LEMMA Wrap ==
  ASSUME NEW m \in Nat \ {0}, NEW x \in Int, -m <= x, x < 2 * m
  PROVE  x % m = IF x < 0 THEN x + m ELSE IF x < m THEN x ELSE x - m
<1>1. CASE x < 0 BY <1>1
<1>2. CASE 0 <= x /\ x < m BY <1>2
<1>3. CASE m <= x BY <1>3
<1> QED BY <1>1, <1>2, <1>3

\* The numbers of a ring: max_buffer_size_, used_data_size_ and the positions.
Fits(m, u, rd, w) ==
  /\ {m, u, rd, w} \subseteq Nat
  /\ m = 0 => u = 0 /\ rd = 0 /\ w = 0
  /\ m > 0 => rd < m /\ w < m /\ u < m /\ u = w - rd + (IF w < rd THEN m ELSE 0)

\* A sound ring, taken apart and put together.
LEMMA SoundParts ==
  ASSUME NEW r, Sound(r)
  PROVE  /\ r = Ring(r.max, r.used, r.read, r.write, r.cell)
         /\ Fits(r.max, r.used, r.read, r.write)
         /\ r.cell \in [0..(r.max - 1) -> Nat]
<1> DEFINE m == r.max
           u == r.used
           rd == r.read
           w == r.write
<1>1. m \in Nat /\ u \in Nat /\ rd \in Nat /\ w \in Nat
  BY DEF Sound
<1>2. m = 0 => u = 0 /\ rd = 0 /\ w = 0 BY DEF Sound, EmptyRing, Ring
<1>3. m # 0 => rd < m /\ w < m /\ u = w - rd + (IF w < rd THEN m ELSE 0) BY DEF Sound
<1> HIDE DEF m, u, rd, w
<1>4. Fits(m, u, rd, w) BY <1>1, <1>2, <1>3 DEF Fits
<1> QED BY <1>4 DEF Sound, m, u, rd, w

LEMMA SoundRing ==
  ASSUME NEW m \in Nat, NEW u, NEW rd, NEW w, Fits(m, u, rd, w), NEW c \in [0..(m - 1) -> Nat]
  PROVE  Sound(Ring(m, u, rd, w, c))
<1>1. CASE m = 0
  <2>1. 0..(m - 1) = {} BY <1>1
  <2>2. c = NoCells BY <2>1 DEF NoCells
  <2> QED BY <1>1, <2>2 DEF Fits, Sound, Ring, EmptyRing
<1>2. CASE m # 0 BY <1>2 DEF Fits, Sound, Ring
<1> QED BY <1>1, <1>2

\* The cell of the k-th unread byte.
Cell(m, rd, k) == rd + k - 1 - (IF rd + k - 1 < m THEN 0 ELSE m)

LEMMA ContentsAt ==
  ASSUME NEW m \in Nat, NEW u, NEW rd, NEW w, Fits(m, u, rd, w), NEW c, NEW k \in 1..u
  PROVE  /\ Contents(Ring(m, u, rd, w, c))[k] = c[Cell(m, rd, k)]
         /\ Cell(m, rd, k) \in 0..(m - 1)
         /\ (rd + k - 1) % m = Cell(m, rd, k)
<1>1. /\ m \in Nat \ {0} /\ u \in Nat /\ rd \in Nat
      /\ rd + k - 1 < 2 * m /\ rd + k - 1 \in Nat
  BY DEF Fits
<1>2. (rd + k - 1) % m = Cell(m, rd, k)
  <2> DEFINE x == rd + k - 1
  <2>1. x \in Int /\ -m <= x /\ x < 2 * m /\ 0 <= x BY <1>1
  <2>2. x % m = IF x < 0 THEN x + m ELSE IF x < m THEN x ELSE x - m BY <1>1, <2>1, Wrap
  <2> QED BY <1>1, <2>1, <2>2 DEF Cell
<1>3. Cell(m, rd, k) \in 0..(m - 1) BY <1>1 DEF Cell
<1>4. Contents(Ring(m, u, rd, w, c))[k] = c[(rd + k - 1) % m] BY DEF Contents, Ring
<1> QED BY <1>2, <1>3, <1>4

\* The unread bytes are those after the first n that came, of a ring by its
\* fields.
LEMMA FollowIs ==
  ASSUME NEW m \in Nat, NEW u, NEW rd, NEW w, Fits(m, u, rd, w), NEW c, NEW n
  PROVE  Follow(Ring(m, u, rd, w, c), n) <=> \A k \in 1..u : c[Cell(m, rd, k)] = n + k
<1>1. Follow(Ring(m, u, rd, w, c), n) <=> \A k \in 1..u : Contents(Ring(m, u, rd, w, c))[k] = n + k
  BY DEF Follow, Ring
<1> QED BY <1>1, ContentsAt

\* The same, of any sound ring.
LEMMA FollowParts ==
  ASSUME NEW r, Sound(r), NEW n, Follow(r, n)
  PROVE  \A i \in 1..r.used : r.cell[Cell(r.max, r.read, i)] = n + i
<1> DEFINE m == r.max
           u == r.used
           rd == r.read
           w == r.write
           c == r.cell
<1>1. r = Ring(m, u, rd, w, c) /\ Fits(m, u, rd, w) BY SoundParts
<1> HIDE DEF m, u, rd, w, c
<1>2. Follow(Ring(m, u, rd, w, c), n) BY <1>1
<1>3. m \in Nat BY <1>1 DEF Fits
<1>4. \A i \in 1..u : c[Cell(m, rd, i)] = n + i BY <1>1, <1>2, <1>3, FollowIs
<1> QED BY <1>4 DEF m, u, rd, w, c

-----------------------------------------------------------------------------
(* What the operations of the ring do to the unread bytes.                 *)

\* Bytes that come in at the write position, before the end of the memory.
LEMMA Filling ==
  ASSUME NEW r, Sound(r), NEW n \in Nat, Follow(r, n),
         NEW k \in 0..ContWriteSize(r), NEW bytes,
         DOMAIN bytes = 1..k, \A j \in 1..k : bytes[j] = n + r.used + j
  PROVE  LET q == UpdateWritePos(Fill(r, bytes), k) IN
           Sound(q) /\ Follow(q, n) /\ q.used = r.used + k /\ q.max = r.max /\ q.read = r.read
           /\ q.write = r.write + k - (IF r.write + k < r.max THEN 0 ELSE r.max)
<1>1. PICK m, u, rd, w \in Nat : r.max = m /\ r.used = u /\ r.read = rd /\ r.write = w
  BY SoundParts DEF Fits
<1>2. PICK c \in [0..(m - 1) -> Nat] :
        /\ r.cell = c /\ r = Ring(m, u, rd, w, c) /\ Fits(m, u, rd, w)
        /\ \A i \in 1..u : c[Cell(m, rd, i)] = n + i
  <2>1. /\ r = Ring(m, u, rd, w, r.cell) /\ Fits(m, u, rd, w)
        /\ r.cell \in [0..(m - 1) -> Nat]
    BY <1>1, SoundParts
  <2>2. \A i \in 1..u : r.cell[Cell(m, rd, i)] = n + i BY <1>1, FollowParts
  <2> QED BY <2>1, <2>2
<1> DEFINE d == [i \in 0..(m - 1) |-> IF i - w + 1 \in 1..k THEN bytes[i - w + 1] ELSE c[i]]
           v == w + k - (IF w + k < m THEN 0 ELSE m)
           q == Ring(m, u + k, rd, v, d)
<1>4. IdleSize(r) = (IF m = 0 THEN 0 ELSE m - 1 - u)
      /\ ContWriteSize(r) = IF IdleSize(r) <= 0 THEN 0
                            ELSE IF rd > w \/ rd = 0 THEN IdleSize(r) ELSE m - w
  BY <1>1 DEF IdleSize, ContWriteSize
<1>5. /\ k \in Nat /\ (k > 0 => m > 0 /\ w + k <= m /\ k <= m - 1 - u)
      /\ Fits(m, u + k, rd, v)
  <2>1. k \in Nat /\ k <= ContWriteSize(r) /\ ContWriteSize(r) \in Nat
    BY <1>2, <1>4 DEF Fits
  <2>2. k > 0 => m > 0 /\ w + k <= m /\ k <= m - 1 - u
    BY <1>2, <1>4, <2>1 DEF Fits
  <2>3. v \in Nat /\ (m > 0 => v < m) /\ (m = 0 => v = 0)
    BY <1>2, <2>1, <2>2 DEF Fits
  <2>4. m > 0 => u + k < m
    BY <1>2, <2>1, <2>2 DEF Fits
  <2>5. m > 0 => u + k = v - rd + (IF v < rd THEN m ELSE 0)
    BY <1>2, <1>4, <2>1, <2>2 DEF Fits
  <2> QED BY <1>2, <2>1, <2>2, <2>3, <2>4, <2>5 DEF Fits
<1>6. Fill(r, bytes) = Ring(m, u, rd, w, d)
  <2>1. DOMAIN r.cell = 0..(m - 1) BY <1>2
  <2>2. Fill(r, bytes) = [r EXCEPT !.cell = d] BY <1>1, <1>2, <2>1 DEF Fill
  <2> HIDE DEF d
  <2> QED BY <1>2, <2>2 DEF Ring
<1>7. UpdateWritePos(Fill(r, bytes), k) = q
  <2>1. CASE k = 0
    <3>1. v = w /\ u + k = u BY <1>2, <2>1 DEF Fits
    <3> HIDE DEF d, v
    <3> QED BY <1>6, <2>1, <3>1 DEF UpdateWritePos, Ring
  <2>2. CASE k > 0
    <3>1. (w + k) % m = v
      <4> DEFINE x == w + k
      <4>1. m \in Nat \ {0} /\ x \in Int /\ -m <= x /\ x < 2 * m /\ 0 <= x
        BY <1>2, <1>5, <2>2 DEF Fits
      <4>2. x % m = IF x < 0 THEN x + m ELSE IF x < m THEN x ELSE x - m BY <4>1, Wrap
      <4> QED BY <4>1, <4>2
    <3> HIDE DEF d, v
    <3>2. IdleSize(Ring(m, u, rd, w, d)) = m - 1 - u BY <1>5, <2>2 DEF IdleSize, Ring
    <3>3. ~(k <= 0 \/ k > IdleSize(Ring(m, u, rd, w, d))) BY <1>5, <2>2, <3>2
    <3>4. UpdateWritePos(Ring(m, u, rd, w, d), k) =
            [Ring(m, u, rd, w, d) EXCEPT !.used = @ + k, !.write = (@ + k) % m]
      BY <3>3 DEF UpdateWritePos, Ring
    <3> QED BY <1>6, <3>1, <3>4 DEF Ring
  <2> QED BY <1>5, <2>1, <2>2
<1>8. d \in [0..(m - 1) -> Nat]
  <2>1. \A j \in 1..k : bytes[j] \in Nat BY <1>1
  <2> QED BY <2>1
<1>9. Sound(q)
  <2> HIDE DEF d, v
  <2> QED BY <1>5, <1>8, SoundRing
<1>10. ASSUME NEW j \in 1..(u + k) PROVE d[Cell(m, rd, j)] = n + j
  <2>1. Cell(m, rd, j) \in 0..(m - 1) BY <1>5, ContentsAt
  <2>2. CASE j <= u
    <3>1. j \in 1..u BY <2>2
    <3>2. c[Cell(m, rd, j)] = n + j BY <1>2, <3>1
    <3>3. Cell(m, rd, j) - w + 1 \notin 1..k BY <1>2, <1>5, <2>1, <3>1 DEF Cell, Fits
    <3> QED BY <2>1, <3>2, <3>3
  <2>3. CASE j > u
    <3>1. Cell(m, rd, j) = w + (j - u) - 1 BY <1>2, <1>5, <2>3 DEF Cell, Fits
    <3>2. Cell(m, rd, j) - w + 1 = j - u /\ j - u \in 1..k BY <1>2, <2>1, <2>3, <3>1
    <3>3. d[Cell(m, rd, j)] = bytes[j - u] BY <2>1, <3>2
    <3>4. bytes[j - u] = n + u + (j - u) BY <1>1, <3>2
    <3> QED BY <3>3, <3>4
  <2> QED BY <2>2, <2>3
<1>11. q.max = m /\ q.used = u + k /\ q.read = rd /\ q.write = v
  BY DEF Ring
<1>12. Follow(q, n)
  <2> HIDE DEF d, v
  <2> QED BY <1>5, <1>10, FollowIs
<1> HIDE DEF q, d
<1> QED BY <1>1, <1>7, <1>9, <1>11, <1>12

\* Bytes that are read from the front.
LEMMA Emptying ==
  ASSUME NEW r, Sound(r), NEW n \in Nat, Follow(r, n), NEW k \in 0..r.used
  PROVE  LET q == UpdateReadPos(r, k) IN
           Sound(q) /\ Follow(q, n + k) /\ q.used = r.used - k /\ q.max = r.max
<1>1. PICK m, u, rd, w \in Nat : r.max = m /\ r.used = u /\ r.read = rd /\ r.write = w
  BY SoundParts DEF Fits
<1>2. PICK c \in [0..(m - 1) -> Nat] :
        /\ r.cell = c /\ r = Ring(m, u, rd, w, c) /\ Fits(m, u, rd, w)
        /\ \A i \in 1..u : c[Cell(m, rd, i)] = n + i
  <2>1. /\ r = Ring(m, u, rd, w, r.cell) /\ Fits(m, u, rd, w)
        /\ r.cell \in [0..(m - 1) -> Nat]
    BY <1>1, SoundParts
  <2>2. \A i \in 1..u : r.cell[Cell(m, rd, i)] = n + i BY <1>1, FollowParts
  <2> QED BY <2>1, <2>2
<1>4. CASE k = 0
  <2>1. UpdateReadPos(r, k) = r /\ n + k = n /\ r.used - k = r.used BY <1>1, <1>4 DEF UpdateReadPos
  <2> QED BY <2>1
<1>5. CASE k > 0
  <2> DEFINE v == rd + k - (IF rd + k < m THEN 0 ELSE m)
             q == Ring(m, u - k, v, w, c)
  <2>1. k \in Nat /\ k <= u /\ m \in Nat \ {0} BY <1>2, <1>1, <1>5 DEF Fits
  <2>2. (rd + k) % m = v
    <3> DEFINE x == rd + k
    <3>1. m \in Nat \ {0} /\ x \in Int /\ -m <= x /\ x < 2 * m /\ 0 <= x
      BY <1>2, <2>1 DEF Fits
    <3>2. x % m = IF x < 0 THEN x + m ELSE IF x < m THEN x ELSE x - m BY <3>1, Wrap
    <3> QED BY <3>1, <3>2
  <2>3. Fits(m, u - k, v, w)
    <3>1. v \in Nat /\ v < m BY <1>2, <2>1 DEF Fits
    <3>2. u - k = w - v + (IF w < v THEN m ELSE 0) BY <1>2, <1>5, <2>1 DEF Fits
    <3> QED BY <1>2, <2>1, <3>1, <3>2 DEF Fits
  <2>4. UpdateReadPos(r, k) = q
    <3>1. UpdateReadPos(r, k) = [r EXCEPT !.used = @ - k, !.read = (@ + k) % m]
      BY <1>1, <1>5, <2>1 DEF UpdateReadPos
    <3> HIDE DEF v
    <3> QED BY <1>1, <1>2, <2>2, <3>1 DEF Ring
  <2>5. ASSUME NEW j \in 1..(u - k) PROVE c[Cell(m, v, j)] = (n + k) + j
    <3>1. k + j \in 1..u /\ Cell(m, v, j) = Cell(m, rd, k + j)
      BY <1>2, <2>1 DEF Cell, Fits
    <3> QED BY <1>2, <2>1, <3>1
  <2> HIDE DEF v
  <2>6. Sound(q) BY <2>3, SoundRing
  <2>7. Follow(q, n + k) BY <2>3, <2>5, FollowIs
  <2>8. q.max = m /\ q.used = u - k BY DEF Ring
  <2> HIDE DEF q
  <2> QED BY <1>1, <2>4, <2>6, <2>7, <2>8
<1> QED BY <1>1, <1>4, <1>5

\* More memory moves the unread bytes to its front.
LEMMA Growing ==
  ASSUME NEW r, Sound(r), NEW n \in Nat, Follow(r, n), NEW size \in Nat
  PROVE  LET q == Resize(r, size) IN
           /\ Sound(q) /\ Follow(q, n) /\ q.used = r.used /\ q.max >= size
           /\ IF size <= r.max THEN q = r
              ELSE q.max = 2 * size /\ q.read = 0 /\ q.write = r.used
<1>1. PICK m, u, rd, w \in Nat : r.max = m /\ r.used = u /\ r.read = rd /\ r.write = w
  BY SoundParts DEF Fits
<1>2. PICK c \in [0..(m - 1) -> Nat] :
        /\ r.cell = c /\ r = Ring(m, u, rd, w, c) /\ Fits(m, u, rd, w)
        /\ \A i \in 1..u : c[Cell(m, rd, i)] = n + i
  <2>1. /\ r = Ring(m, u, rd, w, r.cell) /\ Fits(m, u, rd, w)
        /\ r.cell \in [0..(m - 1) -> Nat]
    BY <1>1, SoundParts
  <2>2. \A i \in 1..u : r.cell[Cell(m, rd, i)] = n + i BY <1>1, FollowParts
  <2> QED BY <2>1, <2>2
<1>4. CASE size <= m
  <2>1. Resize(r, size) = r BY <1>1, <1>4 DEF Resize
  <2> QED BY <1>1, <1>4, <2>1
<1>5. CASE size > m
  <2> DEFINE d == [i \in 0..(2 * size - 1) |-> IF i < u THEN Contents(r)[i + 1] ELSE 0]
             q == Ring(2 * size, u, 0, u, d)
  <2>1. Resize(r, size) = q
    <3>1. Resize(r, size) = Grow(r, 2 * size) BY <1>1, <1>5 DEF Resize
    <3> QED BY <1>1, <3>1 DEF Grow
  <2>2. 2 * size \in Nat /\ Fits(2 * size, u, 0, u) BY <1>2, <1>5 DEF Fits
  <2>3. \A j \in 1..u : Contents(r)[j] = n + j BY <1>1 DEF Follow
  <2>4. d \in [0..(2 * size - 1) -> Nat] BY <2>3
  <2>5. ASSUME NEW j \in 1..u PROVE d[Cell(2 * size, 0, j)] = n + j
    <3>1. Cell(2 * size, 0, j) = j - 1 /\ j - 1 \in 0..(2 * size - 1) /\ j - 1 < u
      BY <1>2, <1>5 DEF Cell, Fits
    <3>2. (j - 1) + 1 = j OBVIOUS
    <3> QED BY <2>3, <3>1, <3>2
  <2> HIDE DEF d
  <2>6. Sound(q) BY <2>2, <2>4, SoundRing
  <2>7. Follow(q, n) BY <2>2, <2>5, FollowIs
  <2>8. q.max = 2 * size /\ q.used = u /\ q.read = 0 /\ q.write = u BY DEF Ring
  <2> HIDE DEF q
  <2> QED BY <1>1, <1>5, <2>1, <2>6, <2>7, <2>8
<1> QED BY <1>4, <1>5

\* Putting bytes into the ring: the memory grows when they do not fit, and they
\* go around its end in two parts.
LEMMA Putting ==
  ASSUME NEW r, Sound(r), NEW n \in Nat, Follow(r, n), NEW k \in Nat \ {0}
  PROVE  LET q == Put(r, Numbers(n + r.used, k)) IN
           Sound(q) /\ Follow(q, n) /\ q.used = r.used + k
<1> DEFINE bytes == Numbers(n + r.used, k)
           g == IF k >= IdleSize(r) THEN Resize(r, r.max + k) ELSE r
           first == IF ContWriteSize(g) < k THEN ContWriteSize(g) ELSE k
           part == SubSeq(bytes, 1, first)
           rest == SubSeq(bytes, first + 1, k)
           h == UpdateWritePos(Fill(g, part), first)
<1>1. r.max \in Nat /\ r.used \in Nat BY DEF Sound
<1>2. /\ bytes \in Seq(Nat) /\ Len(bytes) = k
      /\ \A j \in 1..k : bytes[j] = n + r.used + j
  BY <1>1 DEF Numbers
<1>3. Put(r, bytes) = UpdateWritePos(Fill(h, rest), k - first)
  BY <1>2 DEF Put
<1>4. Sound(g) /\ Follow(g, n) /\ g.used = r.used /\ k <= IdleSize(g)
  <2>1. CASE k >= IdleSize(r)
    <3>1. r.max + k \in Nat /\ ~(r.max + k <= r.max) BY <1>1
    <3>2. /\ Sound(g) /\ Follow(g, n) /\ g.used = r.used
          /\ g.max = 2 * (r.max + k)
      BY <2>1, <3>1, Growing
    <3>3. r.used <= r.max
      <4>1. Fits(r.max, r.used, r.read, r.write) BY SoundParts
      <4> QED BY <1>1, <4>1 DEF Fits
    <3> DEFINE m == r.max
               u == r.used
    <3>4. m \in Nat /\ u \in Nat /\ u <= m /\ g.max = 2 * (m + k) /\ g.used = u BY <1>1, <3>2, <3>3
    <3> HIDE DEF m, u, g
    <3>5. IdleSize(g) = 2 * (m + k) - 1 - u BY <3>4 DEF IdleSize
    <3> QED BY <3>2, <3>4, <3>5
  <2>2. CASE ~(k >= IdleSize(r))
    <3>1. IdleSize(r) \in Int BY <1>1 DEF IdleSize
    <3> QED BY <2>2, <3>1
  <2> QED BY <2>1, <2>2
<1> HIDE DEF bytes, g
<1>5. PICK m, u, rd, w \in Nat : g.max = m /\ g.used = u /\ g.read = rd /\ g.write = w
  BY <1>4, SoundParts DEF Fits
<1>6. /\ g.max = m /\ g.used = u /\ g.read = rd /\ g.write = w /\ Fits(m, u, rd, w)
      /\ u = r.used /\ m > 0 /\ IdleSize(g) = m - 1 - u /\ k <= m - 1 - u
  <2>1. g.max = m /\ g.used = u /\ g.read = rd /\ g.write = w /\ Fits(m, u, rd, w)
    BY <1>4, <1>5, SoundParts
  <2>2. IdleSize(g) = IF m = 0 THEN 0 ELSE m - 1 - u BY <2>1 DEF IdleSize
  <2> QED BY <1>4, <2>1, <2>2
<1>7. ContWriteSize(g) = IF rd > w \/ rd = 0 THEN m - 1 - u ELSE m - w
  BY <1>6 DEF ContWriteSize
<1>8. first \in Nat /\ first <= k /\ first \in 0..ContWriteSize(g) /\ (first < k => first = m - w /\ ~(rd > w \/ rd = 0))
  BY <1>6, <1>7 DEF Fits
<1>9. /\ DOMAIN part = 1..first /\ \A j \in 1..first : part[j] = n + u + j
      /\ DOMAIN rest = 1..(k - first) /\ \A j \in 1..(k - first) : rest[j] = n + (u + first) + j
  <2> HIDE DEF first
  <2>1. /\ part = [j \in 1..first |-> bytes[1 + j - 1]]
        /\ rest = [j \in 1..(k - first) |-> bytes[(first + 1) + j - 1]]
    BY <1>2, <1>8
  <2>2. \A j \in 1..first : 1 + j - 1 = j /\ j \in 1..k BY <1>8
  <2>3. \A j \in 1..(k - first) : (first + 1) + j - 1 = first + j /\ first + j \in 1..k BY <1>8
  <2>4. \A j \in 1..k : bytes[j] = n + u + j BY <1>2, <1>6
  <2> HIDE DEF part, rest
  <2>5. DOMAIN part = 1..first /\ \A j \in 1..first : part[j] = n + u + j
    BY <2>1, <2>2, <2>4
  <2>6. DOMAIN rest = 1..(k - first) /\ \A j \in 1..(k - first) : rest[j] = n + u + (first + j)
    BY <2>1, <2>3, <2>4
  <2> QED BY <1>6, <1>8, <2>5, <2>6
<1>10. /\ Sound(h) /\ Follow(h, n) /\ h.used = u + first /\ h.max = m /\ h.read = rd
       /\ h.write = w + first - (IF w + first < m THEN 0 ELSE m)
  <2> HIDE DEF first, part
  <2>1. \A j \in 1..first : part[j] = n + g.used + j BY <1>6, <1>9
  <2>2. /\ Sound(h) /\ Follow(h, n) /\ h.used = g.used + first /\ h.max = g.max /\ h.read = g.read
        /\ h.write = g.write + first - (IF g.write + first < g.max THEN 0 ELSE g.max)
    BY <1>4, <1>8, <1>9, <2>1, Filling
  <2> QED BY <1>6, <2>2
<1> HIDE DEF h, part, rest
<1>11. k - first \in 0..ContWriteSize(h)
  <2>1. CASE first = k
    <3>1. IdleSize(h) = m - 1 - (u + k) BY <1>6, <1>10, <2>1 DEF IdleSize
    <3>2. ContWriteSize(h) \in Nat
      <4>1. PICK x, y, z, v \in Nat : h.max = x /\ h.used = y /\ h.read = z /\ h.write = v
        BY <1>10, SoundParts DEF Fits
      <4>2. h.max = x /\ h.used = y /\ h.read = z /\ h.write = v /\ Fits(x, y, z, v)
        BY <1>10, <4>1, SoundParts
      <4>3. IdleSize(h) = IF x = 0 THEN 0 ELSE x - 1 - y BY <4>2 DEF IdleSize
      <4> QED BY <4>2, <4>3 DEF ContWriteSize, Fits
    <3> QED BY <2>1, <3>2
  <2>2. CASE first < k
    <3>1. h.write = 0 /\ h.read > 0 /\ h.used = u + first /\ first = m - w
      BY <1>6, <1>8, <1>10, <2>2
    <3>2. IdleSize(h) = m - 1 - (u + first) BY <1>6, <1>10 DEF IdleSize
    <3>3. ContWriteSize(h) = IF IdleSize(h) <= 0 THEN 0 ELSE IdleSize(h)
      BY <3>1 DEF ContWriteSize
    <3> QED BY <1>6, <1>8, <2>2, <3>2, <3>3
  <2> QED BY <1>8, <2>1, <2>2
<1>12. LET q == UpdateWritePos(Fill(h, rest), k - first) IN
         Sound(q) /\ Follow(q, n) /\ q.used = (u + first) + (k - first)
  <2> HIDE DEF first
  <2> QED BY <1>9, <1>10, <1>11, Filling
<1>13. (u + first) + (k - first) = u + k BY <1>6, <1>8
<1> QED BY <1>3, <1>6, <1>12, <1>13 DEF bytes

-----------------------------------------------------------------------------
(* The order of the bytes.                                                 *)

DataInv == came \in 0..Bytes /\ Len(left) \in Nat /\ Sound(buff) /\ OrderInv

\* Counting on.
LEMMA NumbersJoin ==
  ASSUME NEW n \in Nat, NEW k \in Nat
  PROVE  /\ Numbers(0, n) \in Seq(Nat) /\ Len(Numbers(0, n)) = n
         /\ Numbers(0, n) \o Numbers(n, k) = Numbers(0, n + k)
<1> DEFINE a == Numbers(0, n) \o Numbers(n, k)
           b == Numbers(0, n + k)
<1>1. /\ Numbers(0, n) \in Seq(Nat) /\ Len(Numbers(0, n)) = n
      /\ \A i \in 1..n : Numbers(0, n)[i] = i
  BY DEF Numbers
<1>2. /\ Numbers(n, k) \in Seq(Nat) /\ Len(Numbers(n, k)) = k
      /\ \A i \in 1..k : Numbers(n, k)[i] = n + i
  BY DEF Numbers
<1>3. b \in Seq(Nat) /\ Len(b) = n + k /\ \A i \in 1..(n + k) : b[i] = i
  BY DEF Numbers
<1>4. a \in Seq(Nat) /\ Len(a) = n + k /\ \A i \in 1..(n + k) : a[i] = i
  <2> DEFINE x == Numbers(0, n)
             y == Numbers(n, k)
  <2>1. /\ x \in Seq(Nat) /\ y \in Seq(Nat) /\ Len(x) = n /\ Len(y) = k
        /\ \A i \in 1..n : x[i] = i
        /\ \A i \in 1..k : y[i] = n + i
    BY <1>1, <1>2
  <2> HIDE DEF x, y
  <2>2. /\ x \o y \in Seq(Nat) /\ Len(x \o y) = n + k
        /\ \A i \in 1..(n + k) : (x \o y)[i] = IF i <= n THEN x[i] ELSE y[i - n]
    BY <2>1, ConcatProperties
  <2>3. ASSUME NEW i \in 1..(n + k) PROVE (x \o y)[i] = i
    <3>1. (x \o y)[i] = IF i <= n THEN x[i] ELSE y[i - n] BY <2>2
    <3>2. CASE i <= n
      <4>1. i \in 1..n BY <3>2
      <4> QED BY <2>1, <3>1, <3>2, <4>1
    <3>3. CASE ~(i <= n)
      <4>1. i - n \in 1..k /\ n + (i - n) = i BY <3>3
      <4>2. y[i - n] = n + (i - n) BY <2>1, <4>1
      <4> QED BY <3>1, <3>3, <4>1, <4>2
    <3> QED BY <3>2, <3>3
  <2> QED BY <2>2, <2>3 DEF x, y
<1> HIDE DEF a, b
<1>5. a = b BY <1>3, <1>4, SeqEqual
<1> QED BY <1>1, <1>5 DEF a, b

LEMMA NumbersUpTo ==
  ASSUME NEW n \in Nat
  PROVE  Numbers(0, n) \in Seq(Nat) /\ Len(Numbers(0, n)) = n
BY DEF Numbers

\* What is in the ring, when the bytes are in order.
LEMMA ContentsNumbers ==
  ASSUME NEW r, Sound(r), NEW n \in Nat, Follow(r, n)
  PROVE  /\ r.used \in Nat /\ Contents(r) = Numbers(n, r.used)
         /\ \A k \in 0..r.used : SubSeq(Contents(r), 1, k) = Numbers(n, k)
<1>1. r.used \in Nat BY DEF Sound
<1>2. DOMAIN Contents(r) = 1..r.used BY DEF Contents
<1>3. Contents(r) = Numbers(n, r.used)
  <2>1. Contents(r) = [k \in 1..r.used |-> Contents(r)[k]] BY DEF Contents
  <2> QED BY <2>1 DEF Follow, Numbers
<1>4. ASSUME NEW u \in Nat, NEW k \in 0..u PROVE SubSeq(Numbers(n, u), 1, k) = Numbers(n, k)
  <2> DEFINE a == SubSeq(Numbers(n, u), 1, k)
             b == Numbers(n, k)
             x == Numbers(n, u)
  <2>1. b \in Seq(Nat) /\ Len(b) = k /\ \A i \in 1..k : b[i] = n + i
    BY DEF Numbers
  <2>2. x \in Seq(Nat) /\ Len(x) = u /\ \A i \in 1..u : x[i] = n + i
    BY DEF Numbers
  <2>3. a \in Seq(Nat) /\ Len(a) = k /\ \A i \in 1..k : a[i] = n + i
    <3> HIDE DEF x
    <3>1. \A i \in 1..k : x[i] \in Nat /\ 1 + i - 1 = i BY <2>2
    <3>2. k - 1 + 1 = k /\ (1 <= k <=> k # 0) OBVIOUS
    <3>3. /\ SubSeq(x, 1, k) \in Seq(Nat) /\ Len(SubSeq(x, 1, k)) = k
          /\ \A i \in 1..k : SubSeq(x, 1, k)[i] = x[1 + i - 1]
      BY <3>1, <3>2, SubSeqProperties
    <3> QED BY <2>2, <3>1, <3>3 DEF x
  <2> HIDE DEF a, b
  <2>4. a = b BY <2>1, <2>3, SeqEqual
  <2> QED BY <2>4 DEF a, b
<1> QED BY <1>1, <1>3, <1>4

\* Bytes come in.
LEMMA DataTaken ==
  ASSUME DataInv, NEW g, Sound(g), Follow(g, Len(left)), g.used = buff.used,
         NEW k \in Available(ContWriteSize(g)),
         buff' = TakeIn(g, k), came' = came + k, left' = left
  PROVE  DataInv' /\ k \in Nat /\ buff'.max = g.max /\ buff'.used = g.used + k
<1>1. Len(left) \in Nat /\ came = Len(left) + buff.used /\ came \in Nat
  BY TransferAssumption DEF DataInv, OrderInv
<1>2. ContWriteSize(g) \in Nat
  <2>1. PICK m, u, rd, w \in Nat : g.max = m /\ g.used = u /\ g.read = rd /\ g.write = w
    BY SoundParts DEF Fits
  <2>2. Fits(m, u, rd, w) BY <2>1, SoundParts
  <2>3. IdleSize(g) = IF m = 0 THEN 0 ELSE m - 1 - u BY <2>1 DEF IdleSize
  <2> QED BY <2>1, <2>2, <2>3 DEF ContWriteSize, Fits
<1>3. k \in 0..ContWriteSize(g) /\ came + k \in 0..Bytes
  BY <1>1, <1>2, TransferAssumption DEF Available, Smaller, DataInv
<1> DEFINE bytes == Numbers(came, k)
<1>4. DOMAIN bytes = 1..k /\ \A j \in 1..k : bytes[j] = Len(left) + g.used + j
  BY <1>1 DEF Numbers
<1> HIDE DEF bytes
<1>5. LET q == UpdateWritePos(Fill(g, bytes), k) IN
        Sound(q) /\ Follow(q, Len(left)) /\ q.used = g.used + k /\ q.max = g.max
  BY <1>1, <1>3, <1>4, Filling
<1>6. buff' = UpdateWritePos(Fill(g, bytes), k) BY DEF TakeIn, bytes
<1>7. Sound(buff') /\ Follow(buff', Len(left)) /\ buff'.used = buff.used + k /\ buff'.max = g.max
  BY <1>5, <1>6
<1>8. came' = Len(left) + (buff.used + k)
  <2>1. buff.used \in Nat BY DEF DataInv, Sound
  <2> QED BY <1>1, <1>3, <2>1
<1>9. Sound(buff)' /\ Follow(buff, Len(left))' BY <1>7 DEF Sound, Follow
<1> QED BY <1>3, <1>7, <1>8, <1>9 DEF DataInv, OrderInv

\* Bytes leave from the front, all of them or some.
LEMMA DataGiven ==
  ASSUME DataInv, NEW k \in 0..buff.used,
         left' = left \o SubSeq(Contents(buff), 1, k),
         buff' = UpdateReadPos(buff, k), came' = came
  PROVE  DataInv' /\ Len(left)' = Len(left) + k /\ buff'.used = buff.used - k
<1> DEFINE n == Len(left)
<1>1. n \in Nat /\ k \in Nat /\ Sound(buff) /\ Follow(buff, n) /\ left = Numbers(0, n) /\ buff.used \in Nat
  BY DEF DataInv, OrderInv, Sound
<1>2. SubSeq(Contents(buff), 1, k) = Numbers(n, k) BY <1>1, ContentsNumbers
<1> HIDE DEF n
<1>3. left' = Numbers(0, n + k)
  <2>1. left' = Numbers(0, n) \o Numbers(n, k) BY <1>1, <1>2
  <2> QED BY <1>1, <2>1, NumbersJoin
<1>4. Len(left') = n + k /\ n + k \in Nat
  <2>1. n + k \in Nat BY <1>1
  <2> QED BY <1>3, <2>1, NumbersUpTo
<1>5. Sound(buff') /\ Follow(buff', n + k) /\ buff'.used = buff.used - k
  BY <1>1, Emptying
<1>6. Sound(buff)' /\ Follow(buff, Len(left))' BY <1>4, <1>5 DEF Sound, Follow
<1>7. came' = Len(left') + buff'.used
  <2>1. came = n + buff.used BY DEF DataInv, OrderInv, n
  <2> QED BY <1>1, <1>4, <1>5, <2>1
<1>8. came' \in 0..Bytes BY DEF DataInv
<1> QED BY <1>1, <1>3, <1>4, <1>5, <1>6, <1>7, <1>8 DEF DataInv, OrderInv, n

\* The program writes bytes into the buffer.
LEMMA DataPut ==
  ASSUME DataInv, NEW k \in 1..(Bytes - came),
         buff' = Put(buff, Numbers(came, k)), came' = came + k, left' = left
  PROVE  DataInv'
<1>1. /\ Len(left) \in Nat /\ came \in Nat /\ k \in Nat \ {0} /\ came + k \in 0..Bytes
      /\ Sound(buff) /\ Follow(buff, Len(left)) /\ buff.used \in Nat
      /\ came = Len(left) + buff.used
  <2>1. Bytes \in Nat /\ came \in 0..Bytes BY TransferAssumption DEF DataInv
  <2>2. came \in Nat /\ k \in Nat \ {0} /\ came + k \in 0..Bytes BY <2>1
  <2> QED BY <2>2 DEF DataInv, OrderInv, Sound
<1>2. LET q == Put(buff, Numbers(Len(left) + buff.used, k)) IN
        Sound(q) /\ Follow(q, Len(left)) /\ q.used = buff.used + k
  BY <1>1, Putting
<1>3. Sound(buff') /\ Follow(buff', Len(left)) /\ buff'.used = buff.used + k
  BY <1>1, <1>2
<1>4. Sound(buff)' /\ Follow(buff, Len(left))' BY <1>3 DEF Sound, Follow
<1>5. came' = Len(left') + buff'.used BY <1>1, <1>3
<1> QED BY <1>1, <1>4, <1>5 DEF DataInv, OrderInv

\* The program drops what is in the buffer.
LEMMA DataCleared ==
  ASSUME DataInv, left' = left \o Contents(buff), buff' = EmptyRing, came' = came
  PROVE  DataInv'
<1> DEFINE n == Len(left)
<1>1. n \in Nat /\ Sound(buff) /\ Follow(buff, n) /\ left = Numbers(0, n) /\ buff.used \in Nat
  BY DEF DataInv, OrderInv, Sound
<1>2. Contents(buff) = Numbers(n, buff.used) BY <1>1, ContentsNumbers
<1> HIDE DEF n
<1>3. left' = Numbers(0, n + buff.used)
  <2>1. left' = Numbers(0, n) \o Numbers(n, buff.used) BY <1>1, <1>2
  <2> QED BY <1>1, <2>1, NumbersJoin
<1>4. Len(left') = n + buff.used /\ n + buff.used \in Nat
  <2>1. n + buff.used \in Nat BY <1>1
  <2> QED BY <1>3, <2>1, NumbersUpTo
<1>5. buff'.used = 0 BY DEF EmptyRing, Ring
<1>6. Sound(buff)'
  <2>1. Fits(0, 0, 0, 0) BY DEF Fits
  <2>2. NoCells \in [0..(0 - 1) -> Nat] BY DEF NoCells
  <2>3. Sound(EmptyRing) BY <2>1, <2>2, SoundRing DEF EmptyRing
  <2> QED BY <2>3 DEF Sound
<1>7. Follow(buff, Len(left))' BY <1>5 DEF Follow
<1>8. came' = Len(left') + buff'.used
  <2>1. came = n + buff.used BY DEF DataInv, OrderInv, n
  <2> QED BY <1>4, <1>5, <2>1
<1>9. came' \in 0..Bytes BY DEF DataInv
<1> QED BY <1>3, <1>4, <1>6, <1>7, <1>8, <1>9 DEF DataInv, OrderInv

\* A larger memory for the same bytes.
LEMMA DataResized ==
  ASSUME DataInv, NEW size \in Nat, buff' = Resize(buff, size), UNCHANGED <<came, left>>
  PROVE  DataInv'
<1>1. /\ Len(left) \in Nat /\ Sound(buff) /\ Follow(buff, Len(left))
      /\ came = Len(left) + buff.used
  BY DEF DataInv, OrderInv
<1>2. Sound(buff') /\ Follow(buff', Len(left)) /\ buff'.used = buff.used
  BY <1>1, Growing
<1>3. Sound(buff)' /\ Follow(buff, Len(left))' BY <1>2 DEF Sound, Follow
<1> QED BY <1>1, <1>2, <1>3 DEF DataInv, OrderInv

\* What DataInv says in the words of the properties.
LEMMA DataMeans ==
  ASSUME DataInv
  PROVE  InOrder /\ left \in Seq(1..Bytes) /\ buff.used \in 0..came /\ Len(left) <= came
<1>1. /\ Len(left) \in Nat /\ Sound(buff) /\ Follow(buff, Len(left)) /\ left = Numbers(0, Len(left))
      /\ came = Len(left) + buff.used /\ came \in 0..Bytes /\ buff.used \in Nat
  BY DEF DataInv, OrderInv, Sound
<1>2. InOrder
  <2>1. Contents(buff) = Numbers(Len(left), buff.used) BY <1>1, ContentsNumbers
  <2>2. Numbers(0, Len(left)) \o Numbers(Len(left), buff.used) = Numbers(0, Len(left) + buff.used)
    BY <1>1, NumbersJoin
  <2> QED BY <1>1, <2>1, <2>2 DEF InOrder
<1>3. left \in Seq(1..Bytes)
  <2>1. left = [i \in 1..Len(left) |-> i] BY <1>1 DEF Numbers
  <2>2. \A i \in 1..Len(left) : i \in 1..Bytes BY <1>1, TransferAssumption
  <2>3. left \in [1..Len(left) -> 1..Bytes]
    <3> DEFINE n == Len(left)
    <3>1. left = [i \in 1..n |-> i] /\ \A i \in 1..n : i \in 1..Bytes BY <2>1, <2>2
    <3> HIDE DEF n
    <3>2. left \in [1..n -> 1..Bytes] BY <3>1
    <3> QED BY <3>2 DEF n
  <2> QED BY <1>1, <2>3, SeqDef
<1> QED BY <1>1, <1>2, <1>3

-----------------------------------------------------------------------------
(* What the calls count and return.                                        *)

CallsInv == CallInv /\ SendReportsSent /\ SentEnough /\ ZeroMeansEnd

\* How many bytes a write or a send can pass to the system, and a recv ask for.
LEMMA ReadSize ==
  ASSUME NEW r, Sound(r)
  PROVE  /\ ContReadSize(r) \in 0..r.used /\ (ContReadSize(r) = 0 => r.used = 0)
         /\ r.used \in Nat
<1>1. PICK m, u, rd, w \in Nat : r.max = m /\ r.used = u /\ r.read = rd /\ r.write = w
  BY SoundParts DEF Fits
<1>2. Fits(m, u, rd, w) BY <1>1, SoundParts
<1> QED BY <1>1, <1>2 DEF ContReadSize, Fits

LEMMA WriteSize ==
  ASSUME NEW r, Sound(r), r.max > 0
  PROVE  /\ ContWriteSize(r) \in Nat
         /\ ContWriteSize(r) = 0 => IdleSize(r) = 0 /\ r.used = r.max - 1
<1>1. PICK m, u, rd, w \in Nat : r.max = m /\ r.used = u /\ r.read = rd /\ r.write = w
  BY SoundParts DEF Fits
<1>2. Fits(m, u, rd, w) BY <1>1, SoundParts
<1>3. IdleSize(r) = m - 1 - u BY <1>1, <1>2 DEF IdleSize
<1> QED BY <1>1, <1>2, <1>3 DEF ContWriteSize, Fits

\* A call that begins.
LEMMA CallBegins ==
  ASSUME DataInv', NEW f \in {"read", "write", "send"}, NEW n \in Requests, call' = Calling(f, n)
  PROVE  CallsInv'
<1>1. n \in Nat /\ n < SizeMod /\ SizeMod \in Nat \ {0} BY TransferAssumption
<1>2. n % SizeMod = n BY <1>1
<1>3. Len(left') \in Nat BY DEF DataInv
<1>4. call' = [f |-> f, n |-> n, remain |-> n, moved |-> 0, ret |-> 0, busy |-> TRUE]
  BY <1>2 DEF Calling
<1> QED BY <1>1, <1>3, <1>4 DEF CallsInv, CallInv, Calls, SendReportsSent, SentEnough, ZeroMeansEnd

\* What the program does with the buffer itself.
LEMMA CallDone ==
  ASSUME DataInv', NEW f \in {"write_string", "read_string", "clear"}, call' = Done(f)
  PROVE  CallsInv'
<1>1. 0 % SizeMod = 0 BY TransferAssumption
<1>2. call' = [f |-> f, n |-> 0, remain |-> 0, moved |-> 0, ret |-> 0, busy |-> FALSE]
  BY <1>1 DEF Done, Calling, Returned
<1>3. 0 \in 0..(SizeMod - 1) BY TransferAssumption
<1> QED BY <1>2, <1>3 DEF CallsInv, CallInv, Calls, SendReportsSent, SentEnough, ZeroMeansEnd

\* A system call that fails.
LEMMA CallFails ==
  ASSUME CallsInv, Fails
  PROVE  CallsInv'
<1>1. call' = [call EXCEPT !.ret = -1, !.busy = FALSE] /\ call \in Calls /\ call.f \in {"read", "write", "send"}
  BY DEF Fails, Returned, CallsInv, CallInv
<1>2. call' = [f |-> call.f, n |-> call.n, remain |-> call.remain, moved |-> call.moved,
               ret |-> -1, busy |-> FALSE]
  BY <1>1 DEF Calls
<1>3. call' \in Calls
  <2>1. -1 \in Int OBVIOUS
  <2>2. call.n \in Requests \cup {0} /\ call.remain \in 0..(SizeMod - 1) /\ call.moved \in Nat
    BY <1>1 DEF Calls
  <2> QED BY <1>1, <1>2, <2>1, <2>2 DEF Calls
<1> QED BY <1>1, <1>2, <1>3 DEF CallsInv, CallInv, Calls, SendReportsSent, SentEnough, ZeroMeansEnd

\* recv, which returns what it has taken in.
LEMMA CallRecv ==
  ASSUME DataInv, DataInv', NEW n \in Requests,
         NEW k \in Available(ContWriteSize(Resize(buff, n + 1))), Recv(n, k)
  PROVE  CallsInv'
<1> DEFINE g == Resize(buff, n + 1)
<1>1. n \in Nat /\ n < SizeMod /\ SizeMod \in Nat \ {0} /\ n % SizeMod = n /\ Bytes \in Nat
  <2>1. n \in Nat /\ n < SizeMod /\ SizeMod \in Nat \ {0} /\ Bytes \in Nat BY TransferAssumption
  <2> QED BY <2>1
<1>2. /\ Sound(g) /\ Follow(g, Len(left)) /\ g.used = buff.used /\ g.max >= n + 1
  <2>1. n + 1 \in Nat BY <1>1
  <2>2. Sound(buff) /\ Len(left) \in Nat /\ Follow(buff, Len(left)) BY DEF DataInv, OrderInv
  <2> QED BY <2>1, <2>2, Growing
<1>3. k \in Nat /\ buff'.max = g.max /\ buff'.used = g.used + k /\ came' = came + k
  <2> HIDE DEF g
  <2>1. k \in Available(ContWriteSize(g)) /\ buff' = TakeIn(g, k) /\ came' = came + k /\ left' = left
    BY DEF Recv, g
  <2> QED BY <1>2, <2>1, DataTaken
<1>4. call' = [f |-> "recv", n |-> n, remain |-> n, moved |-> k, ret |-> k, busy |-> FALSE]
  BY <1>1 DEF Recv, Calling, Returned
<1>5. CallInv' BY <1>1, <1>3, <1>4 DEF CallInv, Calls
<1>6. ASSUME k = 0 PROVE came' = Bytes \/ (IdleSize(buff') = 0 /\ buff'.used >= n)
  <2> HIDE DEF g
  <2>1. g.max \in Nat /\ g.max > 0 /\ g.used \in Nat /\ came \in 0..Bytes
    BY <1>1, <1>2 DEF Sound, DataInv
  <2>2. ContWriteSize(g) \in Nat /\ (ContWriteSize(g) = 0 => IdleSize(g) = 0 /\ g.used = g.max - 1)
    BY <1>2, <2>1, WriteSize
  <2>3. ContWriteSize(g) = 0 \/ came = Bytes
    <3>1. 0 \in Available(ContWriteSize(g)) BY <1>6 DEF g
    <3> QED BY <1>1, <2>1, <2>2, <3>1 DEF Available, Smaller
  <2>4. CASE came = Bytes BY <1>3, <1>6, <2>1, <2>4
  <2>5. CASE ContWriteSize(g) = 0
    <3>1. buff'.max = g.max /\ buff'.used = g.used BY <1>3, <1>6, <2>1
    <3>2. IdleSize(buff') = IdleSize(g) BY <3>1 DEF IdleSize
    <3> QED BY <1>1, <1>2, <2>1, <2>2, <2>5, <3>1, <3>2
  <2> QED BY <2>3, <2>4, <2>5
<1>7. ZeroMeansEnd' BY <1>4, <1>6 DEF ZeroMeansEnd, IdleSize
<1> QED BY <1>4, <1>5, <1>7 DEF CallsInv, SendReportsSent, SentEnough

\* recv whose system call fails, and a member function that refuses to run.
LEMMA CallRefused ==
  ASSUME NEW f \in {"read", "recv", "write", "send"}, NEW n \in Requests,
         NEW ret \in {0, -1}, ret = 0 => f = "write", call' = Returned(Calling(f, n), ret)
  PROVE  CallsInv'
<1>1. n \in Nat /\ n < SizeMod /\ SizeMod \in Nat \ {0} BY TransferAssumption
<1>2. n % SizeMod = n BY <1>1
<1>3. call' = [f |-> f, n |-> n, remain |-> n, moved |-> 0, ret |-> ret, busy |-> FALSE]
  BY <1>2 DEF Calling, Returned
<1>4. call' \in Calls BY <1>1, <1>3 DEF Calls
<1> QED BY <1>3, <1>4 DEF CallsInv, CallInv, SendReportsSent, SentEnough, ZeroMeansEnd

\* A step of the loop of read.
LEMMA CallReads ==
  ASSUME DataInv', CallsInv, NEW k \in Nat, ReadSome(k)
  PROVE  CallsInv'
<1> DEFINE r == TakeIn(buff, k)
           c == [call EXCEPT !.remain = (@ - k) % SizeMod, !.moved = @ + k]
<1>1. /\ call \in Calls /\ call.busy /\ call.f = "read" /\ buff' = r
      /\ call' = IF k = 0 \/ IdleSize(r) = 0 \/ c.remain = 0 THEN Returned(c, r.used) ELSE c
  BY DEF ReadSome, AfterMoving, CallsInv, CallInv
<1>2. r.used \in Nat
  <2>1. buff'.used \in Nat BY DEF DataInv, Sound
  <2> QED BY <1>1, <2>1
<1> DEFINE R == (call.remain - k) % SizeMod
           M == call.moved + k
<1>3. R \in 0..(SizeMod - 1) /\ M \in Nat
  <2>1. call.remain - k \in Int /\ M \in Nat BY <1>1 DEF Calls
  <2> QED BY <2>1, TransferAssumption
<1>4. c = [call EXCEPT !.remain = R, !.moved = M] OBVIOUS
<1> HIDE DEF r, R, M, c
<1>7. c = [f |-> "read", n |-> call.n, remain |-> R, moved |-> M, ret |-> call.ret, busy |-> TRUE]
  BY <1>1, <1>4 DEF Calls
<1>8. c \in Calls BY <1>1, <1>3, <1>7 DEF Calls
<1>9. /\ call' \in Calls /\ call'.f = "read"
  <2>1. Returned(c, r.used) =
          [f |-> "read", n |-> call.n, remain |-> R, moved |-> M, ret |-> r.used, busy |-> FALSE]
    <3> DEFINE q == Returned(c, r.used)
    <3>1. q = Returned(c, r.used) OBVIOUS
    <3> HIDE DEF q
    <3>2. q = [f |-> "read", n |-> call.n, remain |-> R, moved |-> M, ret |-> r.used, busy |-> FALSE]
      BY <1>7, <3>1 DEF Returned
    <3> QED BY <3>1, <3>2
  <2>2. Returned(c, r.used) \in Calls BY <1>1, <1>2, <1>3, <2>1 DEF Calls
  <2> QED BY <1>1, <1>7, <1>8, <2>1, <2>2
<1> QED BY <1>9 DEF CallsInv, CallInv, SendReportsSent, SentEnough, ZeroMeansEnd

\* A step of the loop of write or send.
LEMMA CallSends ==
  ASSUME DataInv, DataInv', CallsInv, NEW k \in Accepted(ContReadSize(buff)), SendSome(k),
         Len(left)' = Len(left) + k, buff'.used = buff.used - k
  PROVE  CallsInv'
<1> DEFINE r == UpdateReadPos(buff, k)
           N == call.n
           M == call.moved
           R == call.remain
           R2 == (R - k) % SizeMod
           ret == IF call.f = "write" THEN N ELSE (N - (R - k)) % SizeMod
           c == [call EXCEPT !.remain = (@ - k) % SizeMod, !.moved = @ + k]
<1>1. /\ call \in Calls /\ call.busy /\ call.f \in {"send", "write"} /\ buff' = r
      /\ call' = IF k = 0 \/ IdleSize(r) = 0 \/ c.remain = 0 THEN Returned(c, ret) ELSE c
  BY DEF SendSome, AfterMoving, CallsInv, CallInv
<1>2. M <= Len(left) /\ R = N - M + (IF N < M THEN SizeMod ELSE 0)
  BY <1>1 DEF CallsInv, CallInv
<1>3. SizeMod \in Nat \ {0} /\ N \in Nat /\ N < SizeMod /\ M \in Nat /\ Bytes < SizeMod /\ Bytes \in Nat
  BY <1>1, TransferAssumption DEF Calls
<1>4. k \in 0..buff.used /\ (k = 0 => buff.used = 0) /\ buff.used \in Nat
  <2>1. ContReadSize(buff) \in 0..buff.used /\ (ContReadSize(buff) = 0 => buff.used = 0)
        /\ buff.used \in Nat
    BY ReadSize DEF DataInv
  <2> QED BY <2>1 DEF Accepted
<1>5. M + k <= Len(left)' /\ Len(left)' <= Bytes /\ k \in Nat /\ Len(left)' \in Nat
  <2>1. Len(left') \in Nat /\ came' = Len(left') + buff'.used /\ came' \in 0..Bytes /\ buff'.used \in Nat
    BY DEF DataInv, OrderInv, Sound
  <2>2. Len(left) \in Nat BY DEF DataInv
  <2> QED BY <1>2, <1>3, <1>4, <2>1, <2>2
<1>6. M + k < SizeMod BY <1>3, <1>5
<1> HIDE DEF N, M, R
<1> HIDE DEF c
<1>7. /\ (R - k) % SizeMod = N - (M + k) + (IF N < M + k THEN SizeMod ELSE 0)
      /\ (N - (R - k)) % SizeMod = M + k
      /\ (R - k) % SizeMod = 0 => N = M + k
  <2> DEFINE s == SizeMod
  <2>1. /\ s \in Nat \ {0} /\ N \in Nat /\ M \in Nat /\ k \in Nat /\ N < s /\ M + k < s
        /\ R = N - M + (IF N < M THEN s ELSE 0)
    BY <1>2, <1>3, <1>5, <1>6
  <2> HIDE DEF s
  <2>2. /\ (R - k) % s = N - (M + k) + (IF N < M + k THEN s ELSE 0)
        /\ (N - (R - k)) % s = M + k
        /\ (R - k) % s = 0 => N = M + k
    <3> DEFINE x == R - k
               y == N - (R - k)
    <3>1. x \in Int /\ -s <= x /\ x < 2 * s BY <2>1
    <3>2. y \in Int /\ -s <= y /\ y < 2 * s BY <2>1
    <3>3. x % s = IF x < 0 THEN x + s ELSE IF x < s THEN x ELSE x - s BY <2>1, <3>1, Wrap
    <3>4. y % s = IF y < 0 THEN y + s ELSE IF y < s THEN y ELSE y - s BY <2>1, <3>2, Wrap
    <3> QED BY <2>1, <3>3, <3>4
  <2> QED BY <2>2 DEF s
<1>8. c = [f |-> call.f, n |-> N, remain |-> R2, moved |-> M + k, ret |-> call.ret, busy |-> TRUE]
  <2> DEFINE M2 == M + k
  <2>1. c = [call EXCEPT !.remain = R2, !.moved = M2] BY DEF c, R, M
  <2> HIDE DEF R2, M2
  <2>2. c = [f |-> call.f, n |-> N, remain |-> R2, moved |-> M2, ret |-> call.ret, busy |-> TRUE]
    BY <1>1, <2>1 DEF Calls, N
  <2> QED BY <2>2 DEF M2
<1>9. R2 \in 0..(SizeMod - 1) /\ M + k \in Nat /\ ret \in Int
  BY <1>3, <1>5, <1>6, <1>7
<1> DEFINE d == [f |-> call.f, n |-> N, remain |-> R2, moved |-> M + k, ret |-> ret, busy |-> FALSE]
<1> HIDE DEF R2, ret, r
<1>10. Returned(c, ret) = d
  <2> DEFINE q == Returned(c, ret)
             M2 == M + k
  <2>1. q = Returned(c, ret) OBVIOUS
  <2> HIDE DEF q, M2
  <2>2. c = [f |-> call.f, n |-> N, remain |-> R2, moved |-> M2, ret |-> call.ret, busy |-> TRUE]
    BY <1>8 DEF M2
  <2>3. q = [f |-> call.f, n |-> N, remain |-> R2, moved |-> M2, ret |-> ret, busy |-> FALSE]
    BY <2>1, <2>2 DEF Returned
  <2> QED BY <2>1, <2>3 DEF M2
<1>11. c \in Calls /\ d \in Calls
  BY <1>1, <1>8, <1>9 DEF Calls, N
<1>12. CASE k = 0 \/ IdleSize(r) = 0 \/ R2 = 0
  <2>1. call' = d BY <1>1, <1>8, <1>10, <1>12
  <2>2. R2 = 0 => N = M + k BY <1>7 DEF R2
  <2>3. IdleSize(r) = 0 => r.used = 0 \/ k = 0
    <3>1. PICK m, u, rd, w \in Nat : buff'.max = m /\ buff'.used = u /\ buff'.read = rd /\ buff'.write = w
      BY SoundParts DEF Fits, DataInv
    <3>2. Fits(m, u, rd, w) BY <3>1, SoundParts DEF DataInv
    <3>3. IdleSize(r) = IF m = 0 THEN 0 ELSE m - 1 - u BY <1>1, <3>1 DEF IdleSize
    <3>4. buff.max = m
      <4>1. Sound(buff) /\ Follow(buff, Len(left)) /\ Len(left) \in Nat BY DEF DataInv, OrderInv
      <4>2. r.max = buff.max BY <1>4, <4>1, Emptying DEF r
      <4> QED BY <1>1, <3>1, <4>2
    <3>5. m = 0 \/ buff.used < m
      <4>1. Fits(buff.max, buff.used, buff.read, buff.write) BY SoundParts DEF DataInv
      <4> QED BY <3>4, <4>1 DEF Fits
    <3> QED BY <1>1, <1>4, <3>1, <3>2, <3>3, <3>5 DEF Fits
  <2>4. k = 0 => r.used = 0 BY <1>1, <1>4
  <2>5. SentEnough' BY <1>1, <1>3, <1>5, <1>12, <2>1, <2>2, <2>3, <2>4 DEF SentEnough
  <2>6. SendReportsSent'
    <3>1. call.f = "send" => ret = M + k BY <1>7 DEF ret
    <3> QED BY <2>1, <3>1 DEF SendReportsSent
  <2>7. call' \in Calls /\ ~call'.busy /\ call'.f # "recv"
    <3>1. call' \in Calls BY <1>11, <2>1
    <3>2. call'.busy = FALSE /\ call'.f = call.f BY <2>1
    <3> QED BY <1>1, <3>1, <3>2
  <2> QED BY <2>5, <2>6, <2>7 DEF CallsInv, CallInv, ZeroMeansEnd
<1>13. CASE ~(k = 0 \/ IdleSize(r) = 0 \/ R2 = 0)
  <2>1. call' = c BY <1>1, <1>8, <1>13
  <2>2. call'.f = call.f /\ call'.moved = M + k /\ call'.n = N /\ call'.remain = R2 /\ call'.busy
    BY <1>8, <2>1
  <2>3. CallInv' BY <1>1, <1>5, <1>7, <1>11, <2>1, <2>2 DEF CallInv, R2
  <2> QED BY <2>2, <2>3 DEF CallsInv, SendReportsSent, SentEnough, ZeroMeansEnd
<1> QED BY <1>12, <1>13

-----------------------------------------------------------------------------
(* What an iterator sees.                                                  *)

\* How far a position is from the first unread byte, without the modulus.
Far(m, rd, p) == p - rd + (IF p < rd THEN m ELSE 0)

LEMMA DistanceIs ==
  ASSUME NEW m \in Nat \ {0}, NEW rd \in 0..(m - 1), NEW p \in 0..(m - 1)
  PROVE  (p - rd) % m = Far(m, rd, p)
<1> DEFINE x == p - rd
<1>1. x \in Int /\ -m <= x /\ x < 2 * m OBVIOUS
<1>2. x % m = IF x < 0 THEN x + m ELSE IF x < m THEN x ELSE x - m BY <1>1, Wrap
<1> QED BY <1>2 DEF Far

\* check_iterator passes where an unread byte is.
LEMMA CheckIs ==
  ASSUME NEW r, NEW m \in Nat \ {0}, NEW u \in Nat, NEW rd \in Nat, NEW w \in Nat,
         r.max = m, r.used = u, r.read = rd, r.write = w, Fits(m, u, rd, w),
         NEW p \in 0..(m - 1)
  PROVE  Check(r, p) <=> Far(m, rd, p) < u
BY DEF Check, Far, Fits

LEMMA OrderStep == DataInv => OrderErrsOneWay
<1> SUFFICES ASSUME DataInv, NEW p \in Positions, NEW q \in Positions,
                    Distance(p) < buff.used, Distance(q) <= buff.used
             PROVE  /\ Less(buff, p, q) => Distance(p) < Distance(q)
                    /\ LessOrEqual(buff, p, q) => Distance(p) <= Distance(q)
                    /\ Distance(p) > Distance(q) => Greater(buff, p, q)
                    /\ Distance(p) >= Distance(q) => GreaterOrEqual(buff, p, q)
                    /\ buff.read <= buff.write =>
                         /\ Less(buff, p, q) <=> Distance(p) < Distance(q)
                         /\ LessOrEqual(buff, p, q) <=> Distance(p) <= Distance(q)
                         /\ Greater(buff, p, q) <=> Distance(p) > Distance(q)
                         /\ GreaterOrEqual(buff, p, q) <=> Distance(p) >= Distance(q)
  BY DEF OrderErrsOneWay
<1>1. PICK m, u, rd, w \in Nat : buff.max = m /\ buff.used = u /\ buff.read = rd /\ buff.write = w
  BY SoundParts DEF Fits, DataInv
<1>2. Fits(m, u, rd, w) BY <1>1, SoundParts DEF DataInv
<1>3. m \in Nat \ {0} /\ p \in 0..(m - 1) /\ q \in 0..(m - 1) /\ rd \in 0..(m - 1)
  BY <1>1, <1>2 DEF Positions, Fits
<1> DEFINE P == Far(m, rd, p)
           Q == Far(m, rd, q)
<1>4. Distance(p) = P /\ Distance(q) = Q BY <1>1, <1>3, DistanceIs DEF Distance
<1>5. P < u /\ Q <= u /\ P \in Int /\ Q \in Int BY <1>1, <1>3, <1>4 DEF Far
<1>6. p >= rd /\ p < q => P < Q BY <1>2, <1>3, <1>5 DEF Far, Fits
<1>7. p = q => P = Q OBVIOUS
<1>8. q < p /\ rd <= w => Q < P BY <1>2, <1>3, <1>5 DEF Far, Fits
<1>9. rd <= w => p >= rd BY <1>2, <1>3, <1>5 DEF Far, Fits
<1> HIDE DEF P, Q
<1>10. p < q \/ p = q \/ q < p BY <1>3
<1>11. p < rd \/ p >= rd BY <1>3
<1>12. Less(buff, p, q) <=> p < q /\ p >= rd BY <1>1 DEF Less
<1>13. LessOrEqual(buff, p, q) <=> p = q \/ (p < q /\ p >= rd) BY <1>1 DEF LessOrEqual
<1>14. Greater(buff, p, q) <=> q < p \/ (p < q /\ p < rd) BY <1>1, <1>3 DEF Greater
<1>15. GreaterOrEqual(buff, p, q) <=> q < p \/ p = q \/ (p < q /\ p < rd)
  BY <1>1, <1>3 DEF GreaterOrEqual
<1>16. buff.read <= buff.write <=> rd <= w BY <1>1
<1> QED BY <1>3, <1>4, <1>5, <1>6, <1>7, <1>8, <1>9, <1>10, <1>11, <1>12, <1>13, <1>14, <1>15, <1>16

\* The k-th position from begin(); the last is end().
Nth(m, rd, k) == rd + k - (IF rd + k < m THEN 0 ELSE m)

\* One ++, from an unread byte to the next position, and then no further.
LEMMA MoveIs ==
  ASSUME NEW r, NEW m \in Nat \ {0}, NEW u \in Nat, NEW rd \in Nat, NEW w \in Nat,
         r.max = m, r.used = u, r.read = rd, r.write = w, Fits(m, u, rd, w),
         NEW k \in 0..u
  PROVE  Move(r, Nth(m, rd, k), 1) = IF k < u THEN Nth(m, rd, k + 1) ELSE w
<1> DEFINE p == Nth(m, rd, k)
           n == Nth(m, rd, k + 1)
<1>1. p \in 0..(m - 1) /\ Far(m, rd, p) = k
  BY DEF Nth, Far, Fits
<1>2. Check(r, p) <=> k < u
  <2> HIDE DEF p
  <2>1. Check(r, p) <=> Far(m, rd, p) < u BY <1>1, CheckIs
  <2> QED BY <1>1, <2>1
<1>3. CASE k = u
  <2>1. Move(r, p, 1) = w
    <3> HIDE DEF p
    <3> QED BY <1>2, <1>3 DEF Move, End
  <2> QED BY <1>3, <2>1
<1>4. CASE k < u
  <2>1. (p + m + 1) % m = n
    <3> DEFINE y == (p + m + 1) - m
    <3>1. (p + m + 1) \in m..(2 * m) BY <1>1
    <3>2. n = IF p + 1 = m THEN 0 ELSE p + 1 BY <1>4 DEF Nth, Fits
    <3>3. CASE p + 1 = m
      <4>1. p + m + 1 = 2 * m BY <3>3, <1>1
      <4>2. (2 * m) % m = 0 OBVIOUS
      <4> QED BY <3>2, <3>3, <4>1, <4>2
    <3>4. CASE p + 1 # m
      <4> DEFINE x == p + m + 1
      <4>1. x \in Int /\ -m <= x /\ x < 2 * m /\ x >= m BY <1>1, <3>4
      <4>2. x % m = IF x < 0 THEN x + m ELSE IF x < m THEN x ELSE x - m BY <4>1, Wrap
      <4> QED BY <1>1, <3>2, <3>4, <4>1, <4>2
    <3> QED BY <3>3, <3>4
  <2>2. n \in 0..(m - 1) /\ Far(m, rd, n) = k + 1 /\ (k + 1 = u => n = w)
    BY <1>4 DEF Nth, Far, Fits
  <2> HIDE DEF p, n
  <2>3. Move(r, p, 1) = Clamp(r, n) BY <1>2, <1>4, <2>1 DEF Move
  <2>4. Check(r, n) <=> k + 1 < u
    <3>1. Check(r, n) <=> Far(m, rd, n) < u BY <2>2, CheckIs
    <3> QED BY <2>2, <3>1
  <2>5. Clamp(r, n) = n BY <1>4, <2>2, <2>4 DEF Clamp, End
  <2> QED BY <1>4, <2>3, <2>5 DEF p, n
<1> QED BY <1>3, <1>4

\* The least number of a set.
LEMMA Least ==
  ASSUME NEW S, S \subseteq Nat, S # {}
  PROVE  \E n \in S : \A m \in S : n <= m
<1> DEFINE R == OpToRel(<, Nat)
<1>1. IsWellFoundedOn(R, Nat) BY NatLessThanWellFounded
<1>2. \A i, j \in Nat : i < j => <<i, j>> \in R
  BY DEF OpToRel
<1> HIDE DEF R
<1>3. PICK n \in S : \A m \in S : ~(<<m, n>> \in R)
  <2>1. \E n \in S : \A m \in S : ~(<<m, n>> \in R) BY <1>1, WFMin
  <2> QED BY <2>1
<1>4. ASSUME NEW m \in S PROVE n <= m
  <2>1. m \in Nat /\ n \in Nat OBVIOUS
  <2>2. ~(m < n) BY <1>2, <1>3, <2>1
  <2> QED BY <2>1, <2>2
<1> QED BY <1>4

\* Induction over the naturals, with a set in place of a predicate.
LEMMA Induction ==
  ASSUME NEW S, 0 \in S, \A n \in Nat : n \in S => n + 1 \in S
  PROVE  Nat \subseteq S
<1> DEFINE T == Nat \ S
<1> SUFFICES ASSUME T # {} PROVE FALSE OBVIOUS
<1>1. PICK n \in T : \A m \in T : n <= m BY Least
<1>2. n # 0 /\ n - 1 \in Nat OBVIOUS
<1>3. n - 1 \in S BY <1>1, <1>2
<1> QED BY <1>2, <1>3

\* The positions an iterator is at after 0, 1, ... steps from begin().
Way(r) ==
  LET at[k \in 0..(r.used + 1)] == IF k = 0 THEN Begin(r) ELSE Move(r, at[k - 1], 1)
  IN  at

\* They go along the unread bytes, and then it stays at the end.
LEMMA StepsFromBegin ==
  ASSUME NEW r, NEW m \in Nat \ {0}, NEW u \in Nat, NEW rd \in Nat, NEW w \in Nat,
         r.max = m, r.used = u, r.read = rd, r.write = w, Fits(m, u, rd, w),
         NEW n \in 0..(u + 1)
  PROVE  Way(r)[n] = IF n <= u THEN Nth(m, rd, n) ELSE w
<1> DEFINE Rec(g) == [k \in 0..(u + 1) |-> IF k = 0 THEN Begin(r) ELSE Move(r, g[k - 1], 1)]
           place(k) == IF k <= u THEN Nth(m, rd, k) ELSE w
           f == [k \in 0..(u + 1) |-> place(k)]
<1>1. place(0) = Begin(r) BY DEF Nth, Fits, Begin
<1>2. ASSUME NEW k \in 0..u PROVE place(k + 1) = Move(r, place(k), 1)
  <2>1. k <= u /\ (k + 1 <= u <=> k < u) OBVIOUS
  <2> QED BY <2>1, MoveIs
<1>3. f = Rec(f)
  <2>1. ASSUME NEW k \in 0..(u + 1) PROVE f[k] = Rec(f)[k]
    <3>1. CASE k = 0 BY <1>1, <3>1
    <3>2. CASE k # 0
      <4>1. k - 1 \in 0..u /\ (k - 1) + 1 = k /\ k - 1 \in 0..(u + 1) BY <3>2
      <4>2. f[k - 1] = place(k - 1) /\ f[k] = place(k) BY <4>1
      <4> HIDE DEF place
      <4> QED BY <1>2, <3>2, <4>1, <4>2
    <3> QED BY <3>1, <3>2
  <2> QED BY <2>1
<1> DEFINE at == Way(r)
<1>4. at = Rec(at)
  <2>1. at = CHOOSE g : g = Rec(g) BY DEF Way
  <2> HIDE DEF Rec, f
  <2> QED BY <1>3, <2>1
<1> DEFINE S == {k \in Nat : k <= u + 1 => at[k] = place(k)}
<1> HIDE DEF place, at
<1>5. 0 \in S BY <1>1, <1>4
<1>6. \A k \in Nat : k \in S => k + 1 \in S
  <2> SUFFICES ASSUME NEW k \in Nat, k <= u + 1 => at[k] = place(k), k + 1 <= u + 1
               PROVE  at[k + 1] = place(k + 1)
    OBVIOUS
  <2>1. k \in 0..u /\ k + 1 \in 0..(u + 1) /\ k + 1 # 0 /\ (k + 1) - 1 = k /\ k <= u + 1 OBVIOUS
  <2>2. \A i \in 0..(u + 1) : at[i] = IF i = 0 THEN Begin(r) ELSE Move(r, at[i - 1], 1)
    BY <1>4
  <2>3. at[k + 1] = Move(r, at[k], 1) BY <2>1, <2>2
  <2> QED BY <1>2, <2>1, <2>3
<1>7. n \in S
  <2>1. n \in Nat OBVIOUS
  <2>2. Nat \subseteq S BY <1>5, <1>6, Induction
  <2> QED BY <2>1, <2>2
<1> QED BY <1>7 DEF place, at

LEMMA IteratorsStep == DataInv => IteratorsSeeContents
<1> SUFFICES ASSUME DataInv, buff.max > 0 PROVE IteratorsSeeContents
  BY DEF IteratorsSeeContents
<1>1. PICK m, u, rd, w \in Nat : buff.max = m /\ buff.used = u /\ buff.read = rd /\ buff.write = w
  BY SoundParts DEF Fits, DataInv
<1>2. Fits(m, u, rd, w) BY <1>1, SoundParts DEF DataInv
<1>3. m \in Nat \ {0} /\ rd \in 0..(m - 1) /\ w \in 0..(m - 1) BY <1>1, <1>2 DEF Fits
<1>4. buff = Ring(m, u, rd, w, buff.cell) BY <1>1, SoundParts DEF DataInv
<1> DEFINE at == Way(buff)
<1>5. \A n \in 0..(u + 1) : at[n] = IF n <= u THEN Nth(m, rd, n) ELSE w
  BY <1>1, <1>2, <1>3, StepsFromBegin
<1> HIDE DEF at
<1>6. \A p \in Positions : Check(buff, p) <=> Distance(p) < buff.used
  <2> SUFFICES ASSUME NEW p \in 0..(m - 1) PROVE Check(buff, p) <=> Distance(p) < buff.used
    BY <1>1 DEF Positions
  <2>1. Distance(p) = Far(m, rd, p) BY <1>1, <1>3, DistanceIs DEF Distance
  <2>2. Check(buff, p) <=> Far(m, rd, p) < u BY <1>1, <1>2, <1>3, CheckIs
  <2> QED BY <1>1, <2>1, <2>2
<1>7. \A k \in 1..buff.used : buff.cell[at[k - 1]] = Contents(buff)[k]
  <2> SUFFICES ASSUME NEW k \in 1..u PROVE buff.cell[at[k - 1]] = Contents(buff)[k]
    BY <1>1
  <2>1. Contents(buff)[k] = buff.cell[Cell(m, rd, k)] BY <1>2, <1>4, ContentsAt
  <2>2. at[k - 1] = Nth(m, rd, k - 1)
    <3> DEFINE i == k - 1
    <3>1. i \in 0..(u + 1) /\ i <= u OBVIOUS
    <3> HIDE DEF i
    <3>2. at[i] = Nth(m, rd, i) BY <1>5, <3>1
    <3> QED BY <3>2 DEF i
  <2>3. Nth(m, rd, k - 1) = Cell(m, rd, k) BY <1>3 DEF Nth, Cell
  <2> QED BY <2>1, <2>2, <2>3
<1>8. at[buff.used] = End(buff) /\ at[buff.used + 1] = End(buff)
  <2>1. Nth(m, rd, u) = w BY <1>2 DEF Nth, Fits
  <2>2. u \in 0..(u + 1) /\ u + 1 \in 0..(u + 1) /\ u <= u /\ ~(u + 1 <= u) OBVIOUS
  <2>3. at[u] = w /\ at[u + 1] = w BY <1>5, <2>1, <2>2
  <2> QED BY <1>1, <2>3 DEF End
<1> QED BY <1>6, <1>7, <1>8 DEF IteratorsSeeContents, at, Way

-----------------------------------------------------------------------------
(* The theorems.                                                           *)

LEMMA TransferInit == Init => DataInv /\ CallsInv
<1> SUFFICES ASSUME Init PROVE DataInv /\ CallsInv
  OBVIOUS
<1>1. buff = EmptyRing /\ came = 0 /\ left = << >> /\ call = Done("none") BY DEF Init
<1>2. buff.used = 0 BY <1>1 DEF EmptyRing, Ring
<1>3. Sound(buff)
  <2>1. Fits(0, 0, 0, 0) BY DEF Fits
  <2>2. NoCells \in [0..(0 - 1) -> Nat] BY DEF NoCells
  <2>3. Sound(EmptyRing) BY <2>1, <2>2, SoundRing DEF EmptyRing
  <2> QED BY <1>1, <2>3
<1>4. Len(left) = 0 /\ left = Numbers(0, Len(left))
  <2>1. Numbers(0, 0) = << >> BY DEF Numbers
  <2> QED BY <1>1, <2>1
<1>5. DataInv BY <1>1, <1>2, <1>3, <1>4, TransferAssumption DEF DataInv, OrderInv, Follow
<1>6. 0 % SizeMod = 0 /\ 0 \in 0..(SizeMod - 1) BY TransferAssumption
<1>7. call = [f |-> "none", n |-> 0, remain |-> 0, moved |-> 0, ret |-> 0, busy |-> FALSE]
  BY <1>1, <1>6 DEF Done, Calling, Returned
<1> QED BY <1>5, <1>6, <1>7 DEF CallsInv, CallInv, Calls, SendReportsSent, SentEnough, ZeroMeansEnd

LEMMA TransferStep == DataInv /\ CallsInv /\ [Next]_vars => DataInv' /\ CallsInv'
<1> SUFFICES ASSUME DataInv, CallsInv, [Next]_vars PROVE DataInv' /\ CallsInv'
  OBVIOUS
<1>1. /\ Len(left) \in Nat /\ Sound(buff) /\ Follow(buff, Len(left)) /\ buff.used \in Nat
      /\ SizeMod \in Nat \ {0} /\ Bytes \in Nat /\ \A n \in Requests : n \in Nat /\ n + 1 \in Nat
  BY TransferAssumption DEF DataInv, OrderInv, Sound
<1>2. ASSUME NEW k \in Available(ContWriteSize(buff)), ReadSome(k) PROVE DataInv' /\ CallsInv'
  <2>1. buff' = TakeIn(buff, k) /\ came' = came + k /\ left' = left BY <1>2 DEF ReadSome
  <2>2. DataInv' /\ k \in Nat BY <1>1, <2>1, DataTaken
  <2> QED BY <1>2, <2>2, CallReads
<1>3. ASSUME NEW k \in Accepted(ContReadSize(buff)), SendSome(k) PROVE DataInv' /\ CallsInv'
  <2>1. buff' = UpdateReadPos(buff, k) /\ came' = came /\ left' = left \o SubSeq(Contents(buff), 1, k)
    BY <1>3 DEF SendSome
  <2>2. k \in 0..buff.used
    <3>1. ContReadSize(buff) \in 0..buff.used BY <1>1, ReadSize
    <3> QED BY <1>1, <3>1 DEF Accepted
  <2>3. DataInv' /\ Len(left)' = Len(left) + k /\ buff'.used = buff.used - k BY <2>1, <2>2, DataGiven
  <2> QED BY <1>3, <2>3, CallSends
<1>4. CASE Fails
  <2>1. UNCHANGED <<buff, came, left>> BY <1>4 DEF Fails
  <2>2. DataInv' BY <2>1 DEF DataInv, OrderInv, Sound, Follow
  <2> QED BY <1>4, <2>2, CallFails
<1>5. CASE ReadString
  <2>1. buff' = UpdateReadPos(buff, buff.used) /\ came' = came /\ left' = left \o Contents(buff)
        /\ call' = Done("read_string")
    BY <1>5 DEF ReadString
  <2>2. Contents(buff) = SubSeq(Contents(buff), 1, buff.used) /\ buff.used \in 0..buff.used
    BY <1>1, ContentsNumbers
  <2>3. DataInv' BY <2>1, <2>2, DataGiven
  <2> QED BY <2>1, <2>3, CallDone
<1>6. CASE Clear
  <2>1. buff' = EmptyRing /\ came' = came /\ left' = left \o Contents(buff) /\ call' = Done("clear")
    BY <1>6 DEF Clear
  <2>2. DataInv' BY <2>1, DataCleared
  <2> QED BY <2>1, <2>2, CallDone
<1>7. ASSUME NEW n \in Requests, Read(n) PROVE DataInv' /\ CallsInv'
  <2>1. DataInv' BY <1>1, <1>7, DataResized DEF Read
  <2> QED BY <1>7, <2>1, CallBegins DEF Read
<1>8. ASSUME NEW n \in Requests, Start("write", n) \/ Start("send", n) PROVE DataInv' /\ CallsInv'
  <2>1. UNCHANGED <<buff, came, left>> BY <1>8 DEF Start
  <2>2. DataInv' BY <2>1 DEF DataInv, OrderInv, Sound, Follow
  <2> QED BY <1>8, <2>2, CallBegins DEF Start
<1>9. ASSUME NEW n \in Requests, WriteString(n) PROVE DataInv' /\ CallsInv'
  <2>1. DataInv' BY <1>9, DataPut DEF WriteString
  <2> QED BY <1>9, <2>1, CallDone DEF WriteString
<1>10. ASSUME NEW n \in Requests, NEW k \in Available(ContWriteSize(Resize(buff, n + 1))), Recv(n, k)
       PROVE  DataInv' /\ CallsInv'
  <2> DEFINE g == Resize(buff, n + 1)
  <2>1. buff' = TakeIn(g, k) /\ came' = came + k /\ left' = left BY <1>10 DEF Recv
  <2>2. Sound(g) /\ Follow(g, Len(left)) /\ g.used = buff.used BY <1>1, Growing
  <2>3. k \in Available(ContWriteSize(g)) OBVIOUS
  <2> HIDE DEF g
  <2>4. DataInv' BY <2>1, <2>2, <2>3, DataTaken
  <2> QED BY <1>10, <2>4, CallRecv
<1>11. ASSUME NEW n \in Requests, RecvFails(n) PROVE DataInv' /\ CallsInv'
  <2>1. DataInv' BY <1>1, <1>11, DataResized DEF RecvFails
  <2> QED BY <1>11, <2>1, CallRefused DEF RecvFails
<1>12. ASSUME NEW n \in Requests, NEW f \in {"read", "recv", "write", "send"}, Refused(f, n)
       PROVE  DataInv' /\ CallsInv'
  <2>1. UNCHANGED <<buff, came, left>> BY <1>12 DEF Refused
  <2>2. DataInv' BY <2>1 DEF DataInv, OrderInv, Sound, Follow
  <2>3. call' = Returned(Calling(f, n), IF f = "write" THEN 0 ELSE -1) BY <1>12 DEF Refused
  <2> QED BY <2>2, <2>3, CallRefused
<1>13. CASE UNCHANGED vars
  <2>1. UNCHANGED <<buff, came, left, call>> BY <1>13 DEF vars
  <2>2. DataInv' BY <2>1 DEF DataInv, OrderInv, Sound, Follow
  <2>3. CallsInv'
    BY <2>1 DEF CallsInv, CallInv, SendReportsSent, SentEnough, ZeroMeansEnd, IdleSize
  <2> QED BY <2>2, <2>3
<1> QED BY <1>2, <1>3, <1>4, <1>5, <1>6, <1>7, <1>8, <1>9, <1>10, <1>11, <1>12, <1>13
   DEF Next, Loop

LEMMA TransferInvariant == Spec => [](DataInv /\ CallsInv)
BY TransferInit, TransferStep, PTL DEF Spec

\* The positions of the ring lie in its memory and agree with the count of
\* unread bytes, after any mix of transfers (byte_buffer.cc).
THEOREM TypeCorrect == Spec => []TypeOK
<1>1. DataInv /\ CallsInv => TypeOK
  <2> SUFFICES ASSUME DataInv, CallsInv PROVE TypeOK
    OBVIOUS
  <2>1. PICK m, u, rd, w \in Nat : buff.max = m /\ buff.used = u /\ buff.read = rd /\ buff.write = w
    BY SoundParts DEF Fits, DataInv
  <2>2. Fits(m, u, rd, w) /\ buff.cell \in [0..(m - 1) -> Nat] BY <2>1, SoundParts DEF DataInv
  <2>3. came \in 0..Bytes /\ left \in Seq(1..Bytes) BY DataMeans DEF DataInv
  <2>4. call.remain \in 0..(SizeMod - 1) BY DEF CallsInv, CallInv, Calls
  <2>5. buff.max = 0 => buff = EmptyRing BY DEF DataInv, Sound
  <2>6. m > 0 => rd \in 0..(m - 1) /\ w \in 0..(m - 1) /\ u = (w - rd) % m
    <3> SUFFICES ASSUME m > 0 PROVE rd \in 0..(m - 1) /\ w \in 0..(m - 1) /\ u = (w - rd) % m
      OBVIOUS
    <3>1. m \in Nat \ {0} /\ rd \in 0..(m - 1) /\ w \in 0..(m - 1) /\ u = Far(m, rd, w)
      BY <2>2 DEF Fits, Far
    <3> QED BY <3>1, DistanceIs
  <2> QED BY <2>1, <2>2, <2>3, <2>4, <2>5, <2>6 DEF TypeOK
<1> QED BY <1>1, TransferInvariant, PTL

\* No byte is lost, repeated or reordered, for every number of bytes, every
\* size of the requests and every partial transfer.
THEOREM BytesInOrder == Spec => []InOrder
<1>1. DataInv => InOrder BY DataMeans
<1> QED BY <1>1, TransferInvariant, PTL

\* send counts right, also once remain_size has wrapped around.
THEOREM SendCounts == Spec => []SendReportsSent
<1>1. CallsInv => SendReportsSent BY DEF CallsInv
<1> QED BY <1>1, TransferInvariant, PTL

\* write and send go on until the request, or the buffer, is done; what a
\* write returns otherwise tells that it failed or refused.
THEOREM SendsEnough == Spec => []SentEnough
<1>1. CallsInv => SentEnough BY DEF CallsInv
<1> QED BY <1>1, TransferInvariant, PTL

\* What a 0 from recv means.
THEOREM RecvEnd == Spec => []ZeroMeansEnd
<1>1. CallsInv => ZeroMeansEnd BY DEF CallsInv
<1> QED BY <1>1, TransferInvariant, PTL

\* The four comparisons of the iterators, for every size of the memory.
THEOREM OrderRight == Spec => []OrderErrsOneWay
BY OrderStep, TransferInvariant, PTL

\* The iterators pass exactly the unread bytes, for every size of the memory.
THEOREM IteratorsRight == Spec => []IteratorsSeeContents
BY IteratorsStep, TransferInvariant, PTL

\* What a running call can still move: twice the bytes that have to come in
\* and go out, once those that only have to go out.
Ahead == 2 * (Bytes - came) + buff.used

\* A system call that moves nothing is the last one.
LEMMA NothingMoved ==
  ASSUME CallsInv, NEW r, NEW ret
  PROVE  ~AfterMoving(r, 0, ret).busy
BY DEF AfterMoving, Returned, CallsInv, CallInv, Calls

\* Why every loop ends, also when remain_size has wrapped around: a step that
\* the program takes while a call runs ends the call or leaves less to move
\* (stream.cc:170-173, 213-216, socket.cc:275-278).
THEOREM LoopsDescend ==
  Spec => [][call.busy => {Ahead, Ahead'} \subseteq Nat /\ (~call'.busy \/ Ahead' < Ahead)]_vars
<1>1. ASSUME DataInv, DataInv', CallsInv, [Next]_vars, ~UNCHANGED vars, call.busy
      PROVE  {Ahead, Ahead'} \subseteq Nat /\ (~call'.busy \/ Ahead' < Ahead)
  <2>1. /\ Bytes \in Nat /\ came \in 0..Bytes /\ came' \in 0..Bytes
        /\ Sound(buff) /\ Follow(buff, Len(left)) /\ buff.used \in Nat /\ buff'.used \in Nat
    BY <1>1, TransferAssumption DEF DataInv, OrderInv, Sound
  <2>2. {Ahead, Ahead'} \subseteq Nat BY <2>1 DEF Ahead
  <2>3. ASSUME NEW k \in Available(ContWriteSize(buff)), ReadSome(k)
        PROVE  ~call'.busy \/ Ahead' < Ahead
    <3>1. buff' = TakeIn(buff, k) /\ came' = came + k /\ left' = left
          /\ call' = AfterMoving(buff', k, buff'.used)
      BY <2>3 DEF ReadSome
    <3>2. k \in Nat /\ buff'.used = buff.used + k BY <1>1, <2>1, <3>1, DataTaken
    <3>3. CASE k = 0 BY <1>1, <3>1, <3>3, NothingMoved
    <3>4. CASE k # 0 BY <2>1, <3>1, <3>2, <3>4 DEF Ahead
    <3> QED BY <3>3, <3>4
  <2>4. ASSUME NEW k \in Accepted(ContReadSize(buff)), SendSome(k)
        PROVE  ~call'.busy \/ Ahead' < Ahead
    <3> DEFINE ret == IF call.f = "write" THEN call.n
                      ELSE (call.n - (call.remain - k)) % SizeMod
    <3>1. /\ buff' = UpdateReadPos(buff, k) /\ came' = came
          /\ left' = left \o SubSeq(Contents(buff), 1, k)
          /\ call' = AfterMoving(buff', k, ret)
      BY <2>4 DEF SendSome
    <3>2. k \in 0..buff.used
      <4>1. ContReadSize(buff) \in 0..buff.used BY <2>1, ReadSize
      <4> QED BY <2>1, <4>1 DEF Accepted
    <3>3. buff'.used = buff.used - k BY <1>1, <3>1, <3>2, DataGiven
    <3> HIDE DEF ret
    <3>4. CASE k = 0 BY <1>1, <3>1, <3>4, NothingMoved
    <3>5. CASE k # 0 BY <2>1, <3>1, <3>2, <3>3, <3>5 DEF Ahead
    <3> QED BY <3>4, <3>5
  <2>5. CASE Fails
    <3>1. call' = Returned(call, -1) /\ call \in Calls BY <1>1, <2>5 DEF Fails, CallsInv, CallInv
    <3> QED BY <2>2, <3>1 DEF Returned, Calls
  <2>6. Loop \/ Fails
    BY <1>1 DEF Next, ReadString, Clear, Read, Start, WriteString, Recv, RecvFails, Refused
  <2> QED BY <2>2, <2>3, <2>4, <2>5, <2>6 DEF Loop
<1>2. DataInv /\ CallsInv /\ DataInv' /\ [Next]_vars =>
        [call.busy => {Ahead, Ahead'} \subseteq Nat /\ (~call'.busy \/ Ahead' < Ahead)]_vars
  BY <1>1
<1> QED BY <1>2, TransferInvariant, PTL DEF Spec

=============================================================================
