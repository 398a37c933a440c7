----------------------------- MODULE QueueProofs -----------------------------
(***************************************************************************)
(* Theorems about the two Queue<Task> lists, for any number of clients,    *)
(* tasks and worker threads: each is a list of nodes that exist, from      *)
(* head_ to tail_, size_ is its length but for the call under way, and the *)
(* two implement the abstract task service.                                *)
(***************************************************************************)
EXTENDS TaskQueue, TLAPS, WellFoundedInduction, FiniteSetTheorems, SequenceTheorems

USE QueueAssumption DEF Threads, Kinds, Kind, listVars, takeVars

QueueInv == TypeOK /\ LockInv /\ ThreadInv /\ ListInv

\* While one thread is inside push or pop, no other is.
LEMMA Exclusion ==
  ASSUME LockInv, NEW th \in Threads, pc[th] \in Inside
  PROVE  task_mutex = th /\ ~closed /\ \A o \in Threads : pc[o] \in Inside => o = th
BY DEF LockInv, Inside

\* What may change without disturbing list s.
LEMMA ListFrame ==
  ASSUME NEW k, NEW s \in Seq(Tasks), IsList(k, s),
         head'[k] = head[k], tail'[k] = tail[k],
         \A i \in DOMAIN s :
           /\ s[i] \in alive'
           /\ next'[s[i]] = next[s[i]]
           /\ pc'[s[i]] \notin {"new", "link"}
           /\ pc'[s[i]] = "set_tail" <=> pc[s[i]] = "set_tail"
           /\ \A c \in Consumers : got'[c] = s[i] => pc'[c] = "unlink",
         \A t \in Tasks : pc'[t] = "set_tail" /\ Kind(t) = k => pc[t] = "set_tail"
  PROVE  IsList(k, s)'
<1>1. s # << >> => Len(s) \in DOMAIN s
  OBVIOUS
<1> QED BY <1>1 DEF IsList

\* The node at the head of a list that a worker may pop.
LEMMA HeadListed ==
  ASSUME QueueInv, NEW k \in Kinds, NEW s \in Seq(Tasks), IsList(k, s), s # << >>
  PROVE  head[k] = s[1] /\ head[k] \in Tasks /\ 1 \in DOMAIN s
BY DEF IsList

\* A thread that does not hold the lock takes it, or the one that holds it moves
\* on or gives it back.
LEMMA LockKept ==
  ASSUME TypeOK, LockInv, NEW th \in Threads, NEW to,
         pc' = [pc EXCEPT ![th] = to], closed' = closed, ~closed,
         \/ task_mutex = Free /\ task_mutex' = th
         \/ pc[th] \in Inside /\ to \in Inside /\ task_mutex' = task_mutex
         \/ pc[th] \in Inside /\ to \notin Inside /\ task_mutex' = Free
         \/ pc[th] \notin Inside /\ to \notin Inside /\ task_mutex' = task_mutex
  PROVE  LockInv'
<1>1. \A o \in Threads : pc'[o] = IF o = th THEN to ELSE pc[o]
  BY DEF TypeOK
<1> QED BY <1>1 DEF LockInv

\* The lock and the places of the threads, by the steps of a client.
LEMMA PushThreads ==
  ASSUME QueueInv, NEW t \in Tasks, Push(t)
  PROVE  TypeOK' /\ LockInv' /\ ThreadInv'
<1>1. TypeOK /\ LockInv /\ ThreadInv BY DEF QueueInv
<1>2. ~closed
  BY <1>1 DEF Push, NewNode, Link, SetTail, CountPush, EndPush, Lock, Unlock, Goto, LockInv
<1>3. LockInv'
  BY <1>1, <1>2, LockKept DEF Push, NewNode, Link, SetTail, CountPush, EndPush, Lock, Unlock, Goto, Inside
<1>4. TypeOK'
  BY <1>1 DEF TypeOK, Push, NewNode, Link, SetTail, CountPush, EndPush, Lock, Unlock, Goto
<1>5. ThreadInv'
  <2>1. /\ pc \in [Threads -> {"new", "link", "set_tail", "count", "unlock", "done", "idle",
                              "choose", "pop", "unlink", "free", "work"}]
        /\ got \in [Consumers -> Tasks \cup {Null}]
        /\ next \in [Tasks -> Tasks \cup {Null}]
    BY <1>1 DEF TypeOK
  <2>2. \A o \in Threads : pc[o] \in {"link", "unlink"} => o = t \/ task_mutex # Free
    BY <1>1 DEF LockInv, Inside
  <2>3. UNCHANGED <<got, list>> BY DEF Push, NewNode, Link, SetTail, CountPush, EndPush
  <2>4. \A o \in Threads \ {t} : pc[o] \in {"link", "unlink"} => UNCHANGED <<alive, next, head>>
    BY <1>1 DEF LockInv, Inside, Push, NewNode, Link, SetTail, CountPush, EndPush, Lock, Unlock, Goto
  <2>5. PICK from, to \in {"new", "link", "set_tail", "count", "unlock", "done"} :
          pc[t] = from /\ pc' = [pc EXCEPT ![t] = to] /\ from # "done"
          /\ (to = "link" => t \in alive' /\ next'[t] = Null)
    BY <2>1 DEF Push, NewNode, Link, SetTail, CountPush, EndPush, Lock, Unlock, Goto
  <2>6. \A o \in Threads : pc'[o] = IF o = t THEN to ELSE pc[o]
    BY <2>1, <2>5
  <2>7. \A c \in Consumers : c # t /\ c \in Threads /\ (got[c] # Null => got[c] \in Tasks /\ got[c] # t)
    BY <1>1, <2>1, <2>5 DEF ThreadInv
  <2>8. \A d \in Tasks \ {t} : d \in Threads /\ (pc[d] = "link" => d \in alive' /\ next'[d] = Null)
    BY <1>1, <2>4 DEF ThreadInv
  <2> QED BY <1>1, <2>3, <2>4, <2>5, <2>6, <2>7, <2>8 DEF ThreadInv
<1> QED BY <1>3, <1>4, <1>5

\* What a worker pops is there, and was pushed by a client that has left.
LEMMA PoppedHead ==
  ASSUME QueueInv, NEW c \in Consumers, PopData(c)
  PROVE  head[list[c]] \in Tasks /\ pc[head[list[c]]] = "done"
<1>1. pc[c] = "pop" /\ size[list[c]] # 0 /\ list[c] \in Kinds
  BY DEF PopData, Goto, QueueInv, TypeOK
<1>2. ~closed /\ \A o \in Threads : pc[o] \in Inside => o = c
  BY <1>1, Exclusion DEF QueueInv, Inside
<1>3. PICK s \in Seq(Tasks) : IsList(list[c], s) /\ SizeInv(list[c], s)
  BY <1>1, <1>2 DEF QueueInv, ListInv
<1>4. size[list[c]] = Len(s)
  BY <1>1, <1>2, <1>3 DEF SizeInv, Inside, QueueInv, TypeOK
<1>5. s # << >> BY <1>1, <1>4
<1>6. head[list[c]] = s[1] /\ s[1] \in Tasks /\ 1 \in DOMAIN s
  BY <1>1, <1>3, <1>5, HeadListed
<1>7. pc[s[1]] \notin {"new", "link"} /\ pc[s[1]] \notin Inside
  BY <1>2, <1>3, <1>6 DEF IsList
<1> QED BY <1>6, <1>7 DEF QueueInv, ThreadInv, Inside

\* A worker counts down from at least one.
LEMMA PoppedCount ==
  ASSUME QueueInv, NEW c \in Consumers, CountPop(c)
  PROVE  size[list[c]] - 1 \in Nat
<1>1. pc[c] = "count" /\ list[c] \in Kinds
  BY DEF CountPop, Goto, QueueInv, TypeOK
<1>2. ~closed /\ \A o \in Threads : pc[o] \in Inside => o = c
  BY <1>1, Exclusion DEF QueueInv, Inside
<1>3. PICK s \in Seq(Tasks) : SizeInv(list[c], s)
  BY <1>1, <1>2 DEF QueueInv, ListInv
<1>4. size[list[c]] = Len(s) + 1
  BY <1>1, <1>2, <1>3 DEF SizeInv, Inside, QueueInv, TypeOK
<1> QED BY <1>4

\* The lock and the places of the threads, by the steps of a worker.
LEMMA PopThreads ==
  ASSUME QueueInv, NEW c \in Consumers, Pop(c)
  PROVE  TypeOK' /\ LockInv' /\ ThreadInv'
<1>1. TypeOK /\ LockInv /\ ThreadInv BY DEF QueueInv
<1> USE DEF Pop, LockTasks, Choose, PopEmpty, PopData, Unlink, CountPop, FreeNode, EndPop, Work,
            Lock, Unlock, Goto
<1>2. ~closed
  BY <1>1 DEF LockInv
<1>3. LockInv'
  BY <1>1, <1>2, LockKept DEF Inside
<1>4. TypeOK'
  <2>1. CASE Unlink(c)
    <3>1. list[c] \in Kinds /\ head[list[c]] \in Tasks
      BY <1>1, <2>1 DEF TypeOK, ThreadInv
    <3> QED BY <1>1, <2>1, <3>1 DEF TypeOK
  <2>2. CASE CountPop(c)
    BY <1>1, <2>2, PoppedCount DEF TypeOK
  <2>3. CASE PopData(c)
    BY <1>1, <2>3, PoppedHead DEF TypeOK
  <2>4. CASE LockTasks(c) BY <1>1, <2>4 DEF TypeOK
  <2>5. CASE Choose(c) BY <1>1, <2>5 DEF TypeOK
  <2>6. CASE PopEmpty(c) BY <1>1, <2>6 DEF TypeOK
  <2>7. CASE FreeNode(c) BY <1>1, <2>7 DEF TypeOK
  <2>8. CASE EndPop(c)
    <3>1. PICK to \in {"idle", "work"} : pc' = [pc EXCEPT ![c] = to] BY <2>8
    <3> QED BY <1>1, <2>8, <3>1 DEF TypeOK
  <2>9. CASE Work(c)
    <3>1. got[c] \in Tasks BY <1>1, <2>9 DEF TypeOK, ThreadInv
    <3> QED BY <1>1, <2>9, <3>1 DEF TypeOK
  <2> QED BY <2>1, <2>2, <2>3, <2>4, <2>5, <2>6, <2>7, <2>8, <2>9
<1>5. ThreadInv'
  <2>1. /\ pc \in [Threads -> {"new", "link", "set_tail", "count", "unlock", "done", "idle",
                              "choose", "pop", "unlink", "free", "work"}]
        /\ got \in [Consumers -> Tasks \cup {Null}]
        /\ list \in [Consumers -> Kinds]
    BY <1>1 DEF TypeOK
  <2>2. \A o \in Threads \ {c} :
          pc[o] \in {"link", "unlink"} => UNCHANGED <<alive, next, head>>
    <3>1. pc[c] \in Inside \/ UNCHANGED <<alive, next, head>> BY DEF Inside
    <3> QED BY <1>1, <3>1, Exclusion DEF Inside
  <2>3. PICK to \in {"idle", "choose", "pop", "unlink", "count", "free", "unlock", "work"} :
          pc' = [pc EXCEPT ![c] = to]
    BY <2>1
  <2>4. \A o \in Threads : pc'[o] = IF o = c THEN to ELSE pc[o]
    BY <2>1, <2>3
  <2>5. \A d \in Consumers \ {c} : got'[d] = got[d] /\ list'[d] = list[d]
    BY <2>1
  <2>6. \A t \in Tasks : t # c /\ t \in Threads /\ (pc[t] = "link" => t \in alive' /\ next'[t] = Null)
    BY <1>1, <2>2 DEF ThreadInv
  <2>7. /\ to \in {"idle", "choose", "pop"} => got'[c] = Null
        /\ to \in {"unlink", "count", "free", "work"} => got'[c] # Null
        /\ to = "unlink" => got'[c] = head'[list'[c]]
        /\ got'[c] # Null => got'[c] \in Tasks /\ pc[got'[c]] = "done"
    <3>1. CASE PopData(c)
      <4>1. head[list[c]] \in Tasks /\ pc[head[list[c]]] = "done"
        BY <3>1, PoppedHead
      <4>2. to = "unlink" /\ got'[c] = head[list[c]] /\ UNCHANGED <<head, list>>
        BY <2>1, <2>4, <3>1
      <4> QED BY <4>1, <4>2
    <3>2. CASE Work(c) BY <1>1, <2>1, <2>4, <3>2 DEF ThreadInv
    <3>3. CASE LockTasks(c) \/ Choose(c) \/ PopEmpty(c) \/ Unlink(c) \/ CountPop(c) \/ FreeNode(c) \/ EndPop(c)
      BY <1>1, <2>1, <2>4, <3>3 DEF ThreadInv
    <3> QED BY <3>1, <3>2, <3>3
  <2>8. \A d \in Consumers \ {c} : d \in Threads /\ (pc[d] = "unlink" => head' = head)
    BY <2>2
  <2> QED BY <1>1, <2>1, <2>4, <2>5, <2>6, <2>7, <2>8 DEF ThreadInv
<1> QED BY <1>3, <1>4, <1>5

-----------------------------------------------------------------------------
(* The lists.                                                              *)

\* The first node is taken off list s.
LEMMA ListTail ==
  ASSUME NEW k, NEW s \in Seq(Tasks), IsList(k, s), s # << >>,
         \A t \in Tasks : pc[t] # "set_tail" /\ pc'[t] = pc[t],
         next' = next,
         head'[k] = IF Len(s) = 1 THEN Null ELSE next[head[k]],
         tail'[k] = IF Len(s) = 1 THEN Null ELSE tail[k],
         \A i \in DOMAIN s :
           i # 1 => /\ s[i] \in alive'
                    /\ \A c \in Consumers : got'[c] = s[i] => pc'[c] = "unlink"
  PROVE  Tail(s) \in Seq(Tasks) /\ Len(Tail(s)) = Len(s) - 1 /\ IsList(k, Tail(s))'
<1> DEFINE r == Tail(s)
<1>1. /\ r \in Seq(Tasks) /\ Len(r) = Len(s) - 1 /\ Len(s) \in Nat /\ Len(s) > 0
      /\ 1 \in DOMAIN s /\ Len(s) \in DOMAIN s
      /\ \A i \in DOMAIN r : i \in Nat /\ i + 1 \in DOMAIN s /\ i + 1 # 1 /\ r[i] = s[i + 1]
  OBVIOUS
<1>2. \A i \in DOMAIN s : s[i] \in Tasks /\ pc[s[i]] # "set_tail"
  OBVIOUS
<1>3. head[k] = s[1] /\ tail[k] = s[Len(s)]
  BY <1>1, <1>2 DEF IsList
<1>4. \A i, j \in DOMAIN r : r[i] = r[j] => i = j
  BY <1>1 DEF IsList
<1>5. \A i \in DOMAIN r :
        /\ r[i] \in alive' /\ Kind(r[i]) = k /\ pc'[r[i]] \notin {"new", "link"}
        /\ \A c \in Consumers : got'[c] = r[i] => pc'[c] = "unlink"
  BY <1>1, <1>2 DEF IsList
<1>6. \A i \in DOMAIN r : next'[r[i]] = IF i = Len(r) THEN Null ELSE r[i + 1]
  <2> SUFFICES ASSUME NEW i \in DOMAIN r
               PROVE  next[s[i + 1]] = IF i = Len(r) THEN Null ELSE r[i + 1]
    BY <1>1
  <2>1. i + 1 \in DOMAIN s /\ (i = Len(r) <=> i + 1 = Len(s)) BY <1>1
  <2>2. i # Len(r) => r[i + 1] = s[(i + 1) + 1]
    <3>1. i # Len(r) => i + 1 \in DOMAIN r BY <1>1
    <3> QED BY <1>1, <3>1
  <2> QED BY <2>1, <2>2 DEF IsList
<1>7. r = << >> => head'[k] = Null /\ tail'[k] = Null
  <2>1. \A q \in Seq(Tasks) : q = << >> => Len(q) = 0 OBVIOUS
  <2> HIDE DEF r
  <2> QED BY <1>1, <2>1
<1>8. r # << >> => head'[k] = r[1] /\ tail'[k] = r[Len(r)] /\ pc'[r[Len(r)]] # "set_tail"
  <2> SUFFICES ASSUME r # << >> PROVE head'[k] = r[1] /\ tail'[k] = r[Len(r)] /\ pc'[r[Len(r)]] # "set_tail"
    OBVIOUS
  <2>1. Len(s) # 1 /\ 1 \in DOMAIN r /\ Len(r) \in DOMAIN r BY <1>1
  <2>2. r[1] = s[1 + 1] /\ r[Len(r)] = s[Len(s)] BY <1>1, <2>1
  <2>3. next[s[1]] = s[1 + 1] BY <1>1, <2>1 DEF IsList
  <2> QED BY <1>1, <1>2, <1>3, <2>1, <2>2, <2>3
<1> HIDE DEF r
<1>9. IsList(k, r)' BY <1>4, <1>5, <1>6, <1>7, <1>8 DEF IsList
<1> QED BY <1>1, <1>9 DEF r

\* A node is linked to the end of list s.
LEMMA ListAppend ==
  ASSUME ThreadInv, NEW t \in Tasks, NEW s \in Seq(Tasks), IsList(Kind(t), s), Link(t), TypeOK,
         \A o \in Threads : pc[o] \in Inside => o = t
  PROVE  Append(s, t) \in Seq(Tasks) /\ Len(Append(s, t)) = Len(s) + 1 /\ IsList(Kind(t), Append(s, t))'
<1> DEFINE r == Append(s, t)
           k == Kind(t)
<1>1. /\ r \in Seq(Tasks) /\ Len(r) = Len(s) + 1 /\ Len(s) \in Nat
      /\ DOMAIN r = DOMAIN s \cup {Len(r)} /\ Len(r) \notin DOMAIN s /\ r[Len(r)] = t
      /\ \A i \in DOMAIN s : i \in Nat /\ i # Len(r) /\ r[i] = s[i]
      /\ r # << >>
  OBVIOUS
<1>2. /\ pc \in [Threads -> {"new", "link", "set_tail", "count", "unlock", "done", "idle",
                            "choose", "pop", "unlink", "free", "work"}]
      /\ head \in [Kinds -> Tasks \cup {Null}] /\ next \in [Tasks -> Tasks \cup {Null}]
      /\ k \in Kinds
  BY DEF TypeOK
<1>3. pc[t] = "link" /\ pc' = [pc EXCEPT ![t] = "set_tail"] /\ UNCHANGED <<tail, alive, got>>
  BY DEF Link, Goto
<1>4. \A i \in DOMAIN s : s[i] \in Tasks /\ s[i] # t /\ pc[s[i]] # "set_tail"
  BY <1>3 DEF IsList, Inside
<1>5. \A i, j \in DOMAIN r : r[i] = r[j] => i = j
  BY <1>1, <1>4 DEF IsList
<1>6. t \in alive /\ next[t] = Null /\ \A c \in Consumers : got[c] # t
  BY <1>3 DEF ThreadInv
<1>7. \A i \in DOMAIN r :
        /\ r[i] \in alive' /\ Kind(r[i]) = k /\ pc'[r[i]] \notin {"new", "link"}
        /\ \A c \in Consumers : got'[c] = r[i] => pc'[c] = "unlink"
  BY <1>1, <1>2, <1>3, <1>4, <1>6 DEF IsList
<1>8. CASE s = << >>
  <2>1. head'[k] = t /\ next' = next /\ tail[k] = Null
    BY <1>2, <1>8 DEF IsList, Link
  <2>2. Len(r) = 1 /\ r[1] = t /\ \A i \in DOMAIN r : i = 1
    BY <1>1, <1>8
  <2>3. \A i \in DOMAIN r : next'[r[i]] = IF i = Len(r) THEN Null ELSE r[i + 1]
    BY <1>6, <2>1, <2>2
  <2>4. pc'[t] = "set_tail" /\ \A u \in Tasks \ {t} : pc'[u] # "set_tail"
    BY <1>2, <1>3 DEF Inside
  <2> HIDE DEF r
  <2>5. IsList(k, r)' BY <1>1, <1>3, <1>5, <1>7, <2>1, <2>2, <2>3, <2>4 DEF IsList
  <2> QED BY <1>1, <2>5 DEF r
<1>9. CASE s # << >>
  <2>1. Len(s) \in DOMAIN s /\ 1 \in DOMAIN s BY <1>9
  <2>2. head[k] = s[1] /\ tail[k] = s[Len(s)] BY <1>4, <1>9, <2>1 DEF IsList
  <2>3. head' = head /\ next' = [next EXCEPT ![s[Len(s)]] = t]
    BY <1>4, <2>1, <2>2 DEF Link
  <2>4. \A i \in DOMAIN r : next'[r[i]] = IF i = Len(r) THEN Null ELSE r[i + 1]
    <3>1. next'[t] = Null BY <1>2, <1>4, <1>6, <2>1, <2>3
    <3>2. ASSUME NEW i \in DOMAIN s PROVE next'[s[i]] = r[i + 1]
      <4>1. CASE i = Len(s) BY <1>1, <1>2, <1>4, <2>1, <2>3, <4>1
      <4>2. CASE i # Len(s)
        <5>1. s[i] # s[Len(s)] BY <2>1, <4>2 DEF IsList
        <5>2. next[s[i]] = s[i + 1] BY <4>2 DEF IsList
        <5>3. i + 1 \in DOMAIN s BY <4>2
        <5> QED BY <1>1, <1>2, <1>4, <2>3, <5>1, <5>2, <5>3
      <4> QED BY <4>1, <4>2
    <3> QED BY <1>1, <3>1, <3>2
  <2>5. pc'[t] = "set_tail" /\ \A u \in Tasks \ {t} : pc'[u] # "set_tail"
    BY <1>2, <1>3 DEF Inside
  <2>6. r[1] = s[1] /\ Len(r) # 1 /\ r[Len(r) - 1] = s[Len(s)] BY <1>1, <2>1
  <2> HIDE DEF r
  <2>7. IsList(k, r)' BY <1>1, <1>3, <1>5, <1>7, <2>2, <2>3, <2>4, <2>5, <2>6 DEF IsList
  <2> QED BY <1>1, <2>7 DEF r
<1> QED BY <1>8, <1>9

\* What a step of a client does to the lists: it appends its node to its list.
LEMMA PushList ==
  ASSUME QueueInv, TypeOK', NEW t \in Tasks, Push(t),
         NEW k \in Kinds, NEW s \in Seq(Tasks), IsList(k, s), SizeInv(k, s)
  PROVE  \E r \in Seq(Tasks) :
           /\ r = IF Kind(t) = k /\ Link(t) THEN Append(s, t) ELSE s
           /\ IsList(k, r)' /\ SizeInv(k, r)'
<1>1. TypeOK /\ LockInv /\ ThreadInv /\ ListInv BY DEF QueueInv
<1>2. ~closed /\ closed' = closed /\ UNCHANGED <<list, got>>
  BY <1>1 DEF LockInv, Push, NewNode, Link, SetTail, CountPush, EndPush, Lock, Unlock, Goto
<1>3. /\ pc \in [Threads -> {"new", "link", "set_tail", "count", "unlock", "done", "idle",
                            "choose", "pop", "unlink", "free", "work"}]
      /\ head \in [Kinds -> Tasks \cup {Null}] /\ tail \in [Kinds -> Tasks \cup {Null}]
      /\ next \in [Tasks -> Tasks \cup {Null}] /\ size \in [Kinds -> Nat] /\ size' \in [Kinds -> Nat]
      /\ Kind(t) \in Kinds
  BY <1>1 DEF TypeOK
<1>4. \A o \in Threads \ {t} : pc[o] \notin Inside
  BY <1>1, Exclusion DEF Push, NewNode, Link, SetTail, CountPush, EndPush, Lock, Unlock, Goto, LockInv, Inside
<1>5. PICK to \in {"link", "set_tail", "count", "unlock", "done"} :
        /\ pc' = [pc EXCEPT ![t] = to]
        /\ pc[t] = CASE to = "link" -> "new" [] to = "set_tail" -> "link" [] to = "count" -> "set_tail"
                     [] to = "unlock" -> "count" [] to = "done" -> "unlock"
  BY DEF Push, NewNode, Link, SetTail, CountPush, EndPush, Lock, Unlock, Goto
<1>6. \A o \in Threads : pc'[o] = IF o = t THEN to ELSE pc[o]
  BY <1>3, <1>5
<1>7. IsList(k, s) /\ SizeInv(k, s)
  OBVIOUS
<1>8. \A i \in DOMAIN s : s[i] \in Tasks /\ (s[i] # t => pc[s[i]] \notin Inside)
  BY <1>4
<1>9. size[k] + (IF Kind(t) = k /\ pc[t] \in {"set_tail", "count"} THEN 1 ELSE 0) = Len(s)
  BY <1>3, <1>4, <1>7 DEF SizeInv, Inside
<1>10. ASSUME NEW r \in Seq(Tasks),
              size'[k] + (IF Kind(t) = k /\ to \in {"set_tail", "count"} THEN 1 ELSE 0) = Len(r)
       PROVE  SizeInv(k, r)'
  <2>1. (\E u \in Tasks : Kind(u) = k /\ pc'[u] \in {"set_tail", "count"})
          <=> (Kind(t) = k /\ to \in {"set_tail", "count"})
    BY <1>4, <1>6 DEF Inside
  <2>2. \A c \in Consumers : pc'[c] # "count" BY <1>4, <1>6 DEF Inside
  <2> QED BY <1>2, <1>3, <1>10, <2>1, <2>2 DEF SizeInv
<1>11. CASE Kind(t) = k /\ Link(t)
  <2>1. to = "set_tail" /\ pc[t] = "link" /\ size' = size BY <1>3, <1>6, <1>11 DEF Link, Goto
  <2>2. PICK r \in Seq(Tasks) : r = Append(s, t) /\ Len(r) = Len(s) + 1 /\ IsList(k, r)'
    BY <1>1, <1>4, <1>7, <1>11, ListAppend
  <2>3. size[k] = Len(s) BY <1>3, <1>9, <2>1
  <2>4. size'[k] + (IF Kind(t) = k /\ to \in {"set_tail", "count"} THEN 1 ELSE 0) = Len(r)
    BY <1>3, <1>11, <2>1, <2>2, <2>3
  <2>5. SizeInv(k, r)' BY <1>10, <2>2, <2>4
  <2> QED BY <1>11, <2>2, <2>5
<1>12. CASE Kind(t) = k /\ SetTail(t)
  <2>1. /\ to = "count" /\ pc[t] = "set_tail" /\ UNCHANGED <<size, head, next, alive>>
        /\ tail' = [tail EXCEPT ![k] = t]
    BY <1>3, <1>6, <1>12 DEF SetTail, Goto
  <2>2. s # << >> /\ s[Len(s)] = t /\ Len(s) \in DOMAIN s BY <1>7, <1>12, <2>1 DEF IsList
  <2>3. \A u \in Tasks : u \in Threads /\ pc'[u] # "set_tail"
    BY <1>4, <1>6, <2>1 DEF Inside
  <2>4. IsList(k, s)'
    <3>1. \A i \in DOMAIN s :
            /\ s[i] \in alive' /\ Kind(s[i]) = k /\ pc'[s[i]] \notin {"new", "link"}
            /\ \A c \in Consumers : got'[c] = s[i] => pc'[c] = "unlink"
            /\ next'[s[i]] = IF i = Len(s) THEN Null ELSE s[i + 1]
      BY <1>2, <1>3, <1>6, <1>7, <1>8, <2>1 DEF IsList
    <3>2. head'[k] = s[1] /\ tail'[k] = s[Len(s)]
      BY <1>3, <1>7, <2>1, <2>2 DEF IsList
    <3>3. \A i, j \in DOMAIN s : s[i] = s[j] => i = j BY <1>7 DEF IsList
    <3> QED BY <2>2, <2>3, <3>1, <3>2, <3>3 DEF IsList
  <2>5. SizeInv(k, s)' BY <1>9, <1>10, <1>12, <2>1
  <2>6. ~Link(t) BY <2>1 DEF Link, Goto
  <2> QED BY <2>4, <2>5, <2>6
<1>13. CASE ~(Kind(t) = k /\ (Link(t) \/ SetTail(t)))
  <2>1. head'[k] = head[k] /\ tail'[k] = tail[k] /\ alive \subseteq alive'
    BY <1>3, <1>13 DEF Push, NewNode, Link, SetTail, CountPush, EndPush
  <2>2. size'[k] = size[k] + (IF Kind(t) = k /\ to = "unlock" THEN 1 ELSE 0)
    BY <1>3, <1>6, <1>13 DEF Push, NewNode, Link, SetTail, CountPush, EndPush, Lock, Unlock, Goto
  <2>3. \A i \in DOMAIN s : next'[s[i]] = next[s[i]]
    <3>1. CASE NewNode(t)
      BY <1>3, <1>7, <1>8, <3>1 DEF NewNode, Lock, Goto, IsList
    <3>2. CASE Link(t)
      <4>1. PICK r \in Seq(Tasks) : IsList(Kind(t), r)
        BY <1>1, <1>2, <1>3 DEF ListInv
      <4>2. pc[t] = "link" BY <3>2 DEF Link, Goto
      <4>3. r # << >> => tail[Kind(t)] = r[Len(r)] /\ Len(r) \in DOMAIN r
        BY <1>4, <4>1, <4>2 DEF IsList, Inside
      <4>4. tail[Kind(t)] # Null => Kind(tail[Kind(t)]) = Kind(t)
        BY <4>1, <4>3 DEF IsList
      <4>5. \A i \in DOMAIN s : s[i] # tail[Kind(t)]
        BY <1>7, <1>8, <1>13, <3>2, <4>4 DEF IsList
      <4> QED BY <1>3, <1>8, <3>2, <4>5 DEF Link
    <3> QED BY <3>1, <3>2 DEF Push, SetTail, CountPush, EndPush
  <2>4. \A i \in DOMAIN s :
          /\ pc'[s[i]] \notin {"new", "link"}
          /\ pc'[s[i]] = "set_tail" <=> pc[s[i]] = "set_tail"
    BY <1>5, <1>6, <1>7, <1>8, <1>13 DEF IsList, Push, NewNode, Link, SetTail, CountPush, EndPush, Lock, Unlock, Goto
  <2>5. ASSUME NEW u \in Tasks, pc'[u] = "set_tail", Kind(u) = k PROVE pc[u] = "set_tail"
    <3>1. to = "set_tail" => Link(t)
      BY <1>3, <1>5 DEF Push, NewNode, Link, SetTail, CountPush, EndPush, Lock, Unlock, Goto
    <3>2. u # t BY <1>6, <1>13, <2>5, <3>1
    <3> QED BY <1>6, <2>5, <3>2
  <2>6. IsList(k, s)'
    BY <1>2, <1>6, <1>7, <1>8, <2>1, <2>3, <2>4, <2>5, ListFrame DEF IsList
  <2>7. SizeInv(k, s)'
    BY <1>3, <1>5, <1>9, <1>10, <1>13, <2>2 DEF Push, NewNode, Link, SetTail, CountPush, EndPush, Lock, Unlock, Goto
  <2> QED BY <1>13, <2>6, <2>7
<1> QED BY <1>11, <1>12, <1>13

\* What a step of a worker does to the lists: it takes the first node off one.
LEMMA PopList ==
  ASSUME QueueInv, TypeOK', NEW c \in Consumers, Pop(c),
         NEW k \in Kinds, NEW s \in Seq(Tasks), IsList(k, s), SizeInv(k, s)
  PROVE  \E r \in Seq(Tasks) :
           /\ r = IF list[c] = k /\ Unlink(c) THEN Tail(s) ELSE s
           /\ IsList(k, r)' /\ SizeInv(k, r)'
<1>1. TypeOK /\ LockInv /\ ThreadInv /\ ListInv BY DEF QueueInv
<1>2. ~closed /\ closed' = closed
  BY <1>1 DEF LockInv, Pop, LockTasks, Choose, PopEmpty, PopData, Unlink, CountPop, FreeNode, EndPop, Work,
              Lock, Unlock, Goto
<1>3. /\ pc \in [Threads -> {"new", "link", "set_tail", "count", "unlock", "done", "idle",
                            "choose", "pop", "unlink", "free", "work"}]
      /\ head \in [Kinds -> Tasks \cup {Null}] /\ tail \in [Kinds -> Tasks \cup {Null}]
      /\ next \in [Tasks -> Tasks \cup {Null}] /\ size \in [Kinds -> Nat] /\ size' \in [Kinds -> Nat]
      /\ list \in [Consumers -> Kinds] /\ got \in [Consumers -> Tasks \cup {Null}]
  BY <1>1 DEF TypeOK
<1>4. PICK to \in {"idle", "choose", "pop", "unlink", "count", "free", "unlock", "work"} :
        pc' = [pc EXCEPT ![c] = to]
  BY <1>3 DEF Pop, LockTasks, Choose, PopEmpty, PopData, Unlink, CountPop, FreeNode, EndPop, Work,
              Lock, Unlock, Goto
<1>5. \A o \in Threads : pc'[o] = IF o = c THEN to ELSE pc[o]
  BY <1>3, <1>4
<1>6. /\ \A t \in Tasks : t # c /\ t \in Threads /\ pc'[t] = pc[t]
      /\ \A d \in Consumers \ {c} : d \in Threads /\ pc'[d] = pc[d] /\ got'[d] = got[d] /\ list'[d] = list[d]
  BY <1>3, <1>5 DEF Pop, LockTasks, Choose, PopEmpty, PopData, Unlink, CountPop, FreeNode, EndPop, Work
<1>7. next' = next
  BY DEF Pop, LockTasks, Choose, PopEmpty, PopData, Unlink, CountPop, FreeNode, EndPop, Work
<1>8. pc[c] \in Inside \/ LockTasks(c) \/ Work(c)
  BY DEF Pop, LockTasks, Choose, PopEmpty, PopData, Unlink, CountPop, FreeNode, EndPop, Work,
         Lock, Unlock, Goto, Inside
<1>9. ~Work(c) => \A o \in Threads \ {c} : pc[o] \notin Inside
  BY <1>1, <1>8, Exclusion DEF LockTasks, Lock, LockInv, Inside
<1>10. IsList(k, s) /\ SizeInv(k, s) /\ (pc[c] # "unlink" => ~Unlink(c))
  BY DEF Unlink, Goto
<1>11. (\E t \in Tasks : Kind(t) = k /\ pc'[t] \in {"set_tail", "count"})
         <=> (\E t \in Tasks : Kind(t) = k /\ pc[t] \in {"set_tail", "count"})
  BY <1>6
<1>12. ASSUME head'[k] = head[k], tail'[k] = tail[k],
              \A i \in DOMAIN s : /\ s[i] \in alive'
                                  /\ got'[c] = s[i] => to = "unlink"
       PROVE  IsList(k, s)'
  <2>1. \A i \in DOMAIN s : \A d \in Consumers : got'[d] = s[i] => pc'[d] = "unlink"
    BY <1>5, <1>6, <1>10, <1>12 DEF IsList
  <2>2. \A i \in DOMAIN s : /\ s[i] \in Tasks /\ next'[s[i]] = next[s[i]]
                            /\ pc'[s[i]] = pc[s[i]] /\ pc[s[i]] \notin {"new", "link"}
    BY <1>6, <1>7, <1>10 DEF IsList
  <2> QED BY <1>6, <1>10, <1>12, <2>1, <2>2, ListFrame
<1>13. CASE LockTasks(c) \/ Choose(c) \/ PopEmpty(c) \/ EndPop(c) \/ Work(c)
  <2>1. /\ UNCHANGED <<head, tail, size, alive>> /\ to # "count" /\ pc[c] # "count"
        /\ got'[c] = got[c] \/ got'[c] = Null
        /\ pc[c] # "unlink"
    BY <1>3, <1>5, <1>13 DEF LockTasks, Choose, PopEmpty, EndPop, Work, Lock, Unlock, Goto
  <2>2. IsList(k, s)' BY <1>10, <1>12, <2>1 DEF IsList
  <2>3. (\E d \in Consumers : list'[d] = k /\ pc'[d] = "count")
          <=> (\E d \in Consumers : list[d] = k /\ pc[d] = "count")
    BY <1>5, <1>6, <2>1
  <2> QED BY <1>10, <1>11, <2>1, <2>2, <2>3 DEF SizeInv
<1>14. CASE PopData(c)
  <2>1. /\ UNCHANGED <<head, tail, size, alive, list>> /\ to = "unlink" /\ pc[c] = "pop"
    BY <1>3, <1>5, <1>14 DEF PopData, Goto
  <2>2. IsList(k, s)' BY <1>10, <1>12, <2>1 DEF IsList
  <2>3. (\E d \in Consumers : list'[d] = k /\ pc'[d] = "count")
          <=> (\E d \in Consumers : list[d] = k /\ pc[d] = "count")
    BY <1>5, <1>6, <2>1
  <2> QED BY <1>10, <1>11, <2>1, <2>2, <2>3 DEF SizeInv
<1>15. ASSUME NEW r \in Seq(Tasks), ~Work(c), \A t \in Tasks : pc[t] \notin Inside,
              size'[k] = Len(r) + (IF list'[c] = k /\ to = "count" THEN 1 ELSE 0)
       PROVE  SizeInv(k, r)'
  <2>1. \A d \in Consumers : pc'[d] = "count" => d = c BY <1>6, <1>9, <1>15 DEF Inside
  <2>2. \A t \in Tasks : pc'[t] \notin {"set_tail", "count"} BY <1>6, <1>15 DEF Inside
  <2>3. (\E d \in Consumers : list'[d] = k /\ pc'[d] = "count") <=> (list'[c] = k /\ to = "count")
    BY <1>5, <2>1
  <2>4. ~\E t \in Tasks : Kind(t) = k /\ pc'[t] \in {"set_tail", "count"} BY <2>2
  <2>5. size'[k] \in Nat /\ Len(r) \in Nat BY <1>3
  <2>6. CASE list'[c] = k /\ to = "count" BY <1>15, <2>3, <2>4, <2>5, <2>6 DEF SizeInv
  <2>7. CASE ~(list'[c] = k /\ to = "count") BY <1>15, <2>3, <2>4, <2>5, <2>7 DEF SizeInv
  <2> QED BY <2>6, <2>7
<1>16. ~Work(c) => \A t \in Tasks : pc[t] \notin Inside
  BY <1>6, <1>9
<1>17. ~Work(c) => size[k] = Len(s) + (IF list[c] = k /\ pc[c] = "count" THEN 1 ELSE 0)
  <2> SUFFICES ASSUME ~Work(c)
               PROVE  size[k] = Len(s) + (IF list[c] = k /\ pc[c] = "count" THEN 1 ELSE 0)
    OBVIOUS
  <2>1. \A d \in Consumers : pc[d] = "count" => d = c BY <1>6, <1>9 DEF Inside
  <2>2. \A t \in Tasks : pc[t] \notin {"set_tail", "count"} BY <1>16 DEF Inside
  <2>3. (\E d \in Consumers : list[d] = k /\ pc[d] = "count") <=> (list[c] = k /\ pc[c] = "count")
    BY <2>1
  <2> QED BY <1>3, <1>10, <2>2, <2>3 DEF SizeInv
<1>18. CASE CountPop(c)
  <2>1. /\ UNCHANGED <<head, tail, alive, got, list>> /\ to = "free" /\ pc[c] = "count"
        /\ size' = [size EXCEPT ![list[c]] = @ - 1]
    BY <1>3, <1>5, <1>18 DEF CountPop, Goto
  <2>2. IsList(k, s)' BY <1>10, <1>12, <2>1 DEF IsList
  <2>3. ~Work(c) BY <2>1 DEF Work, Goto
  <2>4. size'[k] = Len(s) BY <1>3, <1>17, <2>1, <2>3
  <2> QED BY <1>10, <1>15, <1>16, <2>1, <2>2, <2>3, <2>4
<1>19. CASE FreeNode(c)
  <2>1. /\ UNCHANGED <<head, tail, size, got, list>> /\ to = "unlock" /\ pc[c] = "free"
        /\ alive' = alive \ {got[c]}
    BY <1>3, <1>5, <1>19 DEF FreeNode, Goto
  <2>2. IsList(k, s)' BY <1>10, <1>12, <2>1 DEF IsList
  <2>3. ~Work(c) BY <2>1 DEF Work, Goto
  <2>4. size'[k] = Len(s) BY <1>17, <2>1, <2>3
  <2> QED BY <1>10, <1>15, <1>16, <2>1, <2>2, <2>3, <2>4
<1>20. CASE Unlink(c) /\ list[c] # k
  <2>1. /\ UNCHANGED <<size, alive, got, list>> /\ to = "count" /\ pc[c] = "unlink"
        /\ head'[k] = head[k] /\ tail'[k] = tail[k]
    BY <1>3, <1>5, <1>20 DEF Unlink, Goto
  <2>2. got[c] = head[list[c]] /\ got[c] # Null BY <1>1, <2>1 DEF ThreadInv
  <2>3. PICK r \in Seq(Tasks) : IsList(list[c], r)
    <3>1. list[c] \in Kinds BY <1>3
    <3> HIDE DEF Kinds
    <3> QED BY <1>1, <3>1 DEF ListInv
  <2>4. r # << >> /\ got[c] = r[1] BY <2>2, <2>3 DEF IsList
  <2>5. Kind(got[c]) = list[c]
    <3>1. 1 \in DOMAIN r BY <2>4
    <3> QED BY <2>3, <2>4, <3>1 DEF IsList
  <2>6. IsList(k, s)' BY <1>10, <1>12, <1>20, <2>1, <2>5 DEF IsList
  <2>7. ~Work(c) BY <2>1 DEF Work, Goto
  <2>8. size'[k] = Len(s) BY <1>17, <2>1, <2>7
  <2> QED BY <1>15, <1>16, <1>20, <2>1, <2>6, <2>7, <2>8
<1>21. CASE Unlink(c) /\ list[c] = k
  <2>1. /\ UNCHANGED <<size, alive, got, list>> /\ to = "count" /\ pc[c] = "unlink"
        /\ IF head[k] = tail[k] THEN head'[k] = Null /\ tail'[k] = Null
           ELSE head'[k] = next[head[k]] /\ tail'[k] = tail[k]
    BY <1>3, <1>5, <1>21 DEF Unlink, Goto
  <2>2. got[c] = head[k] /\ got[c] # Null BY <1>1, <1>21, <2>1 DEF ThreadInv
  <2>3. s # << >> /\ got[c] = s[1] /\ 1 \in DOMAIN s /\ Len(s) \in DOMAIN s
    BY <1>10, <2>2 DEF IsList
  <2>4. ~Work(c) BY <2>1 DEF Work, Goto
  <2>5. \A t \in Tasks : pc[t] # "set_tail" /\ pc'[t] = pc[t] BY <1>6, <1>16, <2>4 DEF Inside
  <2>6. tail[k] = s[Len(s)] BY <1>10, <2>3, <2>5 DEF IsList
  <2>7. head[k] = tail[k] <=> Len(s) = 1 BY <1>10, <2>2, <2>3, <2>6 DEF IsList
  <2>8. /\ head'[k] = IF Len(s) = 1 THEN Null ELSE next[head[k]]
        /\ tail'[k] = IF Len(s) = 1 THEN Null ELSE tail[k]
    BY <2>1, <2>7
  <2>9. \A i \in DOMAIN s : i # 1 => /\ s[i] \in alive'
                                    /\ \A d \in Consumers : got'[d] = s[i] => pc'[d] = "unlink"
    <3>1. \A i \in DOMAIN s : i # 1 => s[i] # got'[c]
      BY <1>10, <2>1, <2>3 DEF IsList
    <3>2. \A i \in DOMAIN s : s[i] \in alive' /\ \A d \in Consumers \ {c} : got[d] = s[i] => pc[d] = "unlink"
      BY <1>10, <2>1 DEF IsList
    <3> QED BY <1>6, <3>1, <3>2
  <2>10. PICK r \in Seq(Tasks) : r = Tail(s) /\ Len(r) = Len(s) - 1 /\ IsList(k, r)'
    BY <1>7, <1>10, <2>3, <2>5, <2>8, <2>9, ListTail
  <2>11. size'[k] = Len(r) + 1 BY <1>17, <2>1, <2>4, <2>10
  <2> QED BY <1>15, <1>16, <1>21, <2>1, <2>4, <2>10, <2>11
<1> QED BY <1>13, <1>14, <1>18, <1>19, <1>20, <1>21 DEF Pop

\* A step of a client leaves no node unaccounted for.
LEMMA PushLists ==
  ASSUME QueueInv, TypeOK', NEW t \in Tasks, Push(t)
  PROVE  ListInv'
<1>1. ~closed /\ closed' = closed /\ UNCHANGED got
  BY DEF QueueInv, LockInv, Push, NewNode, Link, SetTail, CountPush, EndPush, Lock, Unlock, Goto
<1> SUFFICES ASSUME NEW k \in Kinds
             PROVE  \E r \in Seq(Tasks) : IsList(k, r)' /\ SizeInv(k, r)' /\ Accounted(k, r)'
  BY <1>1 DEF ListInv
<1>2. PICK s \in Seq(Tasks) : IsList(k, s) /\ SizeInv(k, s) /\ Accounted(k, s)
  BY <1>1 DEF QueueInv, ListInv
<1>3. PICK r \in Seq(Tasks) :
        /\ r = IF Kind(t) = k /\ Link(t) THEN Append(s, t) ELSE s
        /\ IsList(k, r)' /\ SizeInv(k, r)'
  BY <1>2, PushList
<1>4. \A u \in Threads \ {t} : pc'[u] = pc[u]
  BY DEF QueueInv, TypeOK, Push, NewNode, Link, SetTail, CountPush, EndPush, Lock, Unlock, Goto
<1>5. \A c \in Consumers : c \in Threads \ {t} OBVIOUS
<1>6. ASSUME NEW i \in DOMAIN s PROVE i \in DOMAIN r /\ r[i] = s[i]
  BY <1>3
<1>7. t \in alive' /\ Kind(t) = k => pc'[t] = "link" \/ \E i \in DOMAIN r : r[i] = t
  <2>1. CASE NewNode(t) BY <2>1 DEF NewNode, Lock, Goto, QueueInv, TypeOK
  <2>2. CASE Link(t) /\ Kind(t) = k
    <3>1. Len(r) \in DOMAIN r /\ r[Len(r)] = t BY <1>3, <2>2
    <3> QED BY <3>1
  <2>3. CASE SetTail(t) \/ CountPush(t) \/ EndPush(t)
    <3>1. alive' = alive /\ pc[t] # "link" /\ \A c \in Consumers : got[c] = t => pc[c] \notin {"count", "free"}
      BY <2>3 DEF SetTail, CountPush, EndPush, Unlock, Goto, QueueInv, ThreadInv
    <3> QED BY <1>2, <1>6, <3>1 DEF Accounted
  <2> QED BY <2>1, <2>2, <2>3 DEF Push
<1>8. ASSUME NEW u \in Tasks \ {t}, u \in alive' PROVE u \in alive
  BY <1>8 DEF Push, NewNode, Link, SetTail, CountPush, EndPush
<1>9. TypeOK' => alive' \subseteq Tasks BY DEF TypeOK
<1>10. Accounted(k, r)'
  <2> SUFFICES ASSUME NEW u \in alive', Kind(u) = k
               PROVE  \/ pc'[u] = "link" \/ \E i \in DOMAIN r : r[i] = u
                      \/ \E c \in Consumers : got'[c] = u /\ pc'[c] \in {"count", "free"}
    BY DEF Accounted
  <2>1. CASE u = t BY <1>7, <2>1
  <2>2. CASE u # t
    <3>1. u \in alive /\ pc'[u] = pc[u] BY <1>4, <1>8, <1>9, <2>2
    <3> QED BY <1>1, <1>2, <1>4, <1>5, <1>6, <3>1 DEF Accounted
  <2> QED BY <2>1, <2>2
<1> QED BY <1>3, <1>10

\* A step of a worker leaves no node unaccounted for.
LEMMA PopLists ==
  ASSUME QueueInv, TypeOK', NEW c \in Consumers, Pop(c)
  PROVE  ListInv'
<1>1. ~closed /\ closed' = closed
  BY DEF QueueInv, LockInv, Pop, LockTasks, Choose, PopEmpty, PopData, Unlink, CountPop, FreeNode, EndPop, Work,
         Lock, Unlock, Goto
<1> SUFFICES ASSUME NEW k \in Kinds
             PROVE  \E r \in Seq(Tasks) : IsList(k, r)' /\ SizeInv(k, r)' /\ Accounted(k, r)'
  BY <1>1 DEF ListInv
<1>2. PICK s \in Seq(Tasks) : IsList(k, s) /\ SizeInv(k, s) /\ Accounted(k, s)
  BY <1>1 DEF QueueInv, ListInv
<1>3. PICK r \in Seq(Tasks) :
        /\ r = IF list[c] = k /\ Unlink(c) THEN Tail(s) ELSE s
        /\ IsList(k, r)' /\ SizeInv(k, r)'
  BY <1>2, PopList
<1>4. /\ \A u \in Tasks : pc'[u] = pc[u]
      /\ \A d \in Consumers \ {c} : pc'[d] = pc[d] /\ got'[d] = got[d]
      /\ alive' \subseteq alive
  BY DEF QueueInv, TypeOK, Pop, LockTasks, Choose, PopEmpty, PopData, Unlink, CountPop, FreeNode, EndPop, Work,
         Lock, Unlock, Goto
<1>5. ASSUME NEW u \in alive', got[c] = u, pc[c] \in {"count", "free"}
      PROVE  got'[c] = u /\ pc'[c] \in {"count", "free"}
  BY <1>5 DEF QueueInv, TypeOK, Pop, LockTasks, Choose, PopEmpty, PopData, Unlink, CountPop, FreeNode, EndPop, Work,
         Lock, Unlock, Goto
<1>6. ASSUME NEW i \in DOMAIN s
      PROVE  \/ \E j \in DOMAIN r : r[j] = s[i]
             \/ got'[c] = s[i] /\ pc'[c] \in {"count", "free"}
  <2>1. CASE list[c] = k /\ Unlink(c)
    <3>1. pc[c] = "unlink" /\ pc'[c] = "count" /\ got' = got
      BY <2>1 DEF Unlink, Goto, QueueInv, TypeOK
    <3>2. s # << >> /\ got[c] = s[1]
      BY <1>2, <2>1, <3>1 DEF QueueInv, ThreadInv, IsList
    <3>3. r = Tail(s) BY <1>3, <2>1
    <3>4. CASE i = 1 BY <3>1, <3>2, <3>4
    <3>5. CASE i # 1
      <4>1. i - 1 \in DOMAIN r /\ r[i - 1] = s[i]
        BY <3>2, <3>3, <3>5
      <4> QED BY <4>1
    <3> QED BY <3>4, <3>5
  <2>2. CASE ~(list[c] = k /\ Unlink(c)) BY <1>3, <2>2
  <2> QED BY <2>1, <2>2
<1>7. Accounted(k, r)'
  <2> SUFFICES ASSUME NEW u \in alive', Kind(u) = k
               PROVE  \/ pc'[u] = "link" \/ \E i \in DOMAIN r : r[i] = u
                      \/ \E d \in Consumers : got'[d] = u /\ pc'[d] \in {"count", "free"}
    BY DEF Accounted
  <2>1. u \in alive /\ u \in Tasks BY <1>4 DEF QueueInv, TypeOK
  <2>2. \/ pc[u] = "link" \/ \E i \in DOMAIN s : s[i] = u
        \/ \E d \in Consumers : got[d] = u /\ pc[d] \in {"count", "free"}
    BY <1>2, <2>1 DEF Accounted
  <2>3. CASE pc[u] = "link" BY <1>4, <2>1, <2>3
  <2>4. CASE \E i \in DOMAIN s : s[i] = u BY <1>6, <2>4
  <2>5. CASE \E d \in Consumers : got[d] = u /\ pc[d] \in {"count", "free"}
    BY <1>4, <1>5, <2>5
  <2> QED BY <2>2, <2>3, <2>4, <2>5
<1> QED BY <1>3, <1>7

-----------------------------------------------------------------------------
(* ~ThreadPool: nobody is inside, and the nodes go one by one.             *)

LEMMA CloseKeeps ==
  ASSUME QueueInv, Close
  PROVE  QueueInv'
<1>1. UNCHANGED <<head, tail, size, next, alive, list, got, finished, task_mutex, pc>> /\ closed' = TRUE
  BY DEF Close
<1>2. TypeOK' BY <1>1 DEF QueueInv, TypeOK
<1>3. LockInv' BY <1>1 DEF QueueInv, LockInv, Close, Inside
<1>4. ThreadInv' BY <1>1 DEF QueueInv, ThreadInv
<1>5. ListInv'
  <2> SUFFICES ASSUME NEW k \in Kinds
               PROVE  \E s \in Seq(Tasks) : IsList(k, s)' /\ Accounted(k, s)'
    BY <1>1 DEF ListInv
  <2>1. PICK s \in Seq(Tasks) : IsList(k, s) /\ Accounted(k, s) BY DEF QueueInv, ListInv
  <2>2. IsList(k, s)' BY <1>1, <2>1 DEF IsList
  <2>3. Accounted(k, s)' BY <1>1, <2>1 DEF Accounted
  <2> QED BY <2>2, <2>3
<1> QED BY <1>2, <1>3, <1>4, <1>5 DEF QueueInv

LEMMA DestroyKeeps ==
  ASSUME QueueInv, NEW d \in Kinds, Destroy(d)
  PROVE  QueueInv'
<1>1. /\ UNCHANGED <<tail, size, next, list, got, finished, task_mutex, pc, closed>>
      /\ closed /\ head[d] # tail[d]
      /\ head' = [head EXCEPT ![d] = next[head[d]]] /\ alive' = alive \ {head[d]}
  BY DEF Destroy
<1>2. TypeOK /\ LockInv /\ ThreadInv /\ ListInv BY DEF QueueInv
<1>3. \A th \in Threads : pc[th] \in {"new", "done", "idle"} BY <1>1, <1>2 DEF LockInv
<1>4. \A c \in Consumers : got[c] = Null
  BY <1>2, <1>3 DEF ThreadInv
<1>5. PICK q \in Seq(Tasks) : IsList(d, q) /\ Accounted(d, q)
  BY <1>2 DEF ListInv
<1>6. \A t \in Tasks : pc[t] # "set_tail" /\ t \in Threads BY <1>3
<1>7. q # << >> BY <1>1, <1>5 DEF IsList
<1>8. 1 \in DOMAIN q /\ Len(q) \in DOMAIN q BY <1>7
<1>9. head[d] = q[1] /\ tail[d] = q[Len(q)] BY <1>5, <1>6, <1>7, <1>8 DEF IsList
<1>10. Len(q) # 1 BY <1>1, <1>9
<1>11. head[d] \in Tasks /\ Kind(head[d]) = d BY <1>5, <1>8, <1>9 DEF IsList
<1>12. TypeOK' BY <1>1, <1>2, <1>11 DEF TypeOK
<1>13. LockInv' BY <1>1, <1>2 DEF LockInv
<1>14. ThreadInv' BY <1>1, <1>2, <1>3, <1>4, <1>6 DEF ThreadInv
<1>15. ListInv'
  <2> SUFFICES ASSUME NEW k \in Kinds
               PROVE  \E s \in Seq(Tasks) : IsList(k, s)' /\ Accounted(k, s)'
    BY <1>1 DEF ListInv
  <2>1. CASE k = d
    <3>1. head'[k] = next[head[k]] /\ tail'[k] = tail[k] BY <1>1, <1>2, <2>1 DEF TypeOK
    <3>2. \A i \in DOMAIN q : i # 1 => /\ q[i] \in alive'
                                      /\ \A c \in Consumers : got'[c] = q[i] => pc'[c] = "unlink"
      BY <1>1, <1>4, <1>5, <1>8, <1>9 DEF IsList
    <3>3. Tail(q) \in Seq(Tasks) /\ IsList(k, Tail(q))'
      BY <1>1, <1>5, <1>6, <1>7, <1>10, <2>1, <3>1, <3>2, ListTail
    <3>4. \A i \in DOMAIN q : i # 1 => i - 1 \in DOMAIN Tail(q) /\ Tail(q)[i - 1] = q[i]
      BY <1>7
    <3>5. ASSUME NEW u \in alive', Kind(u) = k PROVE \E i \in DOMAIN Tail(q) : Tail(q)[i] = u
      <4>1. u \in alive /\ u # q[1] BY <1>1, <1>9
      <4>2. u \in Tasks BY <1>2, <4>1 DEF TypeOK
      <4>3. PICK i \in DOMAIN q : q[i] = u
        BY <1>3, <1>4, <1>5, <2>1, <3>5, <4>1, <4>2 DEF Accounted
      <4> QED BY <3>4, <4>1, <4>3
    <3>6. Accounted(k, Tail(q))' BY <3>5 DEF Accounted
    <3> QED BY <3>3, <3>6
  <2>2. CASE k # d
    <3>1. PICK s \in Seq(Tasks) : IsList(k, s) /\ Accounted(k, s) BY <1>2 DEF ListInv
    <3>2. head'[k] = head[k] /\ tail' = tail BY <1>1, <1>2, <2>2 DEF TypeOK
    <3>3. \A i \in DOMAIN s : s[i] \in alive' BY <1>1, <1>11, <2>2, <3>1 DEF IsList
    <3>4. IsList(k, s)' BY <1>1, <3>1, <3>2, <3>3 DEF IsList
    <3>5. Accounted(k, s)' BY <1>1, <3>1 DEF Accounted
    <3> QED BY <3>4, <3>5
  <2> QED BY <2>1, <2>2
<1> QED BY <1>12, <1>13, <1>14, <1>15 DEF QueueInv

-----------------------------------------------------------------------------
(* Contents walks along next_node; what it finds is the list.              *)

\* The least number of a set.
LEMMA Least ==
  ASSUME NEW S, S \subseteq Nat, S # {}
  PROVE  \E n \in S : \A m \in S : n <= m
<1> DEFINE R == OpToRel(<, Nat)
<1>1. IsWellFoundedOn(R, Nat) BY NatLessThanWellFounded
<1>2. \A i, j \in Nat : i < j => <<i, j>> \in R
  BY DEF OpToRel
<1> HIDE DEF R
<1>3. PICK n \in S : \A m \in S : ~(<<m, n>> \in R)
  <2>1. \E n \in S : \A m \in S : ~(<<m, n>> \in R) BY <1>1, WFMin
  <2> QED BY <2>1
<1>4. ASSUME NEW m \in S PROVE n <= m
  <2>1. m \in Nat /\ n \in Nat OBVIOUS
  <2>2. ~(m < n) BY <1>2, <1>3, <2>1
  <2> QED BY <2>1, <2>2
<1> QED BY <1>4

\* Induction over the naturals, with a set in place of a predicate.
LEMMA Induction ==
  ASSUME NEW S, 0 \in S, \A n \in Nat : n \in S => n + 1 \in S
  PROVE  Nat \subseteq S
<1> DEFINE T == Nat \ S
<1> SUFFICES ASSUME T # {} PROVE FALSE OBVIOUS
<1>1. PICK n \in T : \A m \in T : n <= m BY Least
<1>2. n # 0 /\ n - 1 \in Nat OBVIOUS
<1>3. n - 1 \in S BY <1>1, <1>2
<1> QED BY <1>2, <1>3

\* Different tasks are not more than all.
LEMMA LengthBound ==
  ASSUME NEW s \in Seq(Tasks), \A i, j \in DOMAIN s : s[i] = s[j] => i = j
  PROVE  Cardinality(Tasks) \in Nat /\ Len(s) <= Cardinality(Tasks)
<1>1. IsFiniteSet(1..Len(s)) /\ Cardinality(1..Len(s)) = Len(s)
  BY FS_Interval
<1>2. s \in [1..Len(s) -> Tasks] /\ DOMAIN s = 1..Len(s) OBVIOUS
<1>3. s \in Injection(1..Len(s), Tasks)
  BY <1>2 DEF Injection, IsInjective
<1>4. Cardinality(1..Len(s)) <= Cardinality(Tasks)
  BY <1>3, TasksAssumption, FS_Injection
<1>5. Cardinality(Tasks) \in Nat BY TasksAssumption, FS_CardinalityType
<1> QED BY <1>1, <1>4, <1>5

\* The first n elements of s, and one more.
LEMMA Prefix ==
  ASSUME NEW s \in Seq(Tasks), NEW n \in 1..Len(s)
  PROVE  /\ SubSeq(s, 1, n) \in Seq(Tasks) /\ Len(SubSeq(s, 1, n)) = n
         /\ SubSeq(s, 1, n)[n] = s[n] /\ SubSeq(s, 1, n)[1] = s[1]
         /\ n < Len(s) => SubSeq(s, 1, n + 1) = Append(SubSeq(s, 1, n), s[n + 1])
<1>1. Len(s) \in Nat /\ \A i \in 1..n : s[i] \in Tasks OBVIOUS
<1>2. /\ SubSeq(s, 1, n) \in Seq(Tasks) /\ Len(SubSeq(s, 1, n)) = n
      /\ \A i \in 1..n : SubSeq(s, 1, n)[i] = s[i]
  BY <1>1, SubSeqProperties
<1>3. ASSUME n < Len(s) PROVE SubSeq(s, 1, n + 1) = Append(SubSeq(s, 1, n), s[n + 1])
  <2>1. n + 1 \in 1..Len(s) /\ (n + 1) - 1 = n /\ s[n + 1] \in Tasks BY <1>1, <1>3
  <2>2. SubSeq(s, 1, n + 1) = SubSeq(s, 1, n) \o <<s[n + 1]>>
    BY <1>1, <2>1, SubSeqRecursiveSecond
  <2> QED BY <1>2, <2>1, <2>2, AppendIsConcat
<1> QED BY <1>2, <1>3

\* The recursion of Walk along the nodes of s, of which tail_ is number m.
LEMMA WalkIs ==
  ASSUME NEW k, NEW s \in Seq(Tasks), NEW m \in DOMAIN s,
         head[k] = s[1], tail[k] = s[m],
         \A i, j \in DOMAIN s : s[i] = s[j] => i = j,
         \A i \in DOMAIN s : i < Len(s) => next[s[i]] = s[i + 1],
         NEW n \in Nat
  PROVE  Walk(k)[n] = SubSeq(s, 1, IF n < m THEN n + 1 ELSE m)
<1> DEFINE More(p) == IF p[Len(p)] = tail[k] \/ next[p[Len(p)]] = Null
                      THEN p ELSE Append(p, next[p[Len(p)]])
           Rec(g) == [i \in Nat |-> IF i = 0 THEN <<head[k]>> ELSE More(g[i - 1])]
           part(i) == SubSeq(s, 1, IF i < m THEN i + 1 ELSE m)
           f == [i \in Nat |-> part(i)]
<1>1. Walk(k) = CHOOSE g : g = Rec(g)
  BY DEF Walk
<1>2. m \in Nat /\ 1 <= m /\ m <= Len(s) /\ Len(s) \in Nat /\ DOMAIN s = 1..Len(s) /\ Len(<<head[k]>>) = 1
  OBVIOUS
<1>3. part(0) = <<head[k]>>
  <2>1. part(0) = SubSeq(s, 1, 1) /\ s[1] \in Tasks BY <1>2
  <2>2. SubSeq(s, 1, 1) \in Seq(Tasks) /\ Len(SubSeq(s, 1, 1)) = 1 /\ SubSeq(s, 1, 1)[1] = s[1]
    BY <1>2, Prefix
  <2>3. <<s[1]>> \in Seq(Tasks) /\ Len(<<s[1]>>) = 1 /\ <<s[1]>>[1] = s[1] BY <2>1
  <2>4. \A i \in 1..1 : SubSeq(s, 1, 1)[i] = <<s[1]>>[i] BY <2>2, <2>3
  <2>5. SubSeq(s, 1, 1) = <<s[1]>>
    <3> DEFINE a == SubSeq(s, 1, 1)
               b == <<s[1]>>
    <3>1. a \in Seq(Tasks) /\ b \in Seq(Tasks) /\ Len(a) = Len(b) /\ \A i \in 1..Len(a) : a[i] = b[i]
      BY <2>2, <2>3, <2>4
    <3> HIDE DEF a, b
    <3>2. a = b BY <3>1, SeqEqual
    <3> QED BY <3>2 DEF a, b
  <2> QED BY <2>1, <2>5
<1>4. ASSUME NEW i \in Nat PROVE part(i + 1) = More(part(i))
  <2>1. CASE i + 1 < m
    <3>1. part(i) = SubSeq(s, 1, i + 1) /\ part(i + 1) = SubSeq(s, 1, (i + 1) + 1) BY <1>2, <2>1
    <3>2. i + 1 \in DOMAIN s /\ (i + 1) + 1 \in DOMAIN s BY <1>2, <2>1
    <3>3. Len(part(i)) = i + 1 /\ part(i)[i + 1] = s[i + 1] BY <1>2, <2>1, <3>1, <3>2, Prefix
    <3>4. next[s[i + 1]] = s[(i + 1) + 1] /\ s[i + 1] # s[m] /\ s[(i + 1) + 1] # Null
      BY <1>2, <2>1, <3>2
    <3>5. SubSeq(s, 1, (i + 1) + 1) = Append(SubSeq(s, 1, i + 1), s[(i + 1) + 1])
      BY <1>2, <2>1, <3>2, Prefix
    <3> HIDE DEF part
    <3> QED BY <3>1, <3>3, <3>4, <3>5
  <2>2. CASE ~(i + 1 < m)
    <3>1. part(i) = SubSeq(s, 1, m) /\ part(i + 1) = SubSeq(s, 1, m) BY <1>2, <2>2
    <3>2. Len(part(i)) = m /\ part(i)[m] = s[m] BY <1>2, <3>1, Prefix
    <3> HIDE DEF part
    <3> QED BY <3>1, <3>2
  <2> QED BY <2>1, <2>2
<1>5. f = Rec(f)
  <2>1. ASSUME NEW i \in Nat PROVE f[i] = Rec(f)[i]
    <3>1. CASE i = 0 BY <1>3, <3>1
    <3>2. CASE i # 0
      <4>1. i - 1 \in Nat /\ (i - 1) + 1 = i BY <3>2
      <4>2. f[i - 1] = part(i - 1) /\ f[i] = part(i) BY <4>1
      <4> HIDE DEF part, More
      <4> QED BY <1>4, <3>2, <4>1, <4>2
    <3> QED BY <3>1, <3>2
  <2> QED BY <2>1
<1> DEFINE w == Walk(k)
<1>6. w = Rec(w)
  <2> HIDE DEF Rec, f
  <2> QED BY <1>1, <1>5
<1> DEFINE S == {i \in Nat : w[i] = part(i)}
<1> HIDE DEF w, part, More
<1>7. 0 \in S BY <1>3, <1>6
<1>8. \A i \in Nat : i \in S => i + 1 \in S
  <2> SUFFICES ASSUME NEW i \in Nat, w[i] = part(i) PROVE w[i + 1] = part(i + 1)
    OBVIOUS
  <2>1. i + 1 \in Nat /\ i + 1 # 0 /\ (i + 1) - 1 = i OBVIOUS
  <2>2. \A j \in Nat : w[j] = IF j = 0 THEN <<head[k]>> ELSE More(w[j - 1])
    BY <1>6
  <2>3. w[i + 1] = More(w[i])
    BY <2>1, <2>2
  <2> QED BY <1>4, <2>3
<1>9. n \in S BY <1>7, <1>8, Induction
<1> QED BY <1>9 DEF w, part

\* Contents is the list, without the node that tail_ does not point to yet.
LEMMA ContentsIs ==
  ASSUME TypeOK, NEW k \in Kinds, NEW s \in Seq(Tasks), IsList(k, s)
  PROVE  /\ s = << >> => Contents(k) = << >>
         /\ s # << >> => Contents(k) = IF pc[s[Len(s)]] = "set_tail"
                                       THEN SubSeq(s, 1, Len(s) - 1) ELSE s
<1>1. CASE s = << >>
  BY <1>1 DEF IsList, Contents
<1>2. CASE s # << >> /\ pc[s[Len(s)]] = "set_tail" /\ Len(s) = 1
  BY <1>2 DEF IsList, Contents
<1>3. CASE s # << >> /\ ~(pc[s[Len(s)]] = "set_tail" /\ Len(s) = 1)
  <2> DEFINE m == IF pc[s[Len(s)]] = "set_tail" THEN Len(s) - 1 ELSE Len(s)
  <2>1. m \in DOMAIN s /\ m <= Len(s) /\ 1 \in DOMAIN s /\ Len(s) \in Nat
    <3>1. Len(s) \in Nat \ {0} /\ DOMAIN s = 1..Len(s) BY <1>3, EmptySeq
    <3> QED BY <1>3, <3>1
  <2>2. head[k] = s[1] /\ tail[k] = s[m] BY <1>3 DEF IsList
  <2>3. \A i, j \in DOMAIN s : s[i] = s[j] => i = j BY DEF IsList
  <2>4. \A i \in DOMAIN s : i < Len(s) => next[s[i]] = s[i + 1] BY DEF IsList
  <2>5. Cardinality(Tasks) \in Nat /\ Len(s) <= Cardinality(Tasks) BY <2>3, LengthBound
  <2>6. ~(Cardinality(Tasks) < m) BY <2>1, <2>5
  <2> HIDE DEF m
  <2>7. Walk(k)[Cardinality(Tasks)] = SubSeq(s, 1, m)
    BY <2>1, <2>2, <2>3, <2>4, <2>5, <2>6, WalkIs
  <2>8. Contents(k) = SubSeq(s, 1, m)
    BY <2>1, <2>2, <2>7 DEF Contents
  <2>9. SubSeq(s, 1, Len(s)) = s OBVIOUS
  <2> QED BY <1>3, <2>8, <2>9 DEF m
<1> QED BY <1>1, <1>2, <1>3

-----------------------------------------------------------------------------
(* What the unlocked reader and the destructor see.                        *)

LEMMA ContentsOf ==
  ASSUME QueueInv, NEW k \in Kinds
  PROVE  \E s \in Seq(Tasks) :
           /\ IsList(k, s) /\ (~closed => SizeInv(k, s)) /\ Accounted(k, s)
           /\ \/ Contents(k) = s /\ (\A t \in Tasks : Kind(t) = k => pc[t] # "set_tail")
              \/ \E t \in Tasks : /\ Kind(t) = k /\ pc[t] = "set_tail" /\ s # << >> /\ s[Len(s)] = t
                                 /\ Contents(k) = SubSeq(s, 1, Len(s) - 1)
<1>1. PICK s \in Seq(Tasks) : IsList(k, s) /\ (~closed => SizeInv(k, s)) /\ Accounted(k, s)
  BY DEF QueueInv, ListInv
<1>2. TypeOK BY DEF QueueInv
<1>3. CASE s = << >>
  <2>1. Contents(k) = s BY <1>1, <1>2, <1>3, ContentsIs
  <2>2. \A t \in Tasks : Kind(t) = k => pc[t] # "set_tail" BY <1>1, <1>3 DEF IsList
  <2> QED BY <1>1, <2>1, <2>2
<1>4. CASE s # << >>
  <2>1. Len(s) \in DOMAIN s /\ s[Len(s)] \in Tasks BY <1>4, EmptySeq
  <2>2. Kind(s[Len(s)]) = k BY <1>1, <2>1 DEF IsList
  <2>3. \A t \in Tasks : Kind(t) = k /\ pc[t] = "set_tail" => s[Len(s)] = t
    BY <1>1 DEF IsList
  <2>4. CASE pc[s[Len(s)]] = "set_tail"
    <3>1. Contents(k) = SubSeq(s, 1, Len(s) - 1) BY <1>1, <1>2, <1>4, <2>4, ContentsIs
    <3> QED BY <1>1, <1>4, <2>1, <2>2, <2>4, <3>1
  <2>5. CASE pc[s[Len(s)]] # "set_tail"
    <3>1. Contents(k) = s BY <1>1, <1>2, <1>4, <2>5, ContentsIs
    <3> QED BY <1>1, <2>3, <2>5, <3>1
  <2> QED BY <2>4, <2>5
<1> QED BY <1>3, <1>4

\* The list is Contents, with the node that tail_ does not point to yet.
LEMMA ContentsInside ==
  ASSUME NEW s \in Seq(Tasks), s # << >>
  PROVE  LET r == SubSeq(s, 1, Len(s) - 1) IN
           /\ r \in Seq(Tasks) /\ Len(r) = Len(s) - 1 /\ s = Append(r, s[Len(s)])
           /\ \A i \in DOMAIN r : i \in DOMAIN s /\ r[i] = s[i]
           /\ \A i \in DOMAIN s : i # Len(s) => i \in DOMAIN r
<1> DEFINE r == SubSeq(s, 1, Len(s) - 1)
<1>1. Len(s) \in Nat \ {0} /\ DOMAIN s = 1..Len(s) /\ \A i \in 1..Len(s) : s[i] \in Tasks BY EmptySeq
<1>2. /\ r \in Seq(Tasks) /\ Len(r) = Len(s) - 1
      /\ \A i \in 1..(Len(s) - 1) : r[i] = s[i]
  BY <1>1, SubSeqProperties
<1>3. SubSeq(s, 1, Len(s)) = r \o <<s[Len(s)]>>
  <2>1. 1 \in 1..Len(s) /\ Len(s) \in 1..Len(s) BY <1>1
  <2> QED BY <2>1, SubSeqRecursiveSecond
<1>4. s = Append(r, s[Len(s)])
  <2>1. s[Len(s)] \in Tasks BY <1>1
  <2>2. SubSeq(s, 1, Len(s)) = s BY SubSeqFull
  <2> HIDE DEF r
  <2>3. Append(r, s[Len(s)]) = r \o <<s[Len(s)]>> BY <1>2, <2>1, AppendIsConcat
  <2> QED BY <1>3, <2>2, <2>3
<1>5. DOMAIN r = 1..(Len(s) - 1) BY <1>2
<1> HIDE DEF r
<1>6. \A i \in DOMAIN r : i \in DOMAIN s /\ r[i] = s[i] BY <1>1, <1>2, <1>5
<1>7. \A i \in DOMAIN s : i # Len(s) => i \in DOMAIN r BY <1>1, <1>5
<1> QED BY <1>2, <1>4, <1>6, <1>7 DEF r

LEMMA NodesStep == QueueInv => NodesMatchLists
<1> SUFFICES ASSUME QueueInv, ~closed
             PROVE  /\ \A k \in Kinds : Elements(k) \subseteq alive
                    /\ alive \ UNION {Elements(k) : k \in Kinds} \subseteq
                         {t \in Tasks : pc[t] \in {"link", "set_tail"}} \cup {got[c] : c \in Consumers}
  BY DEF NodesMatchLists
<1>1. ASSUME NEW k \in Kinds
      PROVE  /\ Elements(k) \subseteq alive
             /\ \A t \in alive : Kind(t) = k => \/ t \in Elements(k)
                                               \/ pc[t] \in {"link", "set_tail"}
                                               \/ \E c \in Consumers : got[c] = t
  <2>1. PICK s \in Seq(Tasks) :
           /\ IsList(k, s) /\ Accounted(k, s)
           /\ \/ Contents(k) = s
              \/ \E t \in Tasks : /\ Kind(t) = k /\ pc[t] = "set_tail" /\ s # << >> /\ s[Len(s)] = t
                                 /\ Contents(k) = SubSeq(s, 1, Len(s) - 1)
    BY <1>1, ContentsOf
  <2>2. CASE Contents(k) = s
    <3>1. Elements(k) = {s[i] : i \in DOMAIN s} BY <2>2 DEF Elements
    <3>2. \A i \in DOMAIN s : s[i] \in alive BY <2>1 DEF IsList
    <3>3. ASSUME NEW t \in alive, Kind(t) = k
          PROVE  \/ \E i \in DOMAIN s : s[i] = t
                 \/ pc[t] = "link" \/ \E c \in Consumers : got[c] = t
      BY <2>1, <3>3 DEF Accounted
    <3> QED BY <3>1, <3>2, <3>3
  <2>3. CASE s # << >> /\ pc[s[Len(s)]] = "set_tail" /\ Contents(k) = SubSeq(s, 1, Len(s) - 1)
    <3> DEFINE r == SubSeq(s, 1, Len(s) - 1)
    <3>1. /\ \A i \in DOMAIN r : i \in DOMAIN s /\ r[i] = s[i]
          /\ \A i \in DOMAIN s : i # Len(s) => i \in DOMAIN r
      BY <2>3, ContentsInside
    <3>2. Elements(k) = {r[i] : i \in DOMAIN r} BY <2>3 DEF Elements
    <3>3. \A i \in DOMAIN s : s[i] \in alive BY <2>1 DEF IsList
    <3>4. ASSUME NEW t \in alive, Kind(t) = k
          PROVE  \/ \E i \in DOMAIN s : s[i] = t
                 \/ pc[t] = "link" \/ \E c \in Consumers : got[c] = t
      BY <2>1, <3>4 DEF Accounted
    <3> HIDE DEF r
    <3>5. \A i \in DOMAIN s : s[i] \in Elements(k) \/ pc[s[i]] = "set_tail"
      BY <2>3, <3>1, <3>2
    <3> QED BY <3>1, <3>2, <3>3, <3>4, <3>5
  <2> QED BY <2>1, <2>2, <2>3
<1>2. alive \subseteq Tasks /\ \A t \in alive : Kind(t) \in Kinds BY DEF QueueInv, TypeOK
<1> HIDE DEF Kinds, Kind
<1> QED BY <1>1, <1>2

LEMMA SizeStep == QueueInv => SizeWithinOne
<1> SUFFICES ASSUME QueueInv, ~closed, NEW k \in Kinds
             PROVE  /\ size[k] - Len(Contents(k)) \in {-1, 0, 1}
                    /\ task_mutex = Free => size[k] = Len(Contents(k))
  BY DEF SizeWithinOne
<1>1. PICK s \in Seq(Tasks) :
         /\ SizeInv(k, s)
         /\ \/ Contents(k) = s /\ (\A t \in Tasks : Kind(t) = k => pc[t] # "set_tail")
            \/ \E t \in Tasks : /\ Kind(t) = k /\ pc[t] = "set_tail" /\ s # << >> /\ s[Len(s)] = t
                               /\ Contents(k) = SubSeq(s, 1, Len(s) - 1)
  BY ContentsOf
<1>2. Len(s) \in Nat /\ size[k] \in Nat BY DEF QueueInv, TypeOK
<1> DEFINE pushed == \E t \in Tasks : Kind(t) = k /\ pc[t] \in {"set_tail", "count"}
           popped == \E c \in Consumers : list[c] = k /\ pc[c] = "count"
<1>3. size[k] + (IF pushed THEN 1 ELSE 0) = Len(s) + (IF popped THEN 1 ELSE 0)
  BY <1>1 DEF SizeInv
<1>4. task_mutex = Free => ~pushed /\ ~popped
  BY DEF QueueInv, LockInv, Inside
<1>5. CASE Contents(k) = s /\ (\A t \in Tasks : Kind(t) = k => pc[t] # "set_tail")
  <2> HIDE DEF pushed, popped
  <2> QED BY <1>2, <1>3, <1>4, <1>5
<1>6. CASE \E t \in Tasks : /\ Kind(t) = k /\ pc[t] = "set_tail" /\ s # << >>
                           /\ Contents(k) = SubSeq(s, 1, Len(s) - 1)
  <2>1. pushed /\ Len(Contents(k)) = Len(s) - 1 BY <1>6, ContentsInside
  <2>2. ~popped BY <1>6, Exclusion DEF QueueInv, Inside
  <2> HIDE DEF pushed, popped
  <2> QED BY <1>2, <1>3, <1>4, <2>1, <2>2
<1> QED BY <1>1, <1>5, <1>6

LEMMA DestroyStep == QueueInv => DestroyLeavesTheLast
<1> SUFFICES ASSUME QueueInv, closed, NEW k \in Kinds, head[k] = tail[k]
             PROVE  alive \cap {t \in Tasks : Kind(t) = k} = {tail[k]} \ {Null}
  BY DEF DestroyLeavesTheLast
<1>1. PICK s \in Seq(Tasks) : IsList(k, s) /\ Accounted(k, s)
  BY DEF QueueInv, ListInv
<1>2. \A th \in Threads : pc[th] \in {"new", "done", "idle"} BY DEF QueueInv, LockInv
<1>3. \A t \in alive : Kind(t) = k => \E i \in DOMAIN s : s[i] = t
  BY <1>1, <1>2 DEF Accounted, QueueInv, TypeOK
<1>4. CASE s = << >>
  <2>1. tail[k] = Null /\ DOMAIN s = {} BY <1>1, <1>4 DEF IsList
  <2> QED BY <1>3, <2>1
<1>5. CASE s # << >>
  <2>1. Len(s) \in DOMAIN s /\ 1 \in DOMAIN s /\ DOMAIN s = 1..Len(s) BY <1>5, EmptySeq
  <2>2. s[Len(s)] \in Tasks /\ pc[s[Len(s)]] # "set_tail" BY <1>2, <2>1
  <2>3. head[k] = s[1] /\ tail[k] = s[Len(s)] BY <1>1, <1>5, <2>2 DEF IsList
  <2>4. Len(s) = 1 BY <1>1, <2>1, <2>3 DEF IsList
  <2>5. s[1] \in alive /\ Kind(s[1]) = k BY <1>1, <2>1 DEF IsList
  <2>6. \A t \in alive : Kind(t) = k => t = s[1] BY <1>3, <2>1, <2>4
  <2> QED BY <2>2, <2>3, <2>4, <2>5, <2>6
<1> QED BY <1>4, <1>5

-----------------------------------------------------------------------------
(* The theorems.                                                           *)

LEMMA QueueInit == Init => QueueInv
<1> SUFFICES ASSUME Init PROVE QueueInv
  OBVIOUS
<1>1. TypeOK BY DEF Init, TypeOK
<1>2. LockInv BY DEF Init, LockInv, Inside
<1>3. ThreadInv BY DEF Init, ThreadInv
<1>4. ListInv
  <2> SUFFICES ASSUME NEW k \in Kinds
               PROVE  \E s \in Seq(Tasks) : IsList(k, s) /\ SizeInv(k, s) /\ Accounted(k, s)
    BY DEF ListInv
  <2>1. \A th \in Threads : pc[th] \notin {"set_tail", "count"} BY DEF Init
  <2>2. head[k] = Null /\ tail[k] = Null /\ size[k] = 0 BY DEF Init
  <2>3. << >> \in Seq(Tasks) /\ Len(<< >>) = 0 /\ DOMAIN << >> = {} OBVIOUS
  <2>4. IsList(k, << >>) BY <2>1, <2>2, <2>3 DEF IsList
  <2>5. SizeInv(k, << >>) BY <2>1, <2>2, <2>3 DEF SizeInv
  <2>6. Accounted(k, << >>) BY DEF Init, Accounted
  <2> QED BY <2>3, <2>4, <2>5, <2>6
<1> QED BY <1>1, <1>2, <1>3, <1>4 DEF QueueInv

LEMMA QueueStep == QueueInv /\ [Next]_vars => QueueInv'
<1> SUFFICES ASSUME QueueInv, [Next]_vars PROVE QueueInv'
  OBVIOUS
<1>1. ASSUME NEW t \in Tasks, Push(t) PROVE QueueInv'
  BY <1>1, PushThreads, PushLists DEF QueueInv
<1>2. ASSUME NEW c \in Consumers, Pop(c) PROVE QueueInv'
  BY <1>2, PopThreads, PopLists DEF QueueInv
<1>3. CASE Close BY <1>3, CloseKeeps
<1>4. ASSUME NEW k \in Kinds, Destroy(k) PROVE QueueInv'
  BY <1>4, DestroyKeeps
<1>5. CASE UNCHANGED vars
  <2>1. UNCHANGED <<head, tail, size, next, alive, list, got, finished, task_mutex, pc, closed>>
    BY <1>5 DEF vars
  <2>2. TypeOK' /\ LockInv' /\ ThreadInv' BY <2>1 DEF QueueInv, TypeOK, LockInv, ThreadInv
  <2>3. ListInv' BY <2>1 DEF QueueInv, ListInv, IsList, SizeInv, Accounted
  <2> QED BY <2>2, <2>3 DEF QueueInv
<1> QED BY <1>1, <1>2, <1>3, <1>4, <1>5 DEF Next

LEMMA QueueInvariant == Spec => []QueueInv
BY QueueInit, QueueStep, PTL DEF Spec

\* size_, which get_task and the manager compare with zero, is never negative,
\* head_, tail_ and next_node are a node or null, and a worker never takes a
\* task from an empty list (queue.h:46-85).
THEOREM TypeCorrect == Spec => []TypeOK
BY QueueInvariant, PTL DEF QueueInv

\* At every moment each list is a chain of nodes that have not been freed, from
\* head_ to tail_, and size_ differs from its length by the call under way
\* (queue.h:46-85).
THEOREM ListsSound == Spec => []ListInv
BY QueueInvariant, PTL DEF QueueInv

\* Whoever is inside push or pop holds task_mutex_, so the calls exclude each
\* other (thread.cc:239-280).
THEOREM CallsExclude == Spec => []LockInv
BY QueueInvariant, PTL DEF QueueInv

\* No node of a list has been freed, and a node that has not been freed is on
\* its list or in the hands of the thread inside push or pop (queue.h:65-85).
THEOREM NodesMatch == Spec => []NodesMatchLists
BY QueueInvariant, NodesStep, PTL

\* The size that is read without the lock is off by the one call under way at
\* most (thread.cc:319, queue.h:59, 79).
THEOREM SizeRight == Spec => []SizeWithinOne
BY QueueInvariant, SizeStep, PTL

\* When ~Queue stops, it has left the last node of each list, and no other
\* (queue.h:30-44).
THEOREM LastNodeLeft == Spec => []DestroyLeavesTheLast
BY QueueInvariant, DestroyStep, PTL

-----------------------------------------------------------------------------
(* The lists implement the abstract service.                               *)

\* Nobody else gets a task that a worker has, or one that is finished.
LEMMA GivenPush ==
  ASSUME QueueInv, GivenInv, NEW t \in Tasks, Push(t)
  PROVE  GivenInv'
<1>1. UNCHANGED <<got, list, finished>> /\ alive' \subseteq alive \cup {t} /\ (t \in alive' => t \in alive \/ pc[t] = "new")
  BY DEF Push, NewNode, Link, SetTail, CountPush, EndPush, Lock, Unlock, Goto
<1>2. pc[t] # "done" /\ \A u \in Threads \ {t} : pc'[u] = pc[u]
  BY DEF Push, NewNode, Link, SetTail, CountPush, EndPush, Lock, Unlock, Goto, QueueInv, TypeOK
<1>3. \A c \in Consumers : c \in Threads \ {t} /\ pc'[c] = pc[c] BY <1>2
<1>4. \A c \in Consumers : got[c] # Null => pc[got[c]] = "done" /\ got[c] # t
  BY <1>2 DEF QueueInv, ThreadInv
<1>5. \A u \in finished : u \in Threads \ {t} BY <1>2 DEF GivenInv, QueueInv, TypeOK
<1>6. ASSUME NEW c \in Consumers, pc[c] \in {"pop", "unlink"} PROVE size' = size
  <2>1. pc[t] \notin Inside BY <1>3, <1>6, Exclusion DEF QueueInv, Inside
  <2> QED BY <2>1 DEF Push, NewNode, Link, SetTail, CountPush, EndPush, Lock, Unlock, Goto, Inside
<1>7. t \in alive' => t \in alive \/ \A c \in Consumers : got[c] # t BY <1>2, <1>4
<1>8. Null \notin alive' BY <1>1 DEF QueueInv, TypeOK
<1>9. \A c \in Consumers : pc[c] \in {"unlock", "work"} => got[c] \notin alive'
  BY <1>1, <1>4, <1>8 DEF GivenInv
<1>10. \A u \in finished : u \notin alive' /\ pc'[u] = "done"
  BY <1>1, <1>2, <1>5 DEF GivenInv
<1> QED BY <1>1, <1>3, <1>6, <1>9, <1>10 DEF GivenInv

LEMMA GivenPop ==
  ASSUME QueueInv, QueueInv', GivenInv, NEW c \in Consumers, Pop(c)
  PROVE  GivenInv'
<1>1. /\ \A d \in Consumers \ {c} : pc'[d] = pc[d] /\ got'[d] = got[d] /\ list'[d] = list[d]
      /\ \A t \in Tasks : pc'[t] = pc[t]
      /\ alive' \subseteq alive
  BY DEF Pop, LockTasks, Choose, PopEmpty, PopData, Unlink, CountPop, FreeNode, EndPop, Work,
         Lock, Unlock, Goto, QueueInv, TypeOK
<1>2. /\ got \in [Consumers -> Tasks \cup {Null}] /\ list \in [Consumers -> Kinds]
      /\ finished \subseteq Tasks /\ alive \subseteq Tasks /\ c \in Threads /\ size \in [Kinds -> Nat]
      /\ pc \in [Threads -> {"new", "link", "set_tail", "count", "unlock", "done", "idle",
                            "choose", "pop", "unlink", "free", "work"}]
  BY DEF QueueInv, TypeOK
<1>3. ASSUME NEW d \in Consumers \ {c}, pc[d] \in {"pop", "unlink"} PROVE size' = size
  <2>1. pc[c] \notin Inside BY <1>3, Exclusion DEF QueueInv, Inside
  <2> QED BY <2>1 DEF Pop, LockTasks, Choose, PopEmpty, PopData, Unlink, CountPop, FreeNode, EndPop, Work,
         Lock, Unlock, Goto, Inside
<1>4. CASE PopData(c)
  <2>1. pc[c] = "pop" /\ got' = [got EXCEPT ![c] = head[list[c]]] /\ pc' = [pc EXCEPT ![c] = "unlink"]
        /\ UNCHANGED <<list, finished, alive, size>>
    BY <1>4 DEF PopData, Goto
  <2> DEFINE h == head[list[c]]
  <2>2. h \in Tasks /\ pc[h] = "done" BY <1>4, PoppedHead
  <2>3. h \in alive /\ \A d \in Consumers : got[d] = h => pc[d] = "unlink"
    <3>1. PICK s \in Seq(Tasks) : IsList(list[c], s)
      <4>1. list[c] \in Kinds BY <1>2
      <4> HIDE DEF Kinds
      <4> QED BY <4>1 DEF QueueInv, ListInv
    <3>2. s # << >> => 1 \in DOMAIN s /\ h = s[1] BY <3>1 DEF IsList
    <3>3. s # << >> BY <2>2, <3>1 DEF IsList
    <3> QED BY <3>1, <3>2, <3>3 DEF IsList
  <2>4. \A d \in Consumers \ {c} : got[d] # h
    BY <2>1, <2>3, Exclusion DEF QueueInv, Inside
  <2>5. h \notin finished BY <2>3 DEF GivenInv
  <2>6. got'[c] = h /\ pc'[c] = "unlink" /\ list'[c] = list[c] BY <1>2, <2>1
  <2> HIDE DEF h
  <2>7. \A d, e \in Consumers : got'[d] = got'[e] /\ got'[d] # Null => d = e
    BY <1>1, <2>4, <2>6 DEF GivenInv
  <2>8. \A d \in Consumers : got'[d] \notin finished BY <1>1, <2>5, <2>6 DEF GivenInv
  <2> QED BY <1>1, <2>1, <2>6, <2>7, <2>8 DEF GivenInv
<1>5. CASE Work(c)
  <2>1. /\ pc[c] = "work" /\ pc' = [pc EXCEPT ![c] = "idle"] /\ finished' = finished \cup {got[c]}
        /\ got' = [got EXCEPT ![c] = Null] /\ UNCHANGED <<list, alive, size>>
    BY <1>5 DEF Work, Goto
  <2>2. got'[c] = Null /\ pc'[c] = "idle" BY <1>2, <2>1
  <2>3. got[c] \in Tasks /\ got[c] \notin alive /\ pc[got[c]] = "done"
    BY <1>2, <2>1 DEF GivenInv, QueueInv, ThreadInv
  <2>4. \A d \in Consumers \ {c} : got[d] # got[c] BY <1>2, <2>3 DEF GivenInv
  <2>5. \A d, e \in Consumers : got'[d] = got'[e] /\ got'[d] # Null => d = e
    BY <1>1, <2>2 DEF GivenInv
  <2>6. \A d \in Consumers : got'[d] \notin finished'
    BY <1>1, <1>2, <2>1, <2>2, <2>3, <2>4 DEF GivenInv
  <2>7. \A t \in finished' : t \notin alive /\ pc'[t] = "done"
    BY <1>1, <1>2, <2>1, <2>3 DEF GivenInv
  <2> QED BY <1>1, <2>1, <2>2, <2>5, <2>6, <2>7 DEF GivenInv
<1>6. CASE Choose(c)
  <2>1. /\ pc' = [pc EXCEPT ![c] = "pop"] /\ UNCHANGED <<got, finished, alive, size>>
        /\ list' = [list EXCEPT ![c] = IF size["urgent"] > 0 THEN "urgent" ELSE "normal"]
    BY <1>6 DEF Choose, Goto
  <2>2. pc'[c] = "pop" /\ (list'[c] = "urgent" <=> size["urgent"] > 0) BY <1>2, <2>1
  <2> QED BY <1>1, <1>2, <2>1, <2>2 DEF GivenInv
<1>7. CASE FreeNode(c)
  <2>1. /\ pc' = [pc EXCEPT ![c] = "unlock"] /\ UNCHANGED <<got, list, finished, size>>
        /\ alive' = alive \ {got[c]}
    BY <1>7 DEF FreeNode, Goto
  <2>2. pc'[c] = "unlock" /\ got[c] \notin alive' BY <1>2, <2>1
  <2> QED BY <1>1, <1>2, <2>1, <2>2 DEF GivenInv
<1>8. CASE PopEmpty(c)
  <2>1. pc[c] = "pop" /\ pc' = [pc EXCEPT ![c] = "unlock"] /\ UNCHANGED <<got, list, finished, size, alive>>
    BY <1>8 DEF PopEmpty, Goto
  <2>2. pc'[c] = "unlock" /\ got[c] \notin alive BY <1>2, <2>1 DEF QueueInv, ThreadInv
  <2> QED BY <1>1, <1>2, <2>1, <2>2 DEF GivenInv
<1>9. CASE LockTasks(c) \/ Unlink(c) \/ EndPop(c)
  <2>1. /\ UNCHANGED <<got, list, finished, size, alive>>
        /\ pc'[c] \notin {"pop", "unlink"}
        /\ pc'[c] \in {"unlock", "work"} => pc[c] = "unlock"
    BY <1>2, <1>9 DEF LockTasks, Unlink, EndPop, Lock, Unlock, Goto
  <2> QED BY <1>1, <1>2, <2>1 DEF GivenInv
<1>10. CASE CountPop(c)
  <2>1. UNCHANGED <<got, list, finished, alive>> /\ pc'[c] = "free"
    BY <1>2, <1>10 DEF CountPop, Goto
  <2> QED BY <1>1, <1>2, <1>3, <2>1 DEF GivenInv
<1> QED BY <1>4, <1>5, <1>6, <1>7, <1>8, <1>9, <1>10 DEF Pop

LEMMA GivenInvariant == Spec => []GivenInv
<1>1. Init => GivenInv BY DEF Init, GivenInv
<1>2. QueueInv /\ QueueInv' /\ GivenInv /\ [Next]_vars => GivenInv'
  <2> SUFFICES ASSUME QueueInv, QueueInv', GivenInv, [Next]_vars PROVE GivenInv'
    OBVIOUS
  <2>1. ASSUME NEW t \in Tasks, Push(t) PROVE GivenInv' BY <2>1, GivenPush
  <2>2. ASSUME NEW c \in Consumers, Pop(c) PROVE GivenInv' BY <2>2, GivenPop
  <2>3. CASE Close \/ (\E k \in Kinds : Destroy(k)) \/ UNCHANGED vars
    <3>1. UNCHANGED <<got, list, finished, size, pc>> /\ alive' \subseteq alive
      BY <2>3 DEF Close, Destroy, vars
    <3> QED BY <3>1 DEF GivenInv
  <2> QED BY <2>1, <2>2, <2>3 DEF Next
<1> QED BY <1>1, <1>2, QueueInvariant, PTL DEF Spec

\* ContentsIs as one formula, which then holds of the next state too.
ContentsAre ==
  \A k \in Kinds, s \in Seq(Tasks) : IsList(k, s) =>
    /\ s = << >> => Contents(k) = << >>
    /\ s # << >> => Contents(k) = IF pc[s[Len(s)]] = "set_tail"
                                  THEN SubSeq(s, 1, Len(s) - 1) ELSE s

LEMMA ContentsOfLists == TypeOK => ContentsAre
BY ContentsIs DEF ContentsAre

LEMMA ContentsNext == TypeOK' => ContentsAre'
BY ContentsOfLists, PTL

\* A push adds its task to Contents when tail_ reaches the node.
LEMMA PushContents ==
  ASSUME QueueInv, TypeOK', NEW t \in Tasks, Push(t), NEW k \in Kinds
  PROVE  Contents(k)' = IF SetTail(t) /\ Kind(t) = k THEN Append(Contents(k), t) ELSE Contents(k)
<1>1. TypeOK /\ ContentsAre /\ ContentsAre'
  BY ContentsOfLists, ContentsNext DEF QueueInv
<1>2. ~closed
  BY DEF QueueInv, LockInv, Push, NewNode, Link, SetTail, CountPush, EndPush, Lock, Unlock, Goto
<1>3. PICK s \in Seq(Tasks) : IsList(k, s) /\ SizeInv(k, s)
  <2> HIDE DEF Kinds
  <2> QED BY <1>2 DEF QueueInv, ListInv
<1>4. PICK r \in Seq(Tasks) : r = (IF Kind(t) = k /\ Link(t) THEN Append(s, t) ELSE s) /\ IsList(k, r)'
  BY <1>3, PushList
<1>5. /\ s # << >> => Len(s) \in DOMAIN s /\ s[Len(s)] \in Tasks
      /\ s # << >> => Kind(s[Len(s)]) = k
  <2>1. s # << >> => Len(s) \in DOMAIN s /\ s[Len(s)] \in Tasks BY EmptySeq
  <2> QED BY <1>3, <2>1 DEF IsList
<1>6. /\ s = << >> => Contents(k) = << >>
      /\ s # << >> => Contents(k) = IF pc[s[Len(s)]] = "set_tail" THEN SubSeq(s, 1, Len(s) - 1) ELSE s
  BY <1>1, <1>3 DEF ContentsAre
<1>7. /\ r = << >> => Contents(k)' = << >>
      /\ r # << >> => Contents(k)' = IF pc'[r[Len(r)]] = "set_tail" THEN SubSeq(r, 1, Len(r) - 1) ELSE r
  BY <1>1, <1>4 DEF ContentsAre
<1>8. pc[t] \in {"new", "link", "set_tail", "count", "unlock"}
      /\ \A u \in Tasks \ {t} : pc'[u] = pc[u]
  BY <1>1 DEF TypeOK, Push, NewNode, Link, SetTail, CountPush, EndPush, Lock, Unlock, Goto
<1>9. CASE Kind(t) = k /\ Link(t)
  <2>1. r = Append(s, t) /\ r # << >> /\ r[Len(r)] = t /\ Len(r) - 1 = Len(s) BY <1>4, <1>9
  <2>2. pc[t] = "link" /\ pc'[t] = "set_tail" BY <1>1, <1>9 DEF Link, Goto, TypeOK
  <2>3. s # << >> => pc[s[Len(s)]] # "set_tail"
    BY <1>5, <2>2, Exclusion DEF QueueInv, Inside
  <2>4. SubSeq(r, 1, Len(s)) = s BY <2>1
  <2>5. ~SetTail(t) BY <2>2 DEF SetTail, Goto
  <2> QED BY <1>6, <1>7, <2>1, <2>2, <2>3, <2>4, <2>5
<1>10. CASE Kind(t) = k /\ SetTail(t)
  <2>1. pc[t] = "set_tail" /\ pc'[t] = "count" /\ r = s
    BY <1>1, <1>4, <1>10 DEF SetTail, Link, Goto, TypeOK
  <2>2. s # << >> /\ s[Len(s)] = t BY <1>3, <1>10, <2>1 DEF IsList
  <2>3. s = Append(SubSeq(s, 1, Len(s) - 1), t) BY <2>2, ContentsInside
  <2> QED BY <1>6, <1>7, <1>10, <2>1, <2>2, <2>3
<1>11. CASE ~(Kind(t) = k /\ (Link(t) \/ SetTail(t)))
  <2>1. r = s BY <1>4, <1>11
  <2>2. Kind(t) = k => pc[t] # "set_tail" /\ pc'[t] # "set_tail"
    BY <1>1, <1>11 DEF TypeOK, Push, NewNode, Link, SetTail, CountPush, EndPush, Lock, Unlock, Goto
  <2>3. s # << >> => (pc'[s[Len(s)]] = "set_tail" <=> pc[s[Len(s)]] = "set_tail")
    BY <1>5, <1>8, <2>2
  <2> QED BY <1>6, <1>7, <1>11, <2>1, <2>3
<1> QED BY <1>9, <1>10, <1>11

\* A pop takes the first task off Contents when head_ leaves the node.
LEMMA PopContents ==
  ASSUME QueueInv, TypeOK', NEW c \in Consumers, Pop(c), NEW k \in Kinds
  PROVE  Contents(k)' = IF Unlink(c) /\ list[c] = k THEN Tail(Contents(k)) ELSE Contents(k)
<1>1. TypeOK /\ ContentsAre /\ ContentsAre'
  BY ContentsOfLists, ContentsNext DEF QueueInv
<1>2. ~closed
  BY DEF QueueInv, LockInv, Pop, LockTasks, Choose, PopEmpty, PopData, Unlink, CountPop, FreeNode, EndPop,
         Work, Lock, Unlock, Goto
<1>3. PICK s \in Seq(Tasks) : IsList(k, s) /\ SizeInv(k, s)
  <2> HIDE DEF Kinds
  <2> QED BY <1>2 DEF QueueInv, ListInv
<1>4. PICK r \in Seq(Tasks) : r = (IF list[c] = k /\ Unlink(c) THEN Tail(s) ELSE s) /\ IsList(k, r)'
  BY <1>3, PopList
<1>5. \A u \in Tasks : pc'[u] = pc[u]
  BY <1>1 DEF TypeOK, Pop, LockTasks, Choose, PopEmpty, PopData, Unlink, CountPop, FreeNode, EndPop, Work,
              Lock, Unlock, Goto
<1>6. /\ s = << >> => Contents(k) = << >>
      /\ s # << >> => Contents(k) = IF pc[s[Len(s)]] = "set_tail" THEN SubSeq(s, 1, Len(s) - 1) ELSE s
  BY <1>1, <1>3 DEF ContentsAre
<1>7. /\ r = << >> => Contents(k)' = << >>
      /\ r # << >> => Contents(k)' = IF pc'[r[Len(r)]] = "set_tail" THEN SubSeq(r, 1, Len(r) - 1) ELSE r
  BY <1>1, <1>4 DEF ContentsAre
<1>8. s # << >> => s[Len(s)] \in Tasks BY EmptySeq
<1>9. r # << >> => r[Len(r)] \in Tasks BY EmptySeq
<1>10. CASE list[c] = k /\ Unlink(c)
  <2>1. pc[c] = "unlink" BY <1>10 DEF Unlink, Goto
  <2>2. \A u \in Tasks : pc[u] # "set_tail" BY <2>1, Exclusion DEF QueueInv, Inside
  <2>3. r = Tail(s) BY <1>4, <1>10
  <2>4. Contents(k) = s BY <1>6, <1>8, <2>2
  <2>5. Contents(k)' = r BY <1>5, <1>7, <1>9, <2>2
  <2> QED BY <1>10, <2>3, <2>4, <2>5
<1>11. CASE ~(list[c] = k /\ Unlink(c))
  BY <1>4, <1>5, <1>6, <1>7, <1>8, <1>11
<1> QED BY <1>10, <1>11

\* What a worker that unlinks has read is the first task of its list, and no
\* priority task waits when it is a normal one.
LEMMA UnlinkFirst ==
  ASSUME QueueInv, GivenInv, NEW c \in Consumers, Unlink(c)
  PROVE  /\ ~closed
         /\ got[c] \in Tasks /\ pc[got[c]] = "done" /\ got[c] \notin finished
         /\ \A d \in Consumers : got[d] = got[c] => d = c
         /\ Contents(list[c]) # << >> /\ got[c] = Head(Contents(list[c]))
         /\ list[c] = "normal" => Contents("urgent") = << >>
<1>1. pc[c] = "unlink" BY DEF Unlink, Goto
<1>2. ~closed BY <1>1 DEF QueueInv, LockInv
<1>3. got[c] # Null /\ got[c] = head[list[c]] /\ pc[got[c]] = "done" BY <1>1 DEF QueueInv, ThreadInv
<1>4. got[c] \in Tasks /\ list[c] \in Kinds /\ size \in [Kinds -> Nat] /\ "urgent" \in Kinds
  BY <1>3 DEF QueueInv, TypeOK, Kinds
<1>5. /\ \A u \in Tasks : pc[u] \notin {"set_tail", "count"}
      /\ \A d \in Consumers : pc[d] # "count"
  BY <1>1, Exclusion DEF QueueInv, Inside
<1>6. \A k \in Kinds : Contents(k) \in Seq(Tasks) /\ IsList(k, Contents(k)) /\ SizeInv(k, Contents(k))
  BY <1>2, <1>5, ContentsOf
<1>7. \A k \in Kinds : size[k] = Len(Contents(k))
  BY <1>4, <1>5, <1>6 DEF SizeInv
<1>8. Contents(list[c]) # << >> /\ got[c] = Contents(list[c])[1]
  BY <1>3, <1>4, <1>6 DEF IsList
<1>9. list[c] = "normal" => ~(size["urgent"] > 0)
  BY <1>1 DEF GivenInv
<1>10. list[c] = "normal" => Contents("urgent") = << >>
  <2> SUFFICES ASSUME list[c] = "normal" PROVE Contents("urgent") = << >>
    OBVIOUS
  <2>1. Len(Contents("urgent")) = 0 BY <1>4, <1>7, <1>9
  <2> QED BY <1>4, <1>6, <2>1, EmptySeq
<1> QED BY <1>2, <1>3, <1>4, <1>8, <1>10 DEF GivenInv

\* A task is accepted when tail_ reaches its node, which is one step of the
\* service; the other steps of push are none.
LEMMA PushRefines ==
  ASSUME QueueInv, TypeOK', NEW t \in Tasks, Push(t)
  PROVE  Service!Accept(t) \/ UNCHANGED Service!vars
<1>1. /\ ~closed /\ closed' = closed /\ UNCHANGED <<got, list, finished>>
      /\ \A o \in Threads \ {t} : pc'[o] = pc[o]
      /\ t \in Threads /\ Consumers \subseteq Threads \ {t}
      /\ \/ pc[t] = "set_tail" /\ pc'[t] = "count" /\ SetTail(t)
         \/ /\ pc[t] \in {"count", "unlock", "done"} <=> pc'[t] \in {"count", "unlock", "done"}
            /\ ~SetTail(t)
  BY QueueAssumption DEF QueueInv, TypeOK, LockInv, Threads, Push, NewNode, Link, SetTail, CountPush, EndPush,
     Lock, Unlock, Goto
<1>2. Taken' = Taken BY <1>1 DEF Taken
<1>3. (finished \cup ({got[c] : c \in Taken} \ {Null}))' = finished \cup ({got[c] : c \in Taken} \ {Null})
  BY <1>1, <1>2
<1>4. /\ Contents("normal")' = IF SetTail(t) /\ Kind(t) = "normal" THEN Append(Contents("normal"), t)
                               ELSE Contents("normal")
      /\ Contents("urgent")' = IF SetTail(t) /\ Kind(t) = "urgent" THEN Append(Contents("urgent"), t)
                               ELSE Contents("urgent")
  <2>1. "normal" \in Kinds /\ "urgent" \in Kinds BY DEF Kinds
  <2> QED BY <2>1, PushContents
<1>5. CASE SetTail(t)
  <2>1. t \notin {u \in Tasks : pc[u] \in {"count", "unlock", "done"}} BY <1>1, <1>5
  <2>2. {u \in Tasks : pc'[u] \in {"count", "unlock", "done"}} =
          {u \in Tasks : pc[u] \in {"count", "unlock", "done"}} \cup {t}
    BY <1>1, <1>5 DEF Threads
  <2> QED BY <1>1, <1>3, <1>4, <1>5, <2>1, <2>2 DEF Service!Accept, Kind
<1>6. CASE ~SetTail(t)
  <2>1. {u \in Tasks : pc'[u] \in {"count", "unlock", "done"}} =
          {u \in Tasks : pc[u] \in {"count", "unlock", "done"}}
    BY <1>1, <1>6 DEF Threads
  <2> QED BY <1>1, <1>3, <1>4, <1>6, <2>1 DEF Service!vars
<1> QED BY <1>5, <1>6

\* A task is given when head_ leaves its node, and finished when work_func
\* returns; the other steps of a worker are none of the service.
LEMMA PopRefines ==
  ASSUME QueueInv, GivenInv, TypeOK', NEW c \in Consumers, Pop(c)
  PROVE  (\E t \in Tasks : Service!Give(t) \/ Service!Finish(t)) \/ UNCHANGED Service!vars
<1>1. /\ closed' = closed /\ ~closed
      /\ \A t \in Tasks : pc'[t] = pc[t]
      /\ \A d \in Consumers \ {c} : pc'[d] = pc[d] /\ got'[d] = got[d]
  BY QueueAssumption
     DEF QueueInv, TypeOK, LockInv, Threads, Pop, LockTasks, Choose, PopEmpty, PopData, Unlink, CountPop,
         FreeNode, EndPop, Work, Lock, Unlock, Goto
<1>2. {t \in Tasks : pc'[t] \in {"count", "unlock", "done"}} =
        {t \in Tasks : pc[t] \in {"count", "unlock", "done"}}
  BY <1>1
<1> DEFINE given == finished \cup ({got[d] : d \in Taken} \ {Null})
<1>3. /\ Contents("normal")' = IF Unlink(c) /\ list[c] = "normal" THEN Tail(Contents("normal"))
                               ELSE Contents("normal")
      /\ Contents("urgent")' = IF Unlink(c) /\ list[c] = "urgent" THEN Tail(Contents("urgent"))
                               ELSE Contents("urgent")
  <2>1. "normal" \in Kinds /\ "urgent" \in Kinds BY DEF Kinds
  <2> QED BY <2>1, PopContents
<1>4. CASE Unlink(c)
  <2>1. /\ pc[c] = "unlink" /\ pc'[c] = "count" /\ got' = got /\ finished' = finished
    BY <1>4 DEF Unlink, Goto, QueueInv, TypeOK, Threads
  <2>2. Taken' = Taken \cup {c} /\ c \notin Taken BY <1>1, <2>1 DEF Taken
  <2>3. /\ got[c] \in Tasks /\ pc[got[c]] = "done" /\ got[c] \notin finished
        /\ \A d \in Consumers : got[d] = got[c] => d = c
        /\ Contents(list[c]) # << >> /\ got[c] = Head(Contents(list[c]))
        /\ list[c] = "normal" => Contents("urgent") = << >>
    BY <1>4, UnlinkFirst
  <2>4. got[c] # Null BY <2>3, QueueAssumption
  <2>5. given' = given \cup {got[c]} BY <2>1, <2>2, <2>4
  <2>6. got[c] \notin given BY <2>2, <2>3 DEF Taken
  <2>7. list[c] = "normal" \/ list[c] = "urgent" BY DEF QueueInv, TypeOK, Kinds
  <2>8. got[c] \in {t \in Tasks : pc[t] \in {"count", "unlock", "done"}} BY <2>3
  <2> HIDE DEF given
  <2>9. PICK t \in Tasks : t = got[c] BY <2>3
  <2>10. Service!Give(t)
    BY <1>1, <1>2, <1>3, <1>4, <2>1, <2>3, <2>5, <2>6, <2>7, <2>8, <2>9 DEF Service!Give, given
  <2> QED BY <2>10
<1>5. CASE Work(c)
  <2>1. pc[c] = "work" /\ pc'[c] = "idle" /\ finished' = finished \cup {got[c]} /\ got'[c] = Null
    BY <1>5 DEF Work, Goto, QueueInv, TypeOK, Threads
  <2>2. got[c] # Null /\ got[c] \in Tasks /\ got[c] \notin finished /\ c \in Taken
    BY <2>1 DEF GivenInv, QueueInv, ThreadInv, TypeOK, Taken
  <2>3. Taken' = Taken \ {c} BY <1>1, <2>1 DEF Taken
  <2>4. given' = given
    <3>1. \A d \in Taken \ {c} : got'[d] = got[d] BY <1>1 DEF Taken
    <3> QED BY <2>1, <2>2, <2>3, <3>1
  <2>5. got[c] \in given BY <2>2
  <2>6. ~Unlink(c) BY <2>1 DEF Unlink, Goto
  <2> HIDE DEF given
  <2>7. Service!Finish(got[c])
    BY <1>1, <1>2, <1>3, <2>1, <2>2, <2>4, <2>5, <2>6 DEF Service!Finish, given
  <2> QED BY <2>2, <2>7
<1>6. CASE ~Unlink(c) /\ ~Work(c)
  <2>1. /\ finished' = finished
        /\ \/ pc[c] \notin {"count", "free", "unlock", "work"} /\ got[c] = Null
              /\ pc'[c] \notin {"count", "free", "work"} /\ (pc'[c] = "unlock" => got'[c] = Null)
           \/ got'[c] = got[c] /\ (got[c] # Null => (pc[c] \in {"count", "free", "unlock", "work"}
                                                      <=> pc'[c] \in {"count", "free", "unlock", "work"}))
    BY <1>6 DEF Pop, LockTasks, Choose, PopEmpty, PopData, CountPop, FreeNode, EndPop, Lock, Unlock, Goto,
       QueueInv, ThreadInv, TypeOK, Threads
  <2>2. given' = given
    <3>1. \A x : x \in {got[d] : d \in Taken} \ {Null} <=> x \in {got'[d] : d \in Taken'} \ {Null}
      BY <1>1, <2>1 DEF Taken
    <3> QED BY <2>1, <3>1
  <2> HIDE DEF given
  <2> QED BY <1>1, <1>2, <1>3, <1>6, <2>1, <2>2 DEF Service!vars, given
<1> QED BY <1>4, <1>5, <1>6

\* The two linked lists with their lock, one memory write at a time, implement
\* TaskService: push and pop take effect at one moment each, tasks leave in the
\* order in which tail_ reached them, priority tasks first, none twice
\* (queue.h:46-85, thread.cc:239-280).
THEOREM QueueImplementsService == Spec => ImplementsService
<1>1. Init => Service!Init
  <2>1. Init => Contents("normal") = << >> /\ Contents("urgent") = << >>
    BY DEF Init, Contents, Kinds
  <2>2. Init => Taken = {}
    BY QueueAssumption DEF Init, Taken, Threads
  <2>3. Init => {t \in Tasks : pc[t] \in {"count", "unlock", "done"}} = {}
    BY DEF Init, Threads
  <2> QED BY <2>1, <2>2, <2>3 DEF Init, Service!Init
<1>2. QueueInv /\ QueueInv' /\ GivenInv /\ [Next]_vars => [Service!Next]_Service!vars
  <2> SUFFICES ASSUME QueueInv, TypeOK', GivenInv, [Next]_vars
               PROVE  Service!Next \/ UNCHANGED Service!vars
    BY DEF QueueInv
  <2>1. ASSUME NEW t \in Tasks, Push(t) PROVE Service!Next \/ UNCHANGED Service!vars
    BY <2>1, PushRefines DEF Service!Next
  <2>2. ASSUME NEW c \in Consumers, Pop(c) PROVE Service!Next \/ UNCHANGED Service!vars
    BY <2>2, PopRefines DEF Service!Next
  <2>3. CASE Close
    <3>1. ~closed /\ closed' /\ UNCHANGED <<pc, got, finished>> BY <2>3 DEF Close
    <3>2. UNCHANGED Taken BY <3>1 DEF Taken
    <3> QED BY <3>1, <3>2 DEF Service!Next, Service!Discard
  <2>4. ASSUME NEW k \in Kinds, Destroy(k) PROVE UNCHANGED Service!vars
    <3>1. closed /\ closed' /\ UNCHANGED <<pc, got, finished>> BY <2>4 DEF Destroy
    <3>2. UNCHANGED Taken BY <3>1 DEF Taken
    <3> QED BY <3>1, <3>2 DEF Service!vars
  <2>5. CASE UNCHANGED vars
    <3>1. UNCHANGED Contents("normal") /\ UNCHANGED Contents("urgent")
      BY <2>5 DEF vars, listVars, Contents, Walk
    <3>2. UNCHANGED <<pc, got, finished, closed>> BY <2>5 DEF vars, takeVars
    <3>3. UNCHANGED Taken BY <3>2 DEF Taken
    <3> QED BY <3>1, <3>2, <3>3 DEF Service!vars
  <2> QED BY <2>1, <2>2, <2>3, <2>4, <2>5 DEF Next
<1> QED BY <1>1, <1>2, QueueInvariant, GivenInvariant, PTL DEF Spec, ImplementsService, Service!Spec

=============================================================================
