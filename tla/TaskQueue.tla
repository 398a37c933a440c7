------------------------------ MODULE TaskQueue ------------------------------
(***************************************************************************)
(* The two Queue<Task> lists of a ThreadPool (src/inc/data_structure/      *)
(* queue.h) under task_mutex_: add_task and add_priority_task push, the    *)
(* worker threads pop in get_task, the manager reads size_ without the     *)
(* lock, and ~ThreadPool destroys the lists.  One statement that changes   *)
(* shared memory is one step, so that an unlocked reader, or a lock that   *)
(* is missing, sees every state in between.                                *)
(*                                                                         *)
(* A node holds one task and each task is pushed once, so a task names the *)
(* node that holds it and the client thread that pushes it.                *)
(***************************************************************************)
EXTENDS Integers, Sequences, FiniteSets

CONSTANTS
  Tasks,
  PriorityTasks,
  Consumers,      \* the worker threads
  Free, Null

ASSUME QueueAssumption ==
  /\ PriorityTasks \subseteq Tasks
  /\ Tasks \cap Consumers = {}
  /\ Free \notin Tasks \cup Consumers
  /\ Null \notin Tasks

ASSUME TasksAssumption == IsFiniteSet(Tasks)   \* bound

VARIABLES
  head, tail, size,  \* head_, tail_ and size_ of each list
  next,              \* next_node of each node
  alive,             \* nodes allocated and not deleted
  task_mutex,        \* owner of task_mutex_
  pc,                \* where each client and each worker is
  list,              \* the list a worker pops from
  got,               \* what its get_task has read
  finished,          \* tasks whose work_func has returned
  closed             \* ~ThreadPool has begun

listVars == <<head, tail, size, next, alive>>
takeVars == <<list, got, finished>>
vars == <<listVars, task_mutex, pc, takeVars, closed>>

Kinds == {"normal", "urgent"}
Kind(t) == IF t \in PriorityTasks THEN "urgent" ELSE "normal"

Threads == Tasks \cup Consumers

Goto(th, from, to) == pc[th] = from /\ pc' = [pc EXCEPT ![th] = to]

Lock(th, from, to) ==
  Goto(th, from, to) /\ task_mutex = Free /\ task_mutex' = th /\ ~closed

Unlock(th, from, to) == Goto(th, from, to) /\ task_mutex' = Free

-----------------------------------------------------------------------------
(* Queue::push of task t, by the client that submits it.                   *)

\* Mutant: add_task does not lock.
NewNodeUnlocked(t) ==
  /\ Goto(t, "new", "link")
  /\ ~closed
  /\ alive' = alive \cup {t}
  /\ next' = [next EXCEPT ![t] = Null]
  /\ UNCHANGED <<head, tail, size, task_mutex, takeVars, closed>>

\* task_mutex_.lock(); node = new Element<T>(); node->data = data;
NewNode(t) ==
  /\ Lock(t, "new", "link")
  /\ alive' = alive \cup {t}
  /\ next' = [next EXCEPT ![t] = Null]
  /\ UNCHANGED <<head, tail, size, takeVars, closed>>

\* head_ = node, or tail_->next_node = node
Link(t) ==
  LET k == Kind(t) IN
  /\ Goto(t, "link", "set_tail")
  /\ IF head[k] = Null /\ tail[k] = Null
     THEN head' = [head EXCEPT ![k] = t] /\ UNCHANGED next
     ELSE next' = [next EXCEPT ![tail[k]] = t] /\ UNCHANGED head
  /\ UNCHANGED <<tail, size, alive, task_mutex, takeVars, closed>>

SetTail(t) ==
  /\ Goto(t, "set_tail", "count")
  /\ tail' = [tail EXCEPT ![Kind(t)] = t]
  /\ UNCHANGED <<head, size, next, alive, task_mutex, takeVars, closed>>

CountPush(t) ==
  /\ Goto(t, "count", "unlock")
  /\ size' = [size EXCEPT ![Kind(t)] = @ + 1]
  /\ UNCHANGED <<head, tail, next, alive, task_mutex, takeVars, closed>>

EndPush(t) ==
  /\ Unlock(t, "unlock", "done")
  /\ UNCHANGED <<listVars, takeVars, closed>>

Push(t) == NewNode(t) \/ Link(t) \/ SetTail(t) \/ CountPush(t) \/ EndPush(t)

-----------------------------------------------------------------------------
(* ThreadPool::get_task and Queue::pop, by worker c.                       *)

LockTasks(c) ==
  /\ Lock(c, "idle", "choose")
  /\ UNCHANGED <<listVars, takeVars, closed>>

\* Mutant: priority_tasks_.size() > 1.
ChooseLate(c) ==
  /\ Goto(c, "choose", "pop")
  /\ list' = [list EXCEPT ![c] = IF size["urgent"] > 1 THEN "urgent" ELSE "normal"]
  /\ UNCHANGED <<listVars, task_mutex, got, finished, closed>>

\* if (priority_tasks_.size() > 0)
Choose(c) ==
  /\ Goto(c, "choose", "pop")
  /\ list' = [list EXCEPT ![c] = IF size["urgent"] > 0 THEN "urgent" ELSE "normal"]
  /\ UNCHANGED <<listVars, task_mutex, got, finished, closed>>

\* if (size_ == 0) return 0;
PopEmpty(c) ==
  /\ size[list[c]] = 0
  /\ Goto(c, "pop", "unlock")
  /\ UNCHANGED <<listVars, task_mutex, takeVars, closed>>

\* Mutant: an empty list is not tested for.
PopDataUntested(c) ==
  /\ Goto(c, "pop", "unlink")
  /\ got' = [got EXCEPT ![c] = head[list[c]]]
  /\ UNCHANGED <<listVars, task_mutex, list, finished, closed>>

\* data = head_->data
PopData(c) ==
  /\ size[list[c]] # 0
  /\ Goto(c, "pop", "unlink")
  /\ got' = [got EXCEPT ![c] = head[list[c]]]
  /\ UNCHANGED <<listVars, task_mutex, list, finished, closed>>

\* Mutant: tail_ stays on the last node.
UnlinkHead(c) ==
  LET k == list[c] IN
  /\ Goto(c, "unlink", "count")
  /\ head' = [head EXCEPT ![k] = next[head[k]]]
  /\ UNCHANGED <<tail, size, next, alive, task_mutex, takeVars, closed>>

\* head_ = tail_ = nullptr, or head_ = head_->next_node
Unlink(c) ==
  LET k == list[c] IN
  /\ Goto(c, "unlink", "count")
  /\ IF head[k] = tail[k]
     THEN head' = [head EXCEPT ![k] = Null] /\ tail' = [tail EXCEPT ![k] = Null]
     ELSE head' = [head EXCEPT ![k] = next[head[k]]] /\ UNCHANGED tail
  /\ UNCHANGED <<size, next, alive, task_mutex, takeVars, closed>>

CountPop(c) ==
  /\ Goto(c, "count", "free")
  /\ size' = [size EXCEPT ![list[c]] = @ - 1]
  /\ UNCHANGED <<head, tail, next, alive, task_mutex, takeVars, closed>>

\* delete del_node
FreeNode(c) ==
  /\ Goto(c, "free", "unlock")
  /\ alive' = alive \ {got[c]}
  /\ UNCHANGED <<head, tail, size, next, task_mutex, takeVars, closed>>

EndPop(c) ==
  /\ Unlock(c, "unlock", IF got[c] = Null THEN "idle" ELSE "work")
  /\ UNCHANGED <<listVars, takeVars, closed>>

\* work_func returns
Work(c) ==
  /\ Goto(c, "work", "idle")
  /\ finished' = finished \cup {got[c]}
  /\ got' = [got EXCEPT ![c] = Null]
  /\ UNCHANGED <<listVars, task_mutex, list, closed>>

Pop(c) ==
  \/ LockTasks(c) \/ Choose(c) \/ PopEmpty(c) \/ PopData(c) \/ Unlink(c)
  \/ CountPop(c) \/ FreeNode(c) \/ EndPop(c) \/ Work(c)

-----------------------------------------------------------------------------
(* ~ThreadPool, when the application has seen to it that nobody uses it.   *)

Close ==
  /\ ~closed
  /\ \A th \in Threads : pc[th] \in {"new", "done", "idle"}
  /\ closed' = TRUE
  /\ UNCHANGED <<listVars, task_mutex, pc, takeVars>>

\* Mutant: the nodes are skipped, not deleted.
DestroySkipping(k) ==
  /\ closed
  /\ head[k] # tail[k]
  /\ head' = [head EXCEPT ![k] = next[head[k]]]
  /\ UNCHANGED <<tail, size, next, alive, task_mutex, pc, takeVars, closed>>

\* while (head_ != tail_) { ... delete del_node; }
Destroy(k) ==
  /\ closed
  /\ head[k] # tail[k]
  /\ head' = [head EXCEPT ![k] = next[head[k]]]
  /\ alive' = alive \ {head[k]}
  /\ UNCHANGED <<tail, size, next, task_mutex, pc, takeVars, closed>>

-----------------------------------------------------------------------------

Init ==
  /\ head = [k \in Kinds |-> Null]
  /\ tail = [k \in Kinds |-> Null]
  /\ size = [k \in Kinds |-> 0]
  /\ next = [t \in Tasks |-> Null]
  /\ alive = {}
  /\ task_mutex = Free
  /\ pc = [th \in Threads |-> IF th \in Tasks THEN "new" ELSE "idle"]
  /\ list = [c \in Consumers |-> "normal"]
  /\ got = [c \in Consumers |-> Null]
  /\ finished = {}
  /\ closed = FALSE

Next ==
  \/ \E t \in Tasks : Push(t)
  \/ \E c \in Consumers : Pop(c)
  \/ Close
  \/ \E k \in Kinds : Destroy(k)

Spec == Init /\ [][Next]_vars

-----------------------------------------------------------------------------
(* What the lists hold, and what they promise.                             *)

\* The nodes of list k from head_ along next_node up to tail_, the first i + 1
\* of them.
Walk(k) ==
  LET upto[i \in Nat] ==
        IF i = 0 THEN <<head[k]>>
        ELSE LET s == upto[i - 1]
                 n == next[s[Len(s)]]
             IN IF s[Len(s)] = tail[k] \/ n = Null THEN s ELSE Append(s, n)
  IN upto

\* The tasks of list k, first to last.
Contents(k) ==
  IF Null \in {head[k], tail[k]} THEN << >> ELSE Walk(k)[Cardinality(Tasks)]

TypeOK ==
  /\ head \in [Kinds -> Tasks \cup {Null}]
  /\ tail \in [Kinds -> Tasks \cup {Null}]
  /\ size \in [Kinds -> Nat]
  /\ next \in [Tasks -> Tasks \cup {Null}]
  /\ alive \subseteq Tasks
  /\ task_mutex \in Threads \cup {Free}
  /\ pc \in [Threads -> {"new", "link", "set_tail", "count", "unlock", "done", "idle",
                         "choose", "pop", "unlink", "free", "work"}]
  /\ list \in [Consumers -> Kinds]
  /\ got \in [Consumers -> Tasks \cup {Null}]
  /\ finished \subseteq Tasks
  /\ closed \in BOOLEAN

Elements(k) == {Contents(k)[i] : i \in DOMAIN Contents(k)}

\* Every node on a list is memory that has not been freed, and every node that
\* has not been freed is on its list or in the hands of the thread inside
\* push or pop: pop never leaves head_ or tail_ on a deleted node
\* (queue.h:65-85).
NodesMatchLists ==
  ~closed =>
    /\ \A k \in Kinds : Elements(k) \subseteq alive
    /\ alive \ UNION {Elements(k) : k \in Kinds} \subseteq
         {t \in Tasks : pc[t] \in {"link", "set_tail"}} \cup {got[c] : c \in Consumers}

\* The size the manager reads without the lock (thread.cc:319) is never
\* negative and never off by more than the one call under way.
SizeWithinOne ==
  ~closed => \A k \in Kinds :
    /\ size[k] - Len(Contents(k)) \in {-1, 0, 1}
    /\ task_mutex = Free => size[k] = Len(Contents(k))

\* ~Queue frees every node but the last of each list (queue.h:30-44), and stops.
DestroyLeavesTheLast ==
  closed => \A k \in Kinds :
    head[k] = tail[k] => alive \cap {t \in Tasks : Kind(t) = k} = {tail[k]} \ {Null}

\* A worker hands a task on only after it has unlinked it.
Taken == {c \in Consumers : pc[c] \in {"count", "free", "unlock", "work"}}

Service == INSTANCE TaskService WITH
  accepted <- {t \in Tasks : pc[t] \in {"count", "unlock", "done"}},
  normal   <- IF closed THEN << >> ELSE Contents("normal"),
  urgent   <- IF closed THEN << >> ELSE Contents("urgent"),
  given    <- finished \cup ({got[c] : c \in Taken} \ {Null}),
  finished <- finished,
  open     <- ~closed

\* The lists with their lock implement the abstract service: first in, first
\* out, priority tasks first, nothing lost or handed out twice
\* (thread.cc:239-280, queue.h:46-85).
ImplementsService == Service!Spec

-----------------------------------------------------------------------------
(* Why the lists are right: with TypeOK, an inductive invariant of Spec.   *)

Inside == {"link", "set_tail", "count", "unlock", "choose", "pop", "unlink", "free"}

\* Whoever is inside push or pop holds task_mutex_, and nobody is while the
\* lists are destroyed.
LockInv ==
  /\ \A th \in Threads : pc[th] \in Inside => task_mutex = th
  /\ closed => \A th \in Threads : pc[th] \in {"new", "done", "idle"}

\* A client on its way through push, and a worker through get_task: what it has
\* got is what it popped, from unlink on.
ThreadInv ==
  /\ \A t \in Tasks : /\ pc[t] \in {"new", "link", "set_tail", "count", "unlock", "done"}
                      /\ pc[t] = "link" => t \in alive /\ next[t] = Null
  /\ \A c \in Consumers :
       /\ pc[c] \in {"idle", "choose", "pop", "unlink", "count", "free", "unlock", "work"}
       /\ pc[c] \in {"idle", "choose", "pop"} => got[c] = Null
       /\ pc[c] \in {"unlink", "count", "free", "work"} => got[c] # Null
       /\ pc[c] = "unlink" => got[c] = head[list[c]]
       /\ got[c] # Null => pc[got[c]] = "done"

\* s is the list k: different nodes, none of them freed or unlinked, from head_
\* along next_node to the last; tail_ is the last but while it is being pushed.
IsList(k, s) ==
  /\ \A i, j \in DOMAIN s : s[i] = s[j] => i = j
  /\ \A i \in DOMAIN s :
       /\ s[i] \in alive /\ Kind(s[i]) = k /\ pc[s[i]] \notin {"new", "link"}
       /\ \A c \in Consumers : got[c] = s[i] => pc[c] = "unlink"
       /\ next[s[i]] = IF i = Len(s) THEN Null ELSE s[i + 1]
  /\ IF s = << >> THEN head[k] = Null /\ tail[k] = Null
     ELSE /\ head[k] = s[1]
          /\ tail[k] = IF pc[s[Len(s)]] # "set_tail" THEN s[Len(s)]
                       ELSE IF Len(s) = 1 THEN Null ELSE s[Len(s) - 1]
  /\ \A t \in Tasks :
       pc[t] = "set_tail" /\ Kind(t) = k => s # << >> /\ s[Len(s)] = t

\* size_ lags behind the list by the node being pushed or popped.
SizeInv(k, s) ==
  LET pushed == \E t \in Tasks : Kind(t) = k /\ pc[t] \in {"set_tail", "count"}
      popped == \E c \in Consumers : list[c] = k /\ pc[c] = "count"
  IN size[k] + (IF pushed THEN 1 ELSE 0) = Len(s) + (IF popped THEN 1 ELSE 0)

\* A node that has not been freed is on its list, or on its way in or out.
Accounted(k, s) ==
  \A t \in alive : Kind(t) = k =>
    \/ pc[t] = "link"
    \/ \E i \in DOMAIN s : s[i] = t
    \/ \E c \in Consumers : got[c] = t /\ pc[c] \in {"count", "free"}

\* Each list is one, of the size that size_ says, and no node is elsewhere.
ListInv ==
  \A k \in Kinds : \E s \in Seq(Tasks) :
    IsList(k, s) /\ (~closed => SizeInv(k, s)) /\ Accounted(k, s)

\* A worker has a task to itself from the moment it reads it, has freed its node
\* before it leaves get_task, and took it from the list that goes first.
GivenInv ==
  /\ \A c, d \in Consumers : got[c] = got[d] /\ got[c] # Null => c = d
  /\ \A c \in Consumers :
       /\ got[c] \notin finished
       /\ pc[c] \in {"unlock", "work"} => got[c] \notin alive
       /\ pc[c] \in {"pop", "unlink"} => (list[c] = "urgent" <=> size["urgent"] > 0)
  /\ \A t \in finished : t \notin alive /\ pc[t] = "done"

=============================================================================
