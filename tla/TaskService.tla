----------------------------- MODULE TaskService -----------------------------
(***************************************************************************)
(* What add_task, add_priority_task and get_task of ThreadPool promise the *)
(* submitter of a task, without threads, maps or locks: a task is accepted *)
(* at most once, handed to one worker at most once and finished at most    *)
(* once; priority tasks go first (system_utils.h:193), and tasks of the    *)
(* same kind in the order in which they were accepted.                     *)
(***************************************************************************)
EXTENDS Sequences

CONSTANTS Tasks, PriorityTasks

VARIABLES
  accepted,  \* tasks the pool has taken over
  normal,    \* those that wait, in the order of acceptance
  urgent,    \* the priority tasks that wait
  given,     \* tasks handed to a worker
  finished,  \* tasks whose work_func has returned
  open       \* the pool has not been destroyed

vars == <<accepted, normal, urgent, given, finished, open>>

Init ==
  /\ open = TRUE
  /\ accepted = {} /\ given = {} /\ finished = {}
  /\ normal = << >> /\ urgent = << >>

Accept(t) ==
  /\ open
  /\ t \notin accepted
  /\ accepted' = accepted \cup {t}
  /\ IF t \in PriorityTasks
     THEN urgent' = Append(urgent, t) /\ UNCHANGED normal
     ELSE normal' = Append(normal, t) /\ UNCHANGED urgent
  /\ UNCHANGED <<given, finished, open>>

\* t is given to a worker.
Give(t) ==
  /\ open
  /\ t \in accepted \ given
  /\ \/ urgent # << >> /\ t = Head(urgent) /\ urgent' = Tail(urgent) /\ UNCHANGED normal
     \/ urgent = << >> /\ normal # << >> /\ t = Head(normal) /\ normal' = Tail(normal)
        /\ UNCHANGED urgent
  /\ given' = given \cup {t}
  /\ UNCHANGED <<accepted, finished, open>>

Finish(t) ==
  /\ t \in given \ finished
  /\ finished' = finished \cup {t}
  /\ UNCHANGED <<accepted, normal, urgent, given, open>>

\* The pool is destroyed; what still waits is never given out.
Discard ==
  /\ open /\ open' = FALSE
  /\ normal' = << >> /\ urgent' = << >>
  /\ UNCHANGED <<accepted, given, finished>>

Next == Discard \/ \E t \in Tasks : Accept(t) \/ Give(t) \/ Finish(t)

Spec == Init /\ [][Next]_vars

=============================================================================
