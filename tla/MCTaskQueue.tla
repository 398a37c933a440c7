----------------------------- MODULE MCTaskQueue -----------------------------
(* Constant values for the model-checking run of TaskQueue.                *)
EXTENDS TaskQueue

CONSTANTS t1, t2, t3, p1, c1, c2   \* model values
AllTasks == {t1, t2, t3, p1}
OnePriority == {p1}
TwoConsumers == {c1, c2}
=============================================================================
