---------------------------- MODULE MCThreadPool ----------------------------
(* Constant values for the model-checking runs of ThreadPool.              *)
EXTENDS PoolProperties

OneWorker == 1..1
TwoWorkers == 1..2

CONSTANTS t1, t2, p1   \* model values
NoTasks == {}
OneTask == {t1}
TwoTasks == {t1, t2}
MixedTasks == {t1, p1}
OnePriority == {p1}

Never == {FALSE}
Always == {TRUE}
Either == {TRUE, FALSE}
=============================================================================
