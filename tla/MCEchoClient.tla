---------------------------- MODULE MCEchoClient ----------------------------
(* Constant values for the model-checking run of EchoClient.               *)
EXTENDS EchoClient

CONSTANT c1   \* model value
OneWorker == 1..1
OneSocket == {c1}
NoTasks == {}
TwoNumbers == 3..4

Never == {FALSE}
Always == {TRUE}
=============================================================================
