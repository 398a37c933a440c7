---------------------------- MODULE MCEchoServer ----------------------------
(* Constant values for the model-checking run of EchoServer.               *)
EXTENDS EchoServer

CONSTANTS c1, c2   \* model values
OneWorker == 1..1
TwoConnections == {c1, c2}
OneConnection == {c1}
ServerAndTwo == {Server, c1, c2}
ServerAndOne == {Server, c1}
NoTasks == {}
TwoNumbers == 3..4
ThreeNumbers == 3..5

Never == {FALSE}
Always == {TRUE}
=============================================================================
