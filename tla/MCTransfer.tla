------------------------------ MODULE MCTransfer ------------------------------
(* Constant values for the model-checking run of Transfer.                 *)
EXTENDS Transfer

SomeRequests == 1..3
=============================================================================
