----------------------------- MODULE MCPoolConfig -----------------------------
(* Constant values for the model-checking runs of PoolConfig.              *)
EXTENDS PoolConfig

SomeSizes == 0..4
SomeLives == {-1, 0, 1, 2, 3}
SomeDefault == [min |-> 1, max |-> 2, life |-> 1, action |-> "SHUTDOWN"]
=============================================================================
