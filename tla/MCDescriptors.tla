---------------------------- MODULE MCDescriptors ----------------------------
(* Constant values for the model-checking runs of Descriptors.             *)
EXTENDS Descriptors, TLC

CONSTANTS s1, s2, f1, main, worker, d0, d1, d2   \* model values
TwoSockets == {s1, s2}
OneStream == {f1}
TwoThreads == {main, worker}
ThreeNumbers == {d0, d1, d2}
Alike == Permutations(TwoSockets) \cup Permutations(TwoThreads) \cup Permutations(ThreeNumbers)
=============================================================================
