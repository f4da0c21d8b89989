------------------------ MODULE MCOptimisticControl ------------------------
(* Instances of OptimisticControl for TLC. *)
EXTENDS OptimisticControl
============================================================================
