---------------------------- MODULE MCDiscovery ----------------------------
(* Instances of Discovery for TLC. *)
EXTENDS Discovery, TLC

CONSTANTS lan1, lan2, lan3, host1, host2, host3

Symmetry == Permutations({lan1, lan2, lan3}) \cup Permutations({host1, host2, host3})
=============================================================================
