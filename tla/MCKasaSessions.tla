--------------------------- MODULE MCKasaSessions ---------------------------
(* Instances of KasaSessions for TLC. *)
EXTENDS KasaSessions, TLC

CONSTANTS poll, r1, r2

Symmetry == Permutations({r1, r2})
=============================================================================
