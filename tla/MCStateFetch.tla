---------------------------- MODULE MCStateFetch ----------------------------
(* Instances of StateFetch for TLC. *)
EXTENDS StateFetch

CONSTANTS poll, r1, r2
============================================================================
