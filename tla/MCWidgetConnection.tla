------------------------- MODULE MCWidgetConnection -------------------------
(* Instances of WidgetConnection for TLC. *)
EXTENDS WidgetConnection

CONSTANTS deviceA, deviceB, power, brightness

\* A dimmer in scope A, a plug in scope B.
MC_SlotsOf == [s \in Scope |-> CASE s = deviceA -> {power, brightness}
                                 [] s = deviceB -> {power}
                                 [] s = None    -> {}]
=============================================================================
