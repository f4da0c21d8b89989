----------------------------- MODULE MCEntities -----------------------------
(* Instances of Entities for TLC. *)
EXTENDS Entities

MC_MethodSets == {{"turn_on"}, {"turn_on", "turn_off", "set_alias", "reboot"}}

\* A name with no energy token, and one like "Power used today".
MC_Callings == {{}, {"power", "today"}}
=============================================================================
