-------------------------- MODULE MCDeviceRequests --------------------------
(* Instances of DeviceRequests for TLC. *)
EXTENDS DeviceRequests, TLC

CONSTANTS plug, bulb, h1, h2, t1, core, user

MC_Symmetry ==
    Permutations(Ids) \cup Permutations(Hosts) \cup Permutations(Requests)
============================================================================
