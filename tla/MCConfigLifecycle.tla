------------------------- MODULE MCConfigLifecycle -------------------------
(* Instances of ConfigLifecycle for TLC. *)
EXTENDS ConfigRefinement, TLC

CONSTANTS d1, d2, d2_padded, hostA, hostB, t1, t2, t3, t4, r1, r2, r3

MC_Config(id, config_id, host) ==
    [id |-> id, config_id |-> config_id, host |-> host]

\* One of the ids is another one with blanks around it.
MC_Trim == [d \in Ids |-> IF d = d2_padded THEN d2 ELSE d]

\* One device that moves between two addresses.
MC_OneDevice == {MC_Config(d1, None, hostA), MC_Config(d1, None, hostB)}

\* Two configuration ids; the first one arrives with the id of the device
\* as id and the configuration's own id, with blanks, as config_id.
MC_TwoDevices == {MC_Config(d1, None, hostA),
                  MC_Config(d1, d2_padded, hostB),
                  MC_Config(d2, None, hostA)}

MC_NoSnapshots == {}
MC_Snapshots == {{MC_Config(d1, d2_padded, hostB)},
                 {MC_Config(d1, None, hostA), MC_Config(d2, None, hostA)},
                 {}}

MC_Symmetry == Permutations({t1, t2, t3, t4}) \cup Permutations({r1, r2, r3})
============================================================================
