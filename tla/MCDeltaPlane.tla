---------------------------- MODULE MCDeltaPlane ----------------------------
(* DeltaPlane for TLC: two accounts, two slots, and an account that is updated *)
(* twice in one slot, so that segments can be named alike and updates be      *)
(* delivered out of order.                                                    *)
EXTENDS DeltaPlane

CONSTANTS k1, k2

MCUpdates == {[key |-> k1, slot |-> 1, write_version |-> 2],
              [key |-> k1, slot |-> 1, write_version |-> 1],
              [key |-> k2, slot |-> 2, write_version |-> 3]}

=============================================================================
