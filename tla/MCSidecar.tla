----------------------------- MODULE MCSidecar -----------------------------
(* The slot reconciler for TLC, used in two ways: by any threads, or by the  *)
(* sidecar, one of whose threads is then the Geyser consumer.  The root is   *)
(* 0 at first, as in the sidecar; two slots let updates and rollbacks move   *)
(* both ways.                                                                *)
EXTENDS Runtime

VARIABLE part   \* "reconciler" or "sidecar"

MCInit ==
    /\ RuntimeInit
    /\ part \in {"reconciler", "sidecar"}
    /\ part = "reconciler" => ring_exists

MCNext ==
    /\ UNCHANGED part
    /\ \/ part = "reconciler" /\ Next /\ UNCHANGED runtimeState
       \/ part = "sidecar" /\ RuntimeNext

MCSpec == MCInit /\ [][MCNext]_<<runtimeVars, part>> /\ RuntimeFairness
=============================================================================
