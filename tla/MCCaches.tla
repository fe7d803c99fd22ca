------------------------------ MODULE MCCaches ------------------------------
(* The two parts of cache-plane for TLC.  They share no state, so a          *)
(* behaviour exercises one of them, chosen at the start.  One L1 entry is    *)
(* already a full cache, finalized responses live longer than processed      *)
(* ones, and queries share accounts.                                         *)
EXTENDS ResponseCache, InvalidationTracker

CONSTANTS processed, finalized

VARIABLE part   \* the part this behaviour exercises

MCTtlOf == [c \in {processed, finalized} |-> IF c = processed THEN 0 ELSE 1]

MCInit == part \in {"responses", "tracker"} /\ ResponseInit /\ TrackerInit

MCNext ==
    \/ part = "responses" /\ ResponseNext /\ UNCHANGED <<part, trackerState>>
    \/ part = "tracker" /\ TrackerNext /\ UNCHANGED <<part, responseState>>

MCSpec ==
    /\ MCInit /\ [][MCNext]_<<part, responseState, trackerState, job, jobs, version>>
    /\ ResponseFairness
=============================================================================
