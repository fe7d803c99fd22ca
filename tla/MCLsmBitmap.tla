---------------------------- MODULE MCLsmBitmap ----------------------------
(* LsmBitmap for TLC.  Two ids are enough to tell an id that a compaction     *)
(* drained from one inserted behind its back; two jobs to let compactions     *)
(* overlap.                                                                   *)
EXTENDS LsmBitmap

=============================================================================
