---------------------------- MODULE MCRingBuffer ----------------------------
(* RingBuffer for TLC: an update without data and one with a cell of it, and  *)
(* a capacity that holds two or three entries, so that the ring fills up.     *)
EXTENDS RingBuffer

CONSTANTS a, b

MCDataLen == [u \in {a, b} |-> IF u = a THEN 0 ELSE 1]

=============================================================================
