------------------------------- MODULE MCBase -------------------------------
(* The bitmaps of the hot tier, the base scan and the query planner, for TLC.  *)
(* They share no state: a behaviour exercises one of them, chosen at the       *)
(* start.                                                                      *)
EXTENDS LsmBitmap, BaseScan, MCQueryPlanner

CONSTANTS p1, p2   \* accounts of the scanned files

VARIABLE part

\* The scanned files: two of one file_id and a later one, with padded and unpadded records,
\* one too short to parse, one whose size does not fit a u32, an end mark with more behind
\* it and a record cut off by the end of the file.
Rec(p, slot, size) == [pubkey |-> p, slot |-> slot, size |-> size, room |-> align_to_8(size)]
Short == [pubkey |-> p2, slot |-> 0, size |-> 13, room |-> 16]
Long(p) == [pubkey |-> p, slot |-> 1, size |-> 136, room |-> 136]
EndMark == [pubkey |-> p1, slot |-> 0, size |-> 0, room |-> 8 + 104]
CutOff(p) == [pubkey |-> p, slot |-> 1, size |-> 100, room |-> 56]

MCNames == {<<1, 0>>, <<1, 1>>, <<2, 0>>}
MCFileContents ==
    (<<1, 0>> :> {<<Rec(p2, 1, 100), Short, Rec(p1, 1, 104)>>}) @@
    (<<1, 1>> :> {<<Rec(p2, 2, 97), CutOff(p1)>>}) @@
    (<<2, 0>> :> {<<Rec(p1, 2, 99), Long(p2), EndMark>>})

MCInit ==
    /\ part \in {"bitmap", "scan", "queries"}
    /\ LsmInit /\ ScanInit /\ Init
    /\ part # "bitmap" => rid = [r \in Readers |-> 1]

BitmapPart == part = "bitmap" /\ LsmNext /\ UNCHANGED <<scanVars, vars>>
\* Nothing is claimed of a scan once an error was dropped: it is not followed further.
ScanPart == part = "scan" /\ lost = 0 /\ ScanNext /\ UNCHANGED <<lsmVars, vars>>
PlannerPart == part = "queries" /\ Next /\ UNCHANGED <<lsmVars, scanVars>>

MCNext == (BitmapPart \/ ScanPart \/ PlannerPart) /\ UNCHANGED part

MCSpec == MCInit /\ [][MCNext]_<<lsmVars, scanVars, vars, part>>

MCSymmetry == Permutations(Accounts) \cup Permutations(Creators)
=============================================================================
