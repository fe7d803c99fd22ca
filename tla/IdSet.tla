------------------------------- MODULE IdSet -------------------------------
(***************************************************************************)
(* What a bitmap of account ids keeps of what it is asked: an inserted id  *)
(* is a member at once and stays one until somebody asks to remove it.  A  *)
(* removal takes a settled member out; one that is not settled yet stays,  *)
(* which is less than the comment of remove() promises.  The LSM bitmap of *)
(* index-fabric is shown to implement it (LsmBitmap!Abstract).             *)
(***************************************************************************)
CONSTANT Ids

VARIABLES members,   \* the ids the bitmap holds
          asked,     \* those inserted and not removed since
          settled    \* the members that a removal takes out

Init == members = {} /\ asked = {} /\ settled = {}

Insert(id) ==
    /\ members' = members \cup {id}
    /\ asked' = asked \cup {id}
    /\ settled' = settled \ {id}

Remove(id) ==
    /\ members' = IF id \in settled THEN members \ {id} ELSE members
    /\ asked' = asked \ {id}
    /\ settled' = settled \ {id}

\* Members settle and are unsettled again while they are moved about.
Settle ==
    /\ settled' \in SUBSET members
    /\ UNCHANGED <<members, asked>>

Next == (\E id \in Ids : Insert(id) \/ Remove(id)) \/ Settle

Spec == Init /\ [][Next]_<<members, asked, settled>>
=============================================================================
