------------------------------- MODULE Merkle -------------------------------
(***************************************************************************)
(* The merkle module of base-locator/src/checksum.rs: the root of a list   *)
(* of leaf hashes, the proof of one leaf, and its verification.            *)
(*                                                                         *)
(* SHA-256 is taken to be free of collisions, and a hash is named by what  *)
(* was hashed, a sequence of pieces.  Nothing keeps a leaf apart from an   *)
(* inner node: the leaf of data that is two hashes is the node of them.    *)
(***************************************************************************)
EXTENDS Integers, Sequences

CONSTANTS LeafData,    \* what is hashed into the leaves: sequences of pieces
          MaxLeaves    \* bound: length of the list

ASSUME MerkleAssumption == MaxLeaves \in Nat

VARIABLE leaves        \* the list of leaf hashes

MerkleInit == leaves = <<>>

sha256(pieces) == <<"sha256", pieces>>

leaf_hash(data) == sha256(data)

AddLeaf(d) == Len(leaves) < MaxLeaves /\ leaves' = Append(leaves, leaf_hash(d))

MerkleNext == \E d \in LeafData : AddLeaf(d)

MerkleSpec == MerkleInit /\ [][MerkleNext]_leaves

-----------------------------------------------------------------------------
node_hash(left, right) == sha256(<<left, right>>)

\* level.chunks(2): pairs are hashed, a last one without a partner goes up.
NextLevel(level) ==
    [i \in 1 .. (Len(level) + 1) \div 2 |->
        IF 2 * i <= Len(level) THEN node_hash(level[2 * i - 1], level[2 * i])
        ELSE level[2 * i - 1]]

\* The levels that the loops build on top of the leaves.  A level of one entry stays as
\* it is, so those beyond the top are the same.
levels(list) ==
    LET level[k \in 0 .. Len(list)] == IF k = 0 THEN list ELSE NextLevel(level[k - 1])
    IN  level

\* while level.len() > 1: the number of times the loops run.
Top(list) ==
    LET level == levels(list)
    IN  CHOOSE h \in DOMAIN level :
            Len(level[h]) = 1 /\ \A k \in 0 .. h - 1 : Len(level[k]) > 1

compute_root(list) == levels(list)[Top(list)][1]

\* idx /= 2 at each level; from 0.
places(index, n) ==
    LET place[k \in 0 .. n] == IF k = 0 THEN index ELSE place[k - 1] \div 2 IN place

\* Mutant: an entry without a partner is its own sibling.
SiblingOrSelf(level, p) ==
    LET other == IF p % 2 = 0 THEN p + 1 ELSE p - 1
    IN  <<level[(IF other < Len(level) THEN other ELSE p) + 1]>>

\* The other member of the chunk of place p, none for an entry without a partner.
Sibling(level, p) ==
    LET other == IF p % 2 = 0 THEN p + 1 ELSE p - 1
    IN  IF other < Len(level) THEN <<level[other + 1]>> ELSE <<>>

\* The siblings on the way up through the levels, as far as level n.
Siblings(level, place, n) ==
    LET proof[k \in 0 .. n] ==
            IF k = 0 THEN <<>> ELSE proof[k - 1] \o Sibling(level[k - 1], place[k - 1])
    IN  proof

generate_proof(list, index) ==
    Siblings(levels(list), places(index, Len(list)), Top(list))[Top(list)]

\* Every sibling is hashed on the right.
Climb(leaf, proof) ==
    LET current[k \in 0 .. Len(proof)] ==
            IF k = 0 THEN leaf ELSE node_hash(current[k - 1], proof[k])
    IN  current

verify_proof(leaf, proof, root) == Climb(leaf, proof)[Len(proof)] = root

-----------------------------------------------------------------------------
\* How many entries the levels over a list of n have.
sizes(n) ==
    LET size[k \in 0 .. n] == IF k = 0 THEN n ELSE (size[k - 1] + 1) \div 2 IN size

\* The way up from the entry at index of a list of n by its proof alone, when every
\* sibling is hashed on its own side: the hash reached and the siblings used.
WayUp(leaf, proof, n, index) ==
    LET size == sizes(n)
        place == places(index, n)
        way[k \in 0 .. n] ==
            IF k = 0 THEN [hash |-> leaf, used |-> 0]
            ELSE LET w == way[k - 1]
                     p == place[k - 1]
                 IN  IF p % 2 = 1
                     THEN [hash |-> node_hash(proof[w.used + 1], w.hash), used |-> w.used + 1]
                     ELSE IF p + 1 < size[k - 1]
                     THEN [hash |-> node_hash(w.hash, proof[w.used + 1]), used |-> w.used + 1]
                     ELSE w
    IN  way

Rebuilt(leaf, proof, n, index) == WayUp(leaf, proof, n, index)[n].hash

\* The proof generated for a leaf leads from it to the root, whatever the length of the
\* list, and verify_proof() accepts it for no other leaf.  For the first leaf it does
\* accept it; for a later one, whose siblings may belong on the left, nothing is claimed
\* (test_merkle_proof expects it for all of them).
ProofsVerify ==
    \A i \in 0 .. Len(leaves) - 1 :
        LET proof == generate_proof(leaves, i)
            root == compute_root(leaves)
        IN  /\ Rebuilt(leaves[i + 1], proof, Len(leaves), i) = root
            /\ i = 0 => verify_proof(leaves[1], proof, root)
            /\ \A d \in LeafData : verify_proof(leaf_hash(d), proof, root) =>
                 leaves[i + 1] = leaf_hash(d)
=============================================================================
