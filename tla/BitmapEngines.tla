---------------------------- MODULE BitmapEngines ----------------------------
(***************************************************************************)
(* The operations on plain bitmaps: SimdBitmapEngine (index-fabric/src/    *)
(* simd_bitmap.rs), on slices of words, BitmapIntersectionEngine           *)
(* (query-orchestrator/src/bitmap_intersection.rs), on PubkeyBitmaps, and  *)
(* the set operations of PubkeyBitmap and SimdRoaringBitmap, the           *)
(* QueryCostEstimator, which counts the ids of a PubkeyBitmap, and the     *)
(* BitmapStore (index-fabric/src/bitmap_store.rs), which keeps them.       *)
(*                                                                         *)
(* A word is the set of its bits, 0 .. WordBits - 1; a PubkeyBitmap is the *)
(* set of its ids.  Two slices grow word by word, so that all of them up   *)
(* to a length are compared, those of different lengths too.               *)
(***************************************************************************)
EXTENDS Integers, Sequences, SequencesExt, FiniteSetsExt, Maps

CONSTANTS WordBits,    \* 64
          MaxWords,    \* bound: length of a slice
          StoreKeys,   \* pairs of index name and key
          MaxStored    \* bound: bytes the store counts

ASSUME EnginesAssumption == WordBits \in Nat \ {0} /\ MaxWords \in Nat /\ MaxStored \in Nat

VARIABLES sliceA, sliceB,
          stored_bitmaps,          \* BitmapStore: key -> PubkeyBitmap
          total_bitmaps,
          compressed_size_bytes,
          overwritten              \* history: bytes of the bitmaps that were replaced

slices == <<sliceA, sliceB>>
storeState == <<stored_bitmaps, total_bitmaps, compressed_size_bytes, overwritten>>
enginesState == <<slices, storeState>>

Words == SUBSET (0 .. WordBits - 1)

EnginesInit ==
    /\ sliceA = <<>> /\ sliceB = <<>>
    /\ stored_bitmaps = EmptyMap /\ total_bitmaps = 0 /\ compressed_size_bytes = 0
    /\ overwritten = 0

EnginesNext ==
    /\ \E w \in Words :
        \/ Len(sliceA) < MaxWords /\ sliceA' = Append(sliceA, w) /\ UNCHANGED sliceB
        \/ Len(sliceB) < MaxWords /\ sliceB' = Append(sliceB, w) /\ UNCHANGED sliceA
    /\ UNCHANGED storeState

-----------------------------------------------------------------------------
(* SimdBitmapEngine; the result slice is as long as the shorter argument *)

Common(a, b) == IF Len(a) < Len(b) THEN Len(a) ELSE Len(b)

bitmap_and(a, b) == [i \in 1 .. Common(a, b) |-> a[i] \cap b[i]]
bitmap_or(a, b) == [i \in 1 .. Common(a, b) |-> a[i] \cup b[i]]
bitmap_xor(a, b) == [i \in 1 .. Common(a, b) |-> (a[i] \cup b[i]) \ (a[i] \cap b[i])]

popcount(a) ==
    LET sum[i \in 0 .. Len(a)] == IF i = 0 THEN 0 ELSE sum[i - 1] + Cardinality(a[i])
    IN  sum[Len(a)]
intersection_size(a, b) == popcount(bitmap_and(a, b))
union_size(a, b) == popcount(bitmap_or(a, b))

\* while w != 0: the lowest set bit of the word is listed and cleared.
Ascending(w) ==
    LET at[k \in 0 .. Cardinality(w)] ==
            IF k = 0 THEN [listed |-> <<>>, left |-> w]
            ELSE LET low == Min(at[k - 1].left)
                 IN  [listed |-> Append(at[k - 1].listed, low), left |-> at[k - 1].left \ {low}]
    IN  at[Cardinality(w)].listed

\* The positions of the set bits of one word, and of all of them word after word.
BitsOfWord(a, i) == [k \in DOMAIN Ascending(a[i]) |-> (i - 1) * WordBits + Ascending(a[i])[k]]
find_all_set(a) ==
    LET found[i \in 0 .. Len(a)] == IF i = 0 THEN <<>> ELSE found[i - 1] \o BitsOfWord(a, i)
    IN  found[Len(a)]

\* None is -1.
find_first_set(a) ==
    LET nonzero == {i \in DOMAIN a : a[i] # {}}
    IN  IF nonzero = {} THEN -1 ELSE (Min(nonzero) - 1) * WordBits + Min(a[Min(nonzero)])

\* One turn of the loop of merge_sorted(), which stops at the end of either list.
\* Mutant: of two equal values only one side moves on.
MergeTwice(a, b, m) ==
    IF m.i > Len(a) \/ m.j > Len(b) THEN m
    ELSE IF a[m.i] <= b[m.j] THEN [i |-> m.i + 1, j |-> m.j, result |-> Append(m.result, a[m.i])]
    ELSE [i |-> m.i, j |-> m.j + 1, result |-> Append(m.result, b[m.j])]

MergeStep(a, b, m) ==
    IF m.i > Len(a) \/ m.j > Len(b) THEN m
    ELSE IF a[m.i] < b[m.j] THEN [i |-> m.i + 1, j |-> m.j, result |-> Append(m.result, a[m.i])]
    ELSE IF a[m.i] > b[m.j] THEN [i |-> m.i, j |-> m.j + 1, result |-> Append(m.result, b[m.j])]
    ELSE [i |-> m.i + 1, j |-> m.j + 1, result |-> Append(m.result, a[m.i])]

merge_sorted(a, b) ==
    LET at[k \in 0 .. Len(a) + Len(b)] ==
            IF k = 0 THEN [i |-> 1, j |-> 1, result |-> <<>>] ELSE MergeStep(a, b, at[k - 1])
        m == at[Len(a) + Len(b)]
    IN  m.result \o SubSeq(a, m.i, Len(a)) \o SubSeq(b, m.j, Len(b))

-----------------------------------------------------------------------------
(* PubkeyBitmap (hyperplane-types/src/bitmap.rs), which keeps its cardinality  *)
(* beside the ids, and SimdRoaringBitmap, which asks its bitmap each time      *)

PubkeyBitmap(ids) == [bitmap |-> ids, cardinality |-> Cardinality(ids)]
intersection(a, b) == PubkeyBitmap(a.bitmap \cap b.bitmap)
union_of(a, b) == PubkeyBitmap(a.bitmap \cup b.bitmap)
difference(a, b) == PubkeyBitmap(a.bitmap \ b.bitmap)

\* The ids in ascending order, and the first n of them.
iter(b) == Ascending(b.bitmap)
first_n(b, n) == SubSeq(iter(b), 1, IF n < Len(iter(b)) THEN n ELSE Len(iter(b)))

\* The bytes of a bitmap, one for its containers and one for each id; the
\* cardinality is not among them and is counted anew.
serialize(b) == <<1>> \o iter(b)
deserialize(bytes) == PubkeyBitmap(ToSet(Tail(bytes)))
compressed_size(b) == Len(serialize(b))

\* SimdRoaringBitmap; jaccard() as a fraction.
simd_intersection(S, T) == S \cap T
simd_union(S, T) == S \cup T
simd_difference(S, T) == S \ T
jaccard(S, T) == IF S \cup T = {} THEN <<0, 1>> ELSE <<Cardinality(S \cap T), Cardinality(S \cup T)>>

-----------------------------------------------------------------------------
(* BitmapIntersectionEngine; no bitmaps at all intersect in the empty one *)

intersect(bitmaps) ==
    LET result[i \in DOMAIN bitmaps] ==
            IF i = 1 THEN bitmaps[1] ELSE intersection(result[i - 1], bitmaps[i])
    IN  IF bitmaps = <<>> THEN PubkeyBitmap({}) ELSE result[Len(bitmaps)]

union(bitmaps) ==
    LET result[i \in DOMAIN bitmaps] ==
            IF i = 1 THEN bitmaps[1] ELSE union_of(result[i - 1], bitmaps[i])
    IN  IF bitmaps = <<>> THEN PubkeyBitmap({}) ELSE result[Len(bitmaps)]

-----------------------------------------------------------------------------
(* QueryCostEstimator (query-orchestrator/src/cost_estimator.rs): a query with *)
(* s dataSize and m memcmp filters, and with a discriminator if disc.  The     *)
(* code multiplies f64 selectivities and rounds the product up.  Each of the   *)
(* constants is a little above its fraction, so that a product that should be  *)
(* an integer may come out above it and be rounded to the next one: the        *)
(* operators give the set of outcomes.  (That holds for bitmaps of less than   *)
(* 2^48 ids; beyond, the error reaches other products too.)                    *)

estimate_cardinality(b, s, m, disc) ==
    LET divisor == 10 ^ s * 20 ^ m * (IF disc THEN 100 ELSE 1)
        n == (b.cardinality + divisor - 1) \div divisor
    IN  {n} \cup (IF divisor > 1 /\ b.cardinality > 0 /\ divisor * n = b.cardinality
                 THEN {n + 1} ELSE {})

estimate_get_program_accounts(b, s, m, disc) ==
    LET bitmaps == 1 + s + m + (IF disc THEN 1 ELSE 0)
    IN  {[estimated_cardinality |-> n,
          total_cost |-> 100 + 10 * bitmaps + n + m * n * 10,
          should_stream |-> n > 1000] : n \in estimate_cardinality(b, s, m, disc)}

-----------------------------------------------------------------------------
(* BitmapStore; its one lock is held for a whole call.  A bitmap that replaces *)
(* another is added to the size, which the other one stays in.                 *)

SaturatingSub(m, n) == IF m > n THEN m - n ELSE 0

StoreBitmap(k, b) ==
    /\ compressed_size_bytes + compressed_size(b) <= MaxStored
    /\ stored_bitmaps' = Put(stored_bitmaps, k, b)
    /\ total_bitmaps' = Cardinality(DOMAIN stored_bitmaps')
    /\ compressed_size_bytes' = compressed_size_bytes + compressed_size(b)
    /\ overwritten' = overwritten + IF k \in DOMAIN stored_bitmaps THEN compressed_size(stored_bitmaps[k]) ELSE 0
    /\ UNCHANGED slices

RemoveBitmap(k) ==
    /\ k \in DOMAIN stored_bitmaps
    /\ stored_bitmaps' = Drop(stored_bitmaps, k)
    /\ compressed_size_bytes' = SaturatingSub(compressed_size_bytes, compressed_size(stored_bitmaps[k]))
    /\ total_bitmaps' = Cardinality(DOMAIN stored_bitmaps')
    /\ UNCHANGED <<slices, overwritten>>

StoreNext ==
    \E k \in StoreKeys : RemoveBitmap(k) \/ \E w \in Words : StoreBitmap(k, PubkeyBitmap(w))

EnginesSpec == EnginesInit /\ [][EnginesNext \/ StoreNext]_enginesState

-----------------------------------------------------------------------------
\* The bits of the first n words of a slice as a set of positions.
Positions(a, n) == UNION {{(i - 1) * WordBits + b : b \in a[i]} : i \in 1 .. n}

\* The members of a set of numbers in ascending order, each of them once.
Ascends(s, S) == ToSet(s) = S /\ \A i, j \in DOMAIN s : i < j => s[i] < s[j]

\* The engines agree with sets of positions: AND does on slices of any lengths, OR, XOR
\* and union_size() do on slices of one length (of a longer one they leave out the rest),
\* the searches list the bits in order, merging two lists of them gives the list of
\* their union without repetition, the intersection of several bitmaps is what is
\* in all of them, the cached cardinality is that of the result and what the other
\* kind of bitmap counts, a bitmap is its difference from and its intersection with
\* any other, and its first n ids and the others list it in order.  However the
\* multiplication is rounded, the estimate of a query is never beyond the bitmap, 0 for
\* the empty one alone, more filters do not raise it, and the cost covers it.  A bitmap
\* read back from its bytes is the same one.  The slices have at least one word between
\* them.
SlicesAgree == Len(sliceA) + Len(sliceB) > 0 =>
    LET n == Common(sliceA, sliceB)
        A == Positions(sliceA, n)
        B == Positions(sliceB, n)
        allA == find_all_set(sliceA)
        allB == find_all_set(sliceB)
        rangeA == Positions(sliceA, Len(sliceA))
        rangeB == Positions(sliceB, Len(sliceB))
    IN  /\ Positions(bitmap_and(sliceA, sliceB), n) = A \cap B
        /\ intersection_size(sliceA, sliceB) = Cardinality(A \cap B)
        /\ Len(sliceA) = Len(sliceB) =>
              /\ Positions(bitmap_or(sliceA, sliceB), n) = A \cup B
              /\ Positions(bitmap_xor(sliceA, sliceB), n) = (A \ B) \cup (B \ A)
              /\ union_size(sliceA, sliceB) = Cardinality(A \cup B)
        /\ Ascends(allA, rangeA)
        /\ find_first_set(sliceA) = IF rangeA = {} THEN -1 ELSE Min(rangeA)
        /\ Ascends(merge_sorted(allA, allB), rangeA \cup rangeB)
        /\ LET maps == [i \in DOMAIN sliceA |-> PubkeyBitmap(sliceA[i])]
               all == UNION {sliceA[i] : i \in DOMAIN sliceA}
           IN  /\ union(maps) = PubkeyBitmap(all)
               /\ intersect(maps) = PubkeyBitmap({x \in all : \A i \in DOMAIN sliceA : x \in sliceA[i]})
        /\ LET a == PubkeyBitmap(rangeA)
               b == PubkeyBitmap(rangeB)
               common == intersection(a, b)
           IN  /\ union_of(difference(a, b), common) = a
               /\ deserialize(serialize(common)) = common
               /\ difference(a, b).cardinality + common.cardinality = a.cardinality
               /\ common.cardinality = Cardinality(simd_intersection(rangeA, rangeB))
               /\ difference(a, b).bitmap = simd_difference(rangeA, rangeB)
               /\ jaccard(rangeA, rangeB)[1] <= jaccard(rangeA, rangeB)[2]
               /\ simd_union(rangeA, rangeB) # {} => jaccard(rangeA, rangeB) =
                     <<common.cardinality, union_of(a, b).cardinality>>
               /\ \A k \in 0 .. Cardinality(rangeA) :
                     LET others == difference(a, PubkeyBitmap(ToSet(first_n(a, k))))
                     IN  Ascends(first_n(a, k) \o iter(others), a.bitmap) /\ Len(first_n(a, k)) = k
               /\ \A s, m \in 0 .. 1, disc \in BOOLEAN :
                     \A more \in estimate_get_program_accounts(a, s + 1, m + 1, disc),
                        less \in estimate_get_program_accounts(a, s, m, disc) :
                         /\ more.estimated_cardinality <= less.estimated_cardinality
                         /\ less.estimated_cardinality <= a.cardinality
                         /\ less.estimated_cardinality = 0 <=> a.bitmap = {}
                         /\ less.estimated_cardinality < less.total_cost

\* The bytes of the bitmaps the store keeps, each with its key and its place.
KeptBytes == UNION {{k} \X (1 .. compressed_size(stored_bitmaps[k])) : k \in DOMAIN stored_bitmaps}

\* The store reports the bitmaps it keeps and, as long as it has replaced none, their
\* size; from the first replacement on the size is too high, but no sequence of
\* replacements and removals brings it below what is kept (store_bitmap(),
\* remove_bitmap()).
StoreCounts ==
    /\ total_bitmaps = Cardinality(DOMAIN stored_bitmaps)
    /\ overwritten = 0 => compressed_size_bytes = Cardinality(KeptBytes)
    /\ compressed_size_bytes >= Cardinality(KeptBytes)

\* The operations on bitmaps agree with those on sets, as SlicesAgree says, and the store
\* accounts for the bitmaps it is given, as StoreCounts does.
EnginesAgree == SlicesAgree /\ StoreCounts
=============================================================================
