------------------------ MODULE BitmapEnginesProofs ------------------------
(* BitmapEngines for words of any width, slices of any length and any keys:  *)
(* the routines on bitmaps are the operations on sets, and the bitmap store  *)
(* counts what it keeps.  First the induction that loops are proved with.    *)
EXTENDS BitmapEngines, SequenceTheorems, FiniteSetTheorems, WellFoundedInduction, TLAPS

----------------------------------------------------------------------------
(* Induction over numbers, with a set in the place of the predicate.        *)

\* A set of numbers that is not empty has a least one.
LEMMA LeastNumber ==
  ASSUME NEW S \in SUBSET Nat, S # {}
  PROVE  \E m \in S : \A k \in S : m <= k
<1> DEFINE R == OpToRel(<, Nat)
<1>1. PICK m \in S : \A k \in S : <<k, m>> \notin R
  <2>1. IsWellFoundedOn(R, Nat)
    BY NatLessThanWellFounded
  <2> HIDE DEF R
  <2>2. QED
    BY <2>1, WFMin
<1>2. \A k \in S : ~(k < m)
  BY <1>1 DEF OpToRel
<1>3. QED
  BY <1>2

\* A set that holds 0 and, with a number below n, the next one, holds all of them up to n.
LEMMA UpTo ==
  ASSUME NEW n \in Nat, NEW S, 0 \in S, \A k \in 0 .. n - 1 : k \in S => k + 1 \in S
  PROVE  0 .. n \subseteq S
<1> SUFFICES ASSUME NEW j \in 0 .. n, j \notin S
             PROVE  FALSE
  OBVIOUS
<1> DEFINE T == {k \in 0 .. n : k \notin S}
<1>1. PICK m \in T : \A k \in T : m <= k
  <2>1. T \in SUBSET Nat /\ T # {}
    OBVIOUS
  <2> HIDE DEF T
  <2>2. QED
    BY <2>1, LeastNumber
<1>2. m # 0 /\ m - 1 \in 0 .. n - 1 /\ m - 1 \notin T
  BY <1>1
<1>3. QED
  BY <1>1, <1>2

\* The same from n down to 0.
LEMMA DownFrom ==
  ASSUME NEW n \in Nat, NEW S, n \in S, \A k \in 1 .. n : k \in S => k - 1 \in S
  PROVE  0 .. n \subseteq S
<1> DEFINE T == {k \in 0 .. n : n - k \in S}
<1>1. 0 \in T
  OBVIOUS
<1>2. \A k \in 0 .. n - 1 : k \in T => k + 1 \in T
  <2> SUFFICES ASSUME NEW k \in 0 .. n - 1, n - k \in S
               PROVE  n - (k + 1) \in S
    OBVIOUS
  <2>1. n - k \in 1 .. n /\ (n - k) - 1 = n - (k + 1)
    OBVIOUS
  <2>2. QED
    BY <2>1
<1>3. 0 .. n \subseteq T
  <2> HIDE DEF T
  <2>1. QED
    BY <1>1, <1>2, UpTo
<1>4. \A k \in 0 .. n : n - k \in T /\ n - (n - k) = k
  BY <1>3
<1>5. QED
  BY <1>4

\* f is made from d by the steps step[1] to step[n], each of which stays in D.
Made(f, n, D, d, step) ==
    f \in [0 .. n -> D] /\ f[0] = d /\ \A k \in 1 .. n : f[k] = step[k][f[k - 1]]
StaysIn(D, n, step) == \A k \in 1 .. n : \A x \in D : step[k][x] \in D

\* What is defined step by step exists.
LEMMA Recursion ==
  ASSUME NEW n \in Nat, NEW D, NEW d \in D, NEW step, StaysIn(D, n, step)
  PROVE  \E f : Made(f, n, D, d, step)
<1> DEFINE S == {m \in 0 .. n : \E f \in [0 .. m -> D] :
                    f = [k \in 0 .. m |-> IF k = 0 THEN d ELSE step[k][f[k - 1]]]}
<1>1. 0 \in S
  <2> DEFINE f == [k \in 0 .. 0 |-> d]
  <2>1. /\ f \in [0 .. 0 -> D]
        /\ f = [k \in 0 .. 0 |-> IF k = 0 THEN d ELSE step[k][f[k - 1]]]
    OBVIOUS
  <2> HIDE DEF f
  <2>2. QED
    BY <2>1
<1>2. ASSUME NEW m \in 0 .. n - 1, m \in S
      PROVE  m + 1 \in S
  <2>1. PICK g \in [0 .. m -> D] :
           g = [k \in 0 .. m |-> IF k = 0 THEN d ELSE step[k][g[k - 1]]]
    BY <1>2
  <2> DEFINE f == [k \in 0 .. m + 1 |-> IF k = m + 1 THEN step[m + 1][g[m]] ELSE g[k]]
  <2>2. step[m + 1][g[m]] \in D
    <3>1. m + 1 \in 1 .. n /\ g[m] \in D
      OBVIOUS
    <3>2. QED
      BY <3>1 DEF StaysIn
  <2>3. f \in [0 .. m + 1 -> D]
    BY <2>2
  <2>4. ASSUME NEW k \in 0 .. m + 1
        PROVE  f[k] = IF k = 0 THEN d ELSE step[k][f[k - 1]]
    <3>1. CASE k = m + 1
      BY <3>1
    <3>2. CASE k # m + 1
      <4>1. k \in 0 .. m /\ (k # 0 => k - 1 \in 0 .. m /\ k - 1 # m + 1)
        BY <3>2
      <4>2. g[k] = IF k = 0 THEN d ELSE step[k][g[k - 1]]
        BY <2>1, <4>1
      <4>3. QED
        BY <3>2, <4>1, <4>2
    <3>3. QED
      BY <3>1, <3>2
  <2>5. f = [k \in 0 .. m + 1 |-> IF k = 0 THEN d ELSE step[k][f[k - 1]]]
    <3> HIDE DEF f
    <3>1. QED
      BY <2>3, <2>4
  <2>6. m + 1 \in 0 .. n
    OBVIOUS
  <2> HIDE DEF f
  <2>7. QED
    BY <2>3, <2>5, <2>6
<1>3. n \in S
  <2> HIDE DEF S
  <2>1. 0 .. n \subseteq S
    BY <1>1, <1>2, UpTo
  <2>2. QED
    BY <2>1
<1>4. PICK f \in [0 .. n -> D] :
         f = [k \in 0 .. n |-> IF k = 0 THEN d ELSE step[k][f[k - 1]]]
  BY <1>3
<1>5. f[0] = d /\ \A k \in 1 .. n : f[k] = step[k][f[k - 1]]
  BY <1>4
<1>6. QED
  BY <1>5 DEF Made

\* What is defined step by step from a member of D stays in D.
LEMMA Stays ==
  ASSUME NEW n \in Nat, NEW D, NEW step, StaysIn(D, n, step), NEW g, g[0] \in D,
         \A k \in 1 .. n : g[k - 1] \in D => g[k] = step[k][g[k - 1]]
  PROVE  \A k \in 0 .. n : g[k] \in D
<1> DEFINE S == {k \in 0 .. n : g[k] \in D}
<1>1. 0 \in S
  OBVIOUS
<1>2. ASSUME NEW k \in 0 .. n - 1, k \in S
      PROVE  k + 1 \in S
  <2>1. k + 1 \in 1 .. n /\ (k + 1) - 1 = k /\ k + 1 \in 0 .. n /\ g[k] \in D
    BY <1>2
  <2>2. g[k + 1] = step[k + 1][g[k]] /\ step[k + 1][g[k]] \in D
    BY <2>1 DEF StaysIn
  <2>3. QED
    BY <2>1, <2>2
<1> HIDE DEF S
<1>3. 0 .. n \subseteq S
  BY <1>1, <1>2, UpTo
<1>4. QED
  BY <1>3 DEF S

----------------------------------------------------------------------------
(* The bitmap routines.                                                      *)

LEMMA MinOf ==
  ASSUME NEW S \in SUBSET Nat, S # {}
  PROVE  Min(S) \in S /\ \A x \in S : Min(S) <= x
<1>1. \E m \in S : \A k \in S : m <= k
  BY LeastNumber
<1>2. QED
  BY <1>1 DEF Min

\* One ascending list after another with higher members.
LEMMA AscendsJoin ==
  ASSUME NEW S \in SUBSET Nat, NEW T \in SUBSET Nat, NEW s \in Seq(S), NEW t \in Seq(T),
         Ascends(s, S), Ascends(t, T), \A p \in S, q \in T : p < q
  PROVE  s \o t \in Seq(S \cup T) /\ Ascends(s \o t, S \cup T)
<1> DEFINE m == Len(s)
           n == Len(t)
           r == s \o t
<1>1. s \in Seq(S \cup T) /\ t \in Seq(S \cup T)
  BY SeqDef
<1>2. m \in Nat /\ n \in Nat /\ DOMAIN s = 1 .. m /\ DOMAIN t = 1 .. n
  BY LenProperties
<1>3. /\ r \in Seq(S \cup T)
      /\ Len(r) = m + n
      /\ \A i \in 1 .. m + n : r[i] = IF i <= m THEN s[i] ELSE t[i - m]
  BY <1>1, ConcatProperties
<1>4. DOMAIN r = 1 .. m + n
  BY <1>3, LenProperties
<1>5. /\ {s[i] : i \in 1 .. m} = S /\ \A i, j \in 1 .. m : i < j => s[i] < s[j]
      /\ {t[i] : i \in 1 .. n} = T /\ \A i, j \in 1 .. n : i < j => t[i] < t[j]
  BY <1>2 DEF Ascends, ToSet
<1> HIDE DEF m, n, r
<1>6. \A i \in 1 .. m : r[i] = s[i] /\ s[i] \in S
  BY <1>2, <1>3, <1>5
<1>7. \A i \in 1 .. m + n : i > m => i - m \in 1 .. n /\ r[i] = t[i - m] /\ t[i - m] \in T
  BY <1>2, <1>3, <1>5
<1>8. {r[i] : i \in 1 .. m + n} = S \cup T
  <2>1. ASSUME NEW x \in S
        PROVE  \E i \in 1 .. m + n : r[i] = x
    <3>1. PICK i \in 1 .. m : s[i] = x
      BY <1>5
    <3>2. QED
      BY <1>2, <1>6, <3>1
  <2>2. ASSUME NEW x \in T
        PROVE  \E i \in 1 .. m + n : r[i] = x
    <3>1. PICK i \in 1 .. n : t[i] = x
      BY <1>5
    <3>2. m + i \in 1 .. m + n /\ m + i > m /\ (m + i) - m = i
      BY <1>2
    <3>3. QED
      BY <1>7, <3>1, <3>2
  <2>3. \A i \in 1 .. m + n : r[i] \in S \cup T
    BY <1>2, <1>6, <1>7
  <2>4. QED
    BY <2>1, <2>2, <2>3
<1>9. ASSUME NEW i \in 1 .. m + n, NEW j \in 1 .. m + n, i < j
      PROVE  r[i] < r[j]
  <2>1. CASE j <= m
    BY <1>2, <1>5, <1>6, <1>9, <2>1
  <2>2. CASE i > m
    <3>1. j > m
      BY <1>2, <1>9, <2>2
    <3>2. i - m < j - m
      BY <1>2, <1>9
    <3>3. r[i] = t[i - m] /\ r[j] = t[j - m] /\ i - m \in 1 .. n /\ j - m \in 1 .. n
      BY <1>7, <2>2, <3>1
    <3>4. QED
      BY <1>5, <3>2, <3>3
  <2>3. CASE i <= m /\ j > m
    <3>1. i \in 1 .. m
      BY <1>2, <2>3
    <3>2. r[i] \in S /\ r[j] \in T
      BY <1>6, <1>7, <2>3, <3>1
    <3>3. QED
      BY <3>2
  <2>4. QED
    BY <1>2, <2>1, <2>2, <2>3
<1>10. Ascends(r, S \cup T)
  BY <1>4, <1>8, <1>9 DEF Ascends, ToSet
<1>11. QED
  BY <1>3, <1>10 DEF r

\* A higher member at the end of an ascending list.
LEMMA AscendsAppend ==
  ASSUME NEW S \in SUBSET Nat, NEW s \in Seq(S), Ascends(s, S), NEW v \in Nat, \A p \in S : p < v
  PROVE  Append(s, v) \in Seq(S \cup {v}) /\ Ascends(Append(s, v), S \cup {v})
<1>1. <<v>> \in Seq({v}) /\ Len(<<v>>) = 1 /\ <<v>>[1] = v
  OBVIOUS
<1>2. DOMAIN <<v>> = {1}
  OBVIOUS
<1>3. Ascends(<<v>>, {v})
  BY <1>1, <1>2 DEF Ascends, ToSet
<1>4. {v} \in SUBSET Nat /\ \A p \in S, q \in {v} : p < q
  OBVIOUS
<1>5. s \o <<v>> \in Seq(S \cup {v}) /\ Ascends(s \o <<v>>, S \cup {v})
  BY <1>1, <1>3, <1>4, AscendsJoin
<1>6. Append(s, v) = s \o <<v>>
  BY AppendIsConcat
<1>7. QED
  BY <1>5, <1>6

\* f[k] is what the loop over a word w has listed, and what is left, after k turns.
Cleared(f, w) ==
    f = [k \in 0 .. Cardinality(w) |->
            IF k = 0 THEN [listed |-> <<>>, left |-> w]
            ELSE LET low == Min(f[k - 1].left)
                 IN  [listed |-> Append(f[k - 1].listed, low), left |-> f[k - 1].left \ {low}]]

LEMMA AscendingSteps ==
  ASSUME NEW w \in SUBSET Nat, IsFiniteSet(w)
  PROVE  \E f : Cleared(f, w) /\ Ascending(w) = f[Cardinality(w)].listed
<1> DEFINE n == Cardinality(w)
           X == Nat \cup {Min({})}
           D == [listed : Seq(X), left : SUBSET w]
           d == [listed |-> <<>>, left |-> w]
           next == [k \in 1 .. n |-> [x \in D |->
                      [listed |-> Append(x.listed, Min(x.left)), left |-> x.left \ {Min(x.left)}]]]
<1>1. n \in Nat
  BY FS_CardinalityType
<1>2. StaysIn(D, n, next)
  <2> SUFFICES ASSUME NEW k \in 1 .. n, NEW x \in D
               PROVE  next[k][x] \in D
    BY DEF StaysIn
  <2>1. x.left \in SUBSET Nat /\ x.listed \in Seq(X)
    OBVIOUS
  <2>2. Min(x.left) \in X
    <3>1. CASE x.left = {}
      BY <3>1
    <3>2. CASE x.left # {}
      BY <2>1, <3>2, MinOf
    <3>3. QED
      BY <3>1, <3>2
  <2> HIDE DEF X
  <2>3. Append(x.listed, Min(x.left)) \in Seq(X)
    BY <2>1, <2>2, AppendProperties
  <2>4. QED
    BY <2>3
<1>3. d \in D
  OBVIOUS
<1> HIDE DEF n, D, d
<1>4. PICK f : Made(f, n, D, d, next)
  <2> HIDE DEF next
  <2>1. QED
    BY <1>1, <1>2, <1>3, Recursion
<1>5. Cleared(f, w)
  <2>1. ASSUME NEW k \in 0 .. n
        PROVE  f[k] = IF k = 0 THEN [listed |-> <<>>, left |-> w]
                      ELSE LET low == Min(f[k - 1].left)
                           IN  [listed |-> Append(f[k - 1].listed, low), left |-> f[k - 1].left \ {low}]
    <3>1. CASE k = 0
      BY <1>4, <3>1 DEF Made, d
    <3>2. CASE k # 0
      <4>1. k \in 1 .. n /\ k - 1 \in 0 .. n
        BY <1>1, <3>2
      <4>2. f[k] = next[k][f[k - 1]] /\ f[k - 1] \in D
        BY <1>4, <4>1 DEF Made
      <4>3. QED
        BY <3>2, <4>1, <4>2
    <3>3. QED
      BY <3>1, <3>2
  <2>2. f \in [0 .. n -> D]
    BY <1>4 DEF Made
  <2> HIDE DEF next
  <2>3. f = [k \in 0 .. n |->
              IF k = 0 THEN [listed |-> <<>>, left |-> w]
              ELSE LET low == Min(f[k - 1].left)
                   IN  [listed |-> Append(f[k - 1].listed, low), left |-> f[k - 1].left \ {low}]]
    BY <2>1, <2>2
  <2>4. QED
    BY <2>3 DEF Cleared, n
<1> DEFINE at == CHOOSE g : Cleared(g, w)
<1>6. Cleared(at, w) /\ Ascending(w) = at[n].listed
  BY <1>5 DEF Ascending, Cleared, n
<1>7. QED
  BY <1>6 DEF n

\* After k turns the k lowest bits are listed.
Lowest(x, w, k) ==
    /\ x.listed \in Seq(w \ x.left) /\ x.left \in SUBSET w
    /\ Len(x.listed) = k /\ Cardinality(x.left) = Cardinality(w) - k
    /\ Ascends(x.listed, w \ x.left)
    /\ \A p \in w \ x.left, q \in x.left : p < q

LEMMA LowestNext ==
  ASSUME NEW w \in SUBSET Nat, IsFiniteSet(w), NEW k \in 0 .. Cardinality(w) - 1,
         NEW x, Lowest(x, w, k)
  PROVE  LET low == Min(x.left)
         IN  Lowest([listed |-> Append(x.listed, low), left |-> x.left \ {low}], w, k + 1)
<1> DEFINE low == Min(x.left)
           s == x.listed
           y == [listed |-> Append(s, low), left |-> x.left \ {low}]
<1>1. x.left \in SUBSET w /\ IsFiniteSet(x.left) /\ Cardinality(x.left) = Cardinality(w) - k
  BY FS_Subset DEF Lowest
<1>2. Cardinality(w) \in Nat
  BY FS_CardinalityType
<1>3. x.left # {}
  BY <1>1, <1>2, FS_EmptySet
<1>4. low \in x.left /\ \A q \in x.left : low <= q
  <2>1. x.left \in SUBSET Nat
    BY <1>1
  <2>2. QED
    BY <1>3, <2>1, MinOf
<1> HIDE DEF low
<1>5. Cardinality(y.left) = Cardinality(w) - (k + 1) /\ y.left \in SUBSET w
  <2>1. Cardinality(x.left \ {low}) = Cardinality(x.left) - 1
    BY <1>1, <1>4, FS_RemoveElement
  <2>2. Cardinality(x.left \ {low}) = Cardinality(w) - (k + 1)
    BY <1>1, <1>2, <2>1
  <2>3. y.left = x.left \ {low}
    OBVIOUS
  <2>4. QED
    BY <1>1, <2>2, <2>3
<1> DEFINE t == Append(s, low)
           S == w \ x.left
<1>6. s \in Seq(S) /\ Len(s) = k /\ Ascends(s, S) /\ \A p \in S, q \in x.left : p < q
  BY DEF Lowest
<1>7. w \ y.left = S \cup {low}
  BY <1>1, <1>4
<1>8. t \in Seq(S \cup {low}) /\ Ascends(t, S \cup {low})
  <2>1. S \in SUBSET Nat /\ low \in Nat /\ \A p \in S : p < low
    BY <1>1, <1>4, <1>6
  <2> HIDE DEF S
  <2>2. QED
    BY <1>6, <2>1, AscendsAppend
<1>9. Len(t) = k + 1
  <2> HIDE DEF S
  <2>1. QED
    BY <1>6
<1>10. \A p \in w \ y.left, q \in y.left : p < q
  <2>1. \A q \in y.left : q \in x.left /\ q # low /\ low <= q /\ q \in Nat /\ low \in Nat
    BY <1>1, <1>4
  <2>2. \A q \in y.left : low < q
    BY <2>1
  <2>3. \A p \in S, q \in y.left : p < q
    BY <1>6, <2>1
  <2>4. QED
    BY <1>7, <2>2, <2>3
<1>11. y.listed = t
  OBVIOUS
<1>12. Lowest(y, w, k + 1)
  <2> HIDE DEF y, t, S
  <2>1. QED
    BY <1>5, <1>7, <1>8, <1>9, <1>10, <1>11 DEF Lowest
<1>13. QED
  BY <1>12 DEF low

LEMMA AscendingAscends ==
  ASSUME NEW w \in SUBSET Nat, IsFiniteSet(w)
  PROVE  Ascending(w) \in Seq(w) /\ Len(Ascending(w)) = Cardinality(w) /\ Ascends(Ascending(w), w)
<1> DEFINE n == Cardinality(w)
<1>1. n \in Nat
  BY FS_CardinalityType
<1>2. PICK f : Cleared(f, w) /\ Ascending(w) = f[n].listed
  BY AscendingSteps
<1> DEFINE S == {k \in 0 .. n : Lowest(f[k], w, k)}
<1>3. f[0] = [listed |-> <<>>, left |-> w]
  BY <1>1, <1>2 DEF Cleared
<1>4. 0 \in S
  <2>1. f[0].listed = <<>> /\ f[0].left = w
    BY <1>3
  <2>2. Ascends(<<>>, {})
    BY DEF Ascends, ToSet
  <2>3. w \ f[0].left = {} /\ Len(<<>>) = 0 /\ <<>> \in Seq({}) /\ n = n - 0
    BY <1>1, <2>1
  <2>4. Lowest(f[0], w, 0)
    BY <2>1, <2>2, <2>3 DEF Lowest
  <2>5. 0 \in 0 .. n
    BY <1>1
  <2>6. QED
    BY <2>4, <2>5
<1>5. ASSUME NEW k \in 0 .. n - 1, k \in S
      PROVE  k + 1 \in S
  <2>1. k + 1 \in 0 .. n /\ k + 1 # 0 /\ (k + 1) - 1 = k
    BY <1>1
  <2>2. f[k + 1] = [listed |-> Append(f[k].listed, Min(f[k].left)), left |-> f[k].left \ {Min(f[k].left)}]
    BY <1>2, <2>1 DEF Cleared
  <2>3. Lowest(f[k + 1], w, k + 1)
    BY <1>5, <2>2, LowestNext
  <2>4. QED
    BY <2>1, <2>3
<1>6. n \in S
  <2> HIDE DEF S
  <2>1. 0 .. n \subseteq S
    BY <1>1, <1>4, <1>5, UpTo
  <2>2. QED
    BY <1>1, <2>1
<1>7. Lowest(f[n], w, n)
  BY <1>6
<1>8. f[n].left = {}
  <2>1. f[n].left \in SUBSET w /\ Cardinality(f[n].left) = 0
    BY <1>1, <1>7 DEF Lowest
  <2>2. IsFiniteSet(f[n].left)
    BY <2>1, FS_Subset
  <2>3. QED
    BY <2>1, <2>2, FS_EmptySet
<1>9. w \ f[n].left = w
  BY <1>8
<1>10. QED
  BY <1>2, <1>7, <1>9 DEF Lowest

Slices == Seq(Words)

LEMMA BitsBelow ==
  ASSUME NEW w \in Words
  PROVE  w \in SUBSET Nat /\ IsFiniteSet(w) /\ \A b \in w : b \in 0 .. WordBits - 1
<1>1. WordBits \in Nat \ {0}
  BY EnginesAssumption
<1>2. w \subseteq 0 .. WordBits - 1
  BY DEF Words
<1>3. IsFiniteSet(0 .. WordBits - 1)
  BY <1>1, FS_Interval
<1>4. IsFiniteSet(w)
  BY <1>2, <1>3, FS_Subset
<1>5. w \in SUBSET Nat
  BY <1>1, <1>2
<1>6. QED
  BY <1>2, <1>4, <1>5

\* A position tells the word and the bit.
LEMMA PositionOf ==
  ASSUME NEW q \in Nat, NEW b \in 0 .. WordBits - 1
  PROVE  q * WordBits + b \in Nat /\ (q * WordBits + b) \div WordBits = q /\ (q * WordBits + b) % WordBits = b
<1>1. WordBits \in Nat \ {0}
  BY EnginesAssumption
<1>2. q * WordBits + b \in Nat
  BY <1>1
<1>3. (q * WordBits + b) \div WordBits = q
  BY <1>1
<1>4. (q * WordBits + b) % WordBits = b
  BY <1>1
<1>5. QED
  BY <1>2, <1>3, <1>4

\* The positions of one word.
WordAt(a, i) == {(i - 1) * WordBits + b : b \in a[i]}

LEMMA WordAtBounds ==
  ASSUME NEW n \in Nat, NEW a, \A i \in 1 .. n : a[i] \in Words, NEW i \in 1 .. n, NEW p \in WordAt(a, i)
  PROVE  /\ p \in Nat /\ p \div WordBits = i - 1 /\ p % WordBits \in a[i]
         /\ (i - 1) * WordBits <= p /\ p < i * WordBits
<1>1. PICK b \in a[i] : p = (i - 1) * WordBits + b
  BY DEF WordAt
<1>2. b \in 0 .. WordBits - 1
  BY BitsBelow
<1>3. i - 1 \in Nat
  OBVIOUS
<1>4. p \in Nat /\ p \div WordBits = i - 1 /\ p % WordBits = b
  BY <1>1, <1>2, <1>3, PositionOf
<1>5. WordBits \in Nat
  BY EnginesAssumption
<1>6. (i - 1) * WordBits + WordBits = i * WordBits /\ (i - 1) * WordBits \in Int
  BY <1>5
<1>7. (i - 1) * WordBits <= p /\ p < i * WordBits
  BY <1>1, <1>2, <1>5, <1>6
<1>8. p % WordBits \in a[i]
  BY <1>4
<1>9. QED
  BY <1>4, <1>7, <1>8

LEMMA PositionsNext ==
  ASSUME NEW n \in Nat, NEW a, \A i \in 1 .. n + 1 : a[i] \in Words
  PROVE  /\ Positions(a, n + 1) = Positions(a, n) \cup WordAt(a, n + 1)
         /\ \A p \in Positions(a, n), q \in WordAt(a, n + 1) : p < q
         /\ Positions(a, n) \in SUBSET Nat /\ WordAt(a, n + 1) \in SUBSET Nat
<1>1. 1 .. n + 1 = (1 .. n) \cup {n + 1}
  OBVIOUS
<1>2. \A m : Positions(a, m) = UNION {WordAt(a, i) : i \in 1 .. m}
  BY DEF Positions, WordAt
<1>3. Positions(a, n + 1) = Positions(a, n) \cup WordAt(a, n + 1)
  <2>1. Positions(a, n) = UNION {WordAt(a, i) : i \in 1 .. n}
    BY <1>2
  <2>2. Positions(a, n + 1) = UNION {WordAt(a, i) : i \in (1 .. n) \cup {n + 1}}
    BY <1>1, <1>2
  <2>3. QED
    BY <2>1, <2>2
<1>4. ASSUME NEW p \in Positions(a, n)
      PROVE  p \in Nat /\ p < n * WordBits
  <2>1. PICK i \in 1 .. n : p \in WordAt(a, i)
    BY <1>2
  <2>2. p \in Nat /\ p < i * WordBits
    BY <2>1, WordAtBounds
  <2>3. WordBits \in Nat
    BY EnginesAssumption
  <2>4. i * WordBits <= n * WordBits /\ i * WordBits \in Nat /\ n * WordBits \in Nat
    BY <2>3
  <2>5. QED
    BY <2>2, <2>4
<1>5. ASSUME NEW q \in WordAt(a, n + 1)
      PROVE  q \in Nat /\ n * WordBits <= q
  <2>1. n + 1 \in 1 .. n + 1 /\ (n + 1) - 1 = n
    OBVIOUS
  <2>2. q \in Nat /\ ((n + 1) - 1) * WordBits <= q
    BY <2>1, WordAtBounds
  <2>3. QED
    BY <2>1, <2>2
<1>6. n * WordBits \in Nat
  BY EnginesAssumption
<1>7. \A p \in Positions(a, n), q \in WordAt(a, n + 1) : p < q
  BY <1>4, <1>5, <1>6
<1>8. QED
  BY <1>3, <1>4, <1>5, <1>7

\* A position is in the set if and only if its bit is in its word.
LEMMA PositionIff ==
  ASSUME NEW n \in Nat, NEW a, \A i \in 1 .. n : a[i] \in Words,
         NEW i \in 1 .. n, NEW b \in 0 .. WordBits - 1
  PROVE  (i - 1) * WordBits + b \in Positions(a, n) <=> b \in a[i]
<1> DEFINE p == (i - 1) * WordBits + b
<1>1. Positions(a, n) = UNION {WordAt(a, j) : j \in 1 .. n}
  BY DEF Positions, WordAt
<1>2. b \in a[i] => p \in WordAt(a, i)
  BY DEF WordAt
<1>3. p \div WordBits = i - 1 /\ p % WordBits = b
  BY PositionOf
<1> HIDE DEF p
<1>4. ASSUME NEW j \in 1 .. n, p \in WordAt(a, j)
      PROVE  b \in a[i]
  <2>1. p \div WordBits = j - 1 /\ p % WordBits \in a[j]
    BY <1>4, WordAtBounds
  <2>2. j = i
    BY <1>3, <2>1
  <2>3. QED
    BY <1>3, <2>1, <2>2
<1>5. p \in Positions(a, n) <=> b \in a[i]
  BY <1>1, <1>2, <1>4
<1>6. QED
  BY <1>5 DEF p

LEMMA PositionForm ==
  ASSUME NEW n \in Nat, NEW a, \A i \in 1 .. n : a[i] \in Words, NEW p \in Positions(a, n)
  PROVE  \E i \in 1 .. n, b \in 0 .. WordBits - 1 : p = (i - 1) * WordBits + b
<1>1. PICK i \in 1 .. n : p \in {(i - 1) * WordBits + b : b \in a[i]}
  BY DEF Positions
<1>2. PICK b \in a[i] : p = (i - 1) * WordBits + b
  BY <1>1
<1>3. b \in 0 .. WordBits - 1
  BY BitsBelow
<1>4. QED
  BY <1>2, <1>3

LEMMA WordSize ==
  ASSUME NEW n \in Nat, NEW a, \A i \in 1 .. n : a[i] \in Words, NEW i \in 1 .. n
  PROVE  IsFiniteSet(WordAt(a, i)) /\ Cardinality(WordAt(a, i)) = Cardinality(a[i])
<1> DEFINE f == [b \in a[i] |-> (i - 1) * WordBits + b]
<1>1. IsFiniteSet(a[i])
  BY BitsBelow
<1>2. f \in [a[i] -> WordAt(a, i)]
  BY DEF WordAt
<1>3. ASSUME NEW b \in a[i], NEW c \in a[i], f[b] = f[c]
      PROVE  b = c
  <2>1. i - 1 \in Nat
    OBVIOUS
  <2>2. \A x \in a[i] : x \in 0 .. WordBits - 1
    BY BitsBelow
  <2>3. f[b] % WordBits = b /\ f[c] % WordBits = c
    BY <2>1, <2>2, PositionOf
  <2>4. QED
    BY <1>3, <2>3
<1>4. \A p \in WordAt(a, i) : \E b \in a[i] : f[b] = p
  BY DEF WordAt
<1> HIDE DEF f
<1>5. f \in Bijection(a[i], WordAt(a, i))
  BY <1>2, <1>3, <1>4 DEF Bijection, Injection, Surjection, IsInjective
<1>6. ExistsBijection(a[i], WordAt(a, i))
  BY <1>5 DEF ExistsBijection
<1>7. QED
  BY <1>1, <1>6, FS_Bijection

\* The number of positions is the sum of those of the words.
LEMMA PositionsSize ==
  ASSUME NEW n \in Nat, NEW a, \A i \in 1 .. n : a[i] \in Words, NEW k \in 0 .. n
  PROVE  /\ IsFiniteSet(Positions(a, k))
         /\ k # 0 => Cardinality(Positions(a, k)) = Cardinality(Positions(a, k - 1)) + Cardinality(a[k])
         /\ k = 0 => Positions(a, k) = {}
<1> DEFINE S == {j \in 0 .. n : IsFiniteSet(Positions(a, j))}
<1>1. Positions(a, 0) = {}
  BY DEF Positions
<1>2. 0 \in S
  BY <1>1, FS_EmptySet
<1>3. ASSUME NEW j \in 0 .. n - 1, IsFiniteSet(Positions(a, j))
      PROVE  /\ IsFiniteSet(Positions(a, j + 1))
             /\ Cardinality(Positions(a, j + 1)) = Cardinality(Positions(a, j)) + Cardinality(a[j + 1])
  <2>1. j \in Nat /\ j + 1 \in 1 .. n /\ \A i \in 1 .. j + 1 : a[i] \in Words
    OBVIOUS
  <2>2. /\ Positions(a, j + 1) = Positions(a, j) \cup WordAt(a, j + 1)
        /\ \A p \in Positions(a, j), q \in WordAt(a, j + 1) : p < q
        /\ Positions(a, j) \in SUBSET Nat /\ WordAt(a, j + 1) \in SUBSET Nat
    BY <2>1, PositionsNext
  <2>3. IsFiniteSet(WordAt(a, j + 1)) /\ Cardinality(WordAt(a, j + 1)) = Cardinality(a[j + 1])
    BY <2>1, WordSize
  <2>4. Positions(a, j) \cap WordAt(a, j + 1) = {}
    BY <2>2
  <2>5. /\ IsFiniteSet(Positions(a, j) \cup WordAt(a, j + 1))
        /\ Cardinality(Positions(a, j) \cup WordAt(a, j + 1)) =
             Cardinality(Positions(a, j)) + Cardinality(WordAt(a, j + 1)) - Cardinality({})
    BY <1>3, <2>3, <2>4, FS_Union
  <2>6. Cardinality({}) = 0 /\ Cardinality(Positions(a, j)) \in Nat /\ Cardinality(WordAt(a, j + 1)) \in Nat
    BY <1>3, <2>3, FS_EmptySet, FS_CardinalityType
  <2>7. Cardinality(Positions(a, j) \cup WordAt(a, j + 1)) =
          Cardinality(Positions(a, j)) + Cardinality(WordAt(a, j + 1))
    BY <2>5, <2>6
  <2>8. QED
    BY <2>2, <2>3, <2>5, <2>7
<1>4. \A j \in 0 .. n : IsFiniteSet(Positions(a, j))
  <2>1. \A j \in 0 .. n - 1 : j \in S => j + 1 \in S
    BY <1>3
  <2> HIDE DEF S
  <2>2. 0 .. n \subseteq S
    BY <1>2, <2>1, UpTo
  <2>3. QED
    BY <2>2 DEF S
<1>5. k # 0 => k - 1 \in 0 .. n - 1 /\ (k - 1) + 1 = k /\ k - 1 \in 0 .. n
  OBVIOUS
<1>6. QED
  BY <1>1, <1>3, <1>4, <1>5

LEMMA SliceWords ==
  ASSUME NEW a \in Slices
  PROVE  Len(a) \in Nat /\ DOMAIN a = 1 .. Len(a) /\ \A i \in 1 .. Len(a) : a[i] \in Words
BY LenProperties, ElementOfSeq DEF Slices

LEMMA CommonLength ==
  ASSUME NEW a \in Slices, NEW b \in Slices
  PROVE  /\ Common(a, b) \in Nat
         /\ \A i \in 1 .. Common(a, b) : i \in 1 .. Len(a) /\ i \in 1 .. Len(b)
<1>1. Len(a) \in Nat /\ Len(b) \in Nat
  BY SliceWords
<1>2. QED
  BY <1>1 DEF Common

\* The operations on the words are those on the positions.
LEMMA SliceOperations ==
  ASSUME NEW a \in Slices, NEW b \in Slices
  PROVE  LET n == Common(a, b)
             A == Positions(a, n)
             B == Positions(b, n)
         IN  /\ Positions(bitmap_and(a, b), n) = A \cap B
             /\ Positions(bitmap_or(a, b), n) = A \cup B
             /\ Positions(bitmap_xor(a, b), n) = (A \ B) \cup (B \ A)
<1> DEFINE n == Common(a, b)
           A == Positions(a, n)
           B == Positions(b, n)
           c == bitmap_and(a, b)
           d == bitmap_or(a, b)
           x == bitmap_xor(a, b)
<1>1. n \in Nat /\ \A i \in 1 .. n : a[i] \in Words /\ b[i] \in Words
  BY CommonLength, SliceWords
<1>2. \A i \in 1 .. n : c[i] = a[i] \cap b[i] /\ d[i] = a[i] \cup b[i] /\ x[i] = (a[i] \cup b[i]) \ (a[i] \cap b[i])
  BY DEF bitmap_and, bitmap_or, bitmap_xor
<1>3. \A i \in 1 .. n : c[i] \in Words /\ d[i] \in Words /\ x[i] \in Words
  BY <1>1, <1>2 DEF Words
<1> HIDE DEF n, c, d, x
<1> DEFINE C == Positions(c, n)
           D == Positions(d, n)
           X == Positions(x, n)
<1>4. ASSUME NEW i \in 1 .. n, NEW e \in 0 .. WordBits - 1
      PROVE  LET p == (i - 1) * WordBits + e
             IN  /\ p \in A <=> e \in a[i]
                 /\ p \in B <=> e \in b[i]
                 /\ p \in C <=> e \in c[i]
                 /\ p \in D <=> e \in d[i]
                 /\ p \in X <=> e \in x[i]
  BY <1>1, <1>3, PositionIff
<1>5. \A p \in A \cup B \cup C \cup D \cup X :
        \E i \in 1 .. n, e \in 0 .. WordBits - 1 : p = (i - 1) * WordBits + e
  <2>1. \A p \in A : \E i \in 1 .. n, e \in 0 .. WordBits - 1 : p = (i - 1) * WordBits + e
    BY <1>1, PositionForm
  <2>2. \A p \in B : \E i \in 1 .. n, e \in 0 .. WordBits - 1 : p = (i - 1) * WordBits + e
    BY <1>1, PositionForm
  <2>3. \A p \in C : \E i \in 1 .. n, e \in 0 .. WordBits - 1 : p = (i - 1) * WordBits + e
    BY <1>1, <1>3, PositionForm
  <2>4. \A p \in D : \E i \in 1 .. n, e \in 0 .. WordBits - 1 : p = (i - 1) * WordBits + e
    BY <1>1, <1>3, PositionForm
  <2>5. \A p \in X : \E i \in 1 .. n, e \in 0 .. WordBits - 1 : p = (i - 1) * WordBits + e
    BY <1>1, <1>3, PositionForm
  <2> HIDE DEF A, B, C, D, X
  <2>6. QED
    BY <2>1, <2>2, <2>3, <2>4, <2>5
<1> HIDE DEF A, B, C, D, X
<1>6. ASSUME NEW p \in A \cup B \cup C \cup D \cup X
      PROVE  /\ p \in C <=> p \in A /\ p \in B
             /\ p \in D <=> p \in A \/ p \in B
             /\ p \in X <=> (p \in A /\ p \notin B) \/ (p \in B /\ p \notin A)
  <2>1. PICK i \in 1 .. n, e \in 0 .. WordBits - 1 : p = (i - 1) * WordBits + e
    BY <1>5
  <2>2. /\ p \in A <=> e \in a[i]
        /\ p \in B <=> e \in b[i]
        /\ p \in C <=> e \in c[i]
        /\ p \in D <=> e \in d[i]
        /\ p \in X <=> e \in x[i]
    BY <1>4, <2>1
  <2>3. c[i] = a[i] \cap b[i] /\ d[i] = a[i] \cup b[i] /\ x[i] = (a[i] \cup b[i]) \ (a[i] \cap b[i])
    BY <1>2
  <2>4. QED
    BY <2>2, <2>3
<1>7. C = A \cap B /\ D = A \cup B /\ X = (A \ B) \cup (B \ A)
  BY <1>6
<1>8. QED
  BY <1>7 DEF A, B, C, D, X, c, d, x, n

LEMMA Popcount ==
  ASSUME NEW a \in Slices
  PROVE  popcount(a) = Cardinality(Positions(a, Len(a)))
<1> DEFINE n == Len(a)
           Sums(f) == f = [i \in 0 .. n |-> IF i = 0 THEN 0 ELSE f[i - 1] + Cardinality(a[i])]
           size == [i \in 0 .. n |-> Cardinality(Positions(a, i))]
<1>1. n \in Nat /\ \A i \in 1 .. n : a[i] \in Words
  BY SliceWords
<1> HIDE DEF n
<1>2. \A i \in 0 .. n : size[i] = IF i = 0 THEN 0 ELSE size[i - 1] + Cardinality(a[i])
  <2> SUFFICES ASSUME NEW i \in 0 .. n
               PROVE  size[i] = IF i = 0 THEN 0 ELSE size[i - 1] + Cardinality(a[i])
    OBVIOUS
  <2>1. CASE i = 0
    <3>1. Cardinality(Positions(a, i)) = 0
      BY <1>1, <2>1, PositionsSize, FS_EmptySet
    <3>2. QED
      BY <2>1, <3>1
  <2>2. CASE i # 0
    <3>1. i - 1 \in 0 .. n
      BY <1>1, <2>2
    <3>2. Cardinality(Positions(a, i)) = Cardinality(Positions(a, i - 1)) + Cardinality(a[i])
      BY <1>1, <2>2, PositionsSize
    <3>3. QED
      BY <2>2, <3>1, <3>2
  <2>3. QED
    BY <2>1, <2>2
<1>3. Sums(size)
  BY <1>2
<1> DEFINE sum == CHOOSE f : Sums(f)
<1>4. Sums(sum) /\ popcount(a) = sum[n]
  BY <1>3 DEF popcount, n
<1> HIDE DEF sum
<1> DEFINE S == {i \in 0 .. n : sum[i] = size[i]}
<1>5. 0 \in S
  <2>1. 0 \in 0 .. n
    BY <1>1
  <2>2. sum[0] = 0
    BY <1>4, <2>1
  <2>3. size[0] = 0
    BY <1>2, <2>1
  <2>4. QED
    BY <2>1, <2>2, <2>3
<1>6. \A i \in 0 .. n - 1 : i \in S => i + 1 \in S
  <2> SUFFICES ASSUME NEW i \in 0 .. n - 1, sum[i] = size[i]
               PROVE  sum[i + 1] = size[i + 1]
    BY <1>1
  <2>1. i + 1 \in 0 .. n /\ i + 1 # 0 /\ (i + 1) - 1 = i
    BY <1>1
  <2>2. sum[i + 1] = sum[i] + Cardinality(a[i + 1])
    BY <1>4, <2>1
  <2>3. size[i + 1] = size[i] + Cardinality(a[i + 1])
    BY <1>2, <2>1
  <2>4. QED
    BY <2>2, <2>3
<1>7. sum[n] = size[n]
  <2> HIDE DEF S
  <2>1. 0 .. n \subseteq S
    BY <1>1, <1>5, <1>6, UpTo
  <2>2. n \in S
    BY <1>1, <2>1
  <2>3. QED
    BY <2>2 DEF S
<1>8. n \in 0 .. n
  BY <1>1
<1>9. QED
  BY <1>4, <1>7, <1>8 DEF n

LEMMA SliceSizes ==
  ASSUME NEW a \in Slices, NEW b \in Slices
  PROVE  LET n == Common(a, b)
         IN  /\ intersection_size(a, b) = Cardinality(Positions(a, n) \cap Positions(b, n))
             /\ union_size(a, b) = Cardinality(Positions(a, n) \cup Positions(b, n))
<1> DEFINE n == Common(a, b)
<1>1. n \in Nat /\ \A i \in 1 .. n : a[i] \in Words /\ b[i] \in Words
  BY CommonLength, SliceWords
<1>2. ASSUME NEW c \in [1 .. n -> Words]
      PROVE  c \in Slices /\ Len(c) = n
  <2>1. c \in Seq(Words)
    BY <1>1, SeqDef
  <2>2. QED
    BY <1>1, <2>1, LenProperties DEF Slices
<1>3. bitmap_and(a, b) \in [1 .. n -> Words] /\ bitmap_or(a, b) \in [1 .. n -> Words]
  BY <1>1 DEF bitmap_and, bitmap_or, Words
<1>4. /\ intersection_size(a, b) = Cardinality(Positions(bitmap_and(a, b), n))
      /\ union_size(a, b) = Cardinality(Positions(bitmap_or(a, b), n))
  BY <1>2, <1>3, Popcount DEF intersection_size, union_size
<1>5. QED
  BY <1>4, SliceOperations

\* f[k] is what find_all_set() has listed after k words.
Founds(f, a) == f = [i \in 0 .. Len(a) |-> IF i = 0 THEN <<>> ELSE f[i - 1] \o BitsOfWord(a, i)]

\* The bits of a word are listed at their positions.
LEMMA WordListed ==
  ASSUME NEW n \in Nat, NEW a, \A i \in 1 .. n : a[i] \in Words, NEW i \in 1 .. n
  PROVE  BitsOfWord(a, i) \in Seq(WordAt(a, i)) /\ Ascends(BitsOfWord(a, i), WordAt(a, i))
<1> DEFINE s == Ascending(a[i])
           t == BitsOfWord(a, i)
           at == (i - 1) * WordBits
           m == Len(s)
<1>1. s \in Seq(a[i]) /\ Ascends(s, a[i])
  BY BitsBelow, AscendingAscends
<1>2. m \in Nat /\ DOMAIN s = 1 .. m /\ \A k \in 1 .. m : s[k] \in a[i]
  BY <1>1, LenProperties, ElementOfSeq
<1>3. t = [k \in 1 .. m |-> at + s[k]]
  BY <1>2 DEF BitsOfWord
<1>4. WordAt(a, i) = {at + b : b \in a[i]}
  BY DEF WordAt
<1>5. \A b \in a[i] : b \in Nat
  BY BitsBelow
<1>6. at \in Nat
  BY EnginesAssumption
<1>7. {s[k] : k \in 1 .. m} = a[i] /\ \A j, k \in 1 .. m : j < k => s[j] < s[k]
  BY <1>1, <1>2 DEF Ascends, ToSet
<1> HIDE DEF s, t, at, m
<1>8. t \in [1 .. m -> WordAt(a, i)]
  BY <1>2, <1>3, <1>4
<1>9. DOMAIN t = 1 .. m
  BY <1>3
<1>10. {t[k] : k \in 1 .. m} = WordAt(a, i)
  <2>1. ASSUME NEW p \in WordAt(a, i)
        PROVE  \E k \in 1 .. m : t[k] = p
    <3>1. PICK b \in a[i] : p = at + b
      BY <1>4
    <3>2. PICK k \in 1 .. m : s[k] = b
      BY <1>7
    <3>3. QED
      BY <1>3, <3>1, <3>2
  <2>2. QED
    BY <1>8, <2>1
<1>11. ASSUME NEW j \in 1 .. m, NEW k \in 1 .. m, j < k
       PROVE  t[j] < t[k]
  <2>1. s[j] < s[k] /\ s[j] \in Nat /\ s[k] \in Nat
    BY <1>2, <1>5, <1>7, <1>11
  <2>2. t[j] = at + s[j] /\ t[k] = at + s[k]
    BY <1>3
  <2>3. QED
    BY <1>6, <2>1, <2>2
<1>12. Ascends(t, WordAt(a, i))
  BY <1>9, <1>10, <1>11 DEF Ascends, ToSet
<1>13. t \in Seq(WordAt(a, i))
  BY <1>2, <1>8, SeqDef
<1>14. QED
  BY <1>12, <1>13 DEF t

LEMMA FoundSteps ==
  ASSUME NEW a \in Slices
  PROVE  \E f : Founds(f, a) /\ find_all_set(a) = f[Len(a)]
<1> DEFINE n == Len(a)
           D == Seq(Nat)
           next == [k \in 1 .. n |-> [x \in D |-> x \o BitsOfWord(a, k)]]
<1>1. n \in Nat /\ \A i \in 1 .. n : a[i] \in Words
  BY SliceWords
<1> HIDE DEF n
<1>2. \A k \in 1 .. n : BitsOfWord(a, k) \in D
  <2> SUFFICES ASSUME NEW k \in 1 .. n
               PROVE  BitsOfWord(a, k) \in Seq(Nat)
    OBVIOUS
  <2>1. BitsOfWord(a, k) \in Seq(WordAt(a, k))
    BY <1>1, WordListed
  <2>2. WordAt(a, k) \subseteq Nat
    BY <1>1, WordAtBounds
  <2>3. QED
    BY <2>1, <2>2, SeqDef
<1>3. StaysIn(D, n, next)
  <2> SUFFICES ASSUME NEW k \in 1 .. n, NEW x \in D
               PROVE  next[k][x] \in D
    BY DEF StaysIn
  <2>1. x \o BitsOfWord(a, k) \in D
    BY <1>2, ConcatProperties
  <2>2. QED
    BY <2>1
<1>4. <<>> \in D
  OBVIOUS
<1> HIDE DEF D
<1>5. PICK f : Made(f, n, D, <<>>, next)
  <2> HIDE DEF next
  <2>1. QED
    BY <1>1, <1>3, <1>4, Recursion
<1>6. ASSUME NEW i \in 0 .. n
      PROVE  f[i] = IF i = 0 THEN <<>> ELSE f[i - 1] \o BitsOfWord(a, i)
  <2>1. CASE i = 0
    BY <1>5, <2>1 DEF Made
  <2>2. CASE i # 0
    <3>1. i \in 1 .. n /\ i - 1 \in 0 .. n
      BY <1>1, <2>2
    <3>2. f[i] = next[i][f[i - 1]] /\ f[i - 1] \in D
      BY <1>5, <3>1 DEF Made
    <3>3. QED
      BY <2>2, <3>1, <3>2
  <2>3. QED
    BY <2>1, <2>2
<1>7. f \in [0 .. n -> D]
  BY <1>5 DEF Made
<1>8. Founds(f, a)
  BY <1>6, <1>7 DEF Founds, n
<1> DEFINE listed == CHOOSE g : Founds(g, a)
<1>9. Founds(listed, a) /\ find_all_set(a) = listed[n]
  BY <1>8 DEF find_all_set, Founds, n
<1>10. QED
  BY <1>9 DEF n

LEMMA FindAll ==
  ASSUME NEW a \in Slices
  PROVE  LET range == Positions(a, Len(a))
         IN  find_all_set(a) \in Seq(range) /\ Ascends(find_all_set(a), range)
<1> DEFINE n == Len(a)
<1>1. n \in Nat /\ \A i \in 1 .. n : a[i] \in Words
  BY SliceWords
<1>2. PICK f : Founds(f, a) /\ find_all_set(a) = f[n]
  BY FoundSteps
<1>3. \A i \in 0 .. n : f[i] = IF i = 0 THEN <<>> ELSE f[i - 1] \o BitsOfWord(a, i)
  BY <1>2 DEF Founds
<1> HIDE DEF n
<1> DEFINE S == {i \in 0 .. n : f[i] \in Seq(Positions(a, i)) /\ Ascends(f[i], Positions(a, i))}
<1>4. 0 \in S
  <2>1. 0 \in 0 .. n /\ f[0] = <<>>
    BY <1>1, <1>3
  <2>2. Positions(a, 0) = {}
    BY DEF Positions
  <2>3. Ascends(<<>>, {})
    BY DEF Ascends, ToSet
  <2>4. <<>> \in Seq({})
    BY SeqDef
  <2>5. f[0] \in Seq(Positions(a, 0)) /\ Ascends(f[0], Positions(a, 0))
    BY <2>1, <2>2, <2>3, <2>4
  <2>6. QED
    BY <2>1, <2>5
<1>5. ASSUME NEW i \in 0 .. n - 1, i \in S
      PROVE  i + 1 \in S
  <2>1. i + 1 \in 0 .. n /\ i + 1 # 0 /\ (i + 1) - 1 = i /\ i + 1 \in 1 .. n /\ i \in Nat
    BY <1>1
  <2>2. f[i + 1] = f[i] \o BitsOfWord(a, i + 1)
    BY <1>3, <2>1
  <2>3. \A j \in 1 .. i + 1 : a[j] \in Words
    BY <1>1, <2>1
  <2>4. /\ Positions(a, i + 1) = Positions(a, i) \cup WordAt(a, i + 1)
        /\ \A p \in Positions(a, i), q \in WordAt(a, i + 1) : p < q
        /\ Positions(a, i) \in SUBSET Nat /\ WordAt(a, i + 1) \in SUBSET Nat
    BY <2>1, <2>3, PositionsNext
  <2>5. BitsOfWord(a, i + 1) \in Seq(WordAt(a, i + 1)) /\ Ascends(BitsOfWord(a, i + 1), WordAt(a, i + 1))
    BY <1>1, <2>1, WordListed
  <2>6. f[i] \in Seq(Positions(a, i)) /\ Ascends(f[i], Positions(a, i))
    BY <1>5
  <2>7. f[i + 1] \in Seq(Positions(a, i + 1)) /\ Ascends(f[i + 1], Positions(a, i + 1))
    BY <2>2, <2>4, <2>5, <2>6, AscendsJoin
  <2>8. QED
    BY <2>1, <2>7
<1>6. n \in S
  <2> HIDE DEF S
  <2>1. 0 .. n \subseteq S
    BY <1>1, <1>4, <1>5, UpTo
  <2>2. QED
    BY <1>1, <2>1
<1>7. QED
  BY <1>2, <1>6 DEF n

LEMMA FindFirst ==
  ASSUME NEW a \in Slices
  PROVE  LET range == Positions(a, Len(a))
         IN  find_first_set(a) = IF range = {} THEN -1 ELSE Min(range)
<1> DEFINE n == Len(a)
           range == Positions(a, n)
           nonzero == {i \in DOMAIN a : a[i] # {}}
<1>1. n \in Nat /\ DOMAIN a = 1 .. n /\ \A i \in 1 .. n : a[i] \in Words
  BY SliceWords
<1>2. \A p : p \in range <=> \E i \in 1 .. n : p \in WordAt(a, i)
  BY DEF Positions, WordAt
<1> HIDE DEF n, range
<1>3. CASE nonzero = {}
  <2>1. \A i \in 1 .. n : a[i] = {}
    BY <1>1, <1>3
  <2>2. range = {}
    BY <1>2, <2>1 DEF WordAt
  <2>3. find_first_set(a) = -1
    BY <1>3 DEF find_first_set
  <2>4. QED
    BY <2>2, <2>3 DEF range, n
<1>4. CASE nonzero # {}
  <2> DEFINE i == Min(nonzero)
             b == Min(a[i])
             p == (i - 1) * WordBits + b
  <2>1. i \in 1 .. n /\ a[i] # {} /\ \A j \in 1 .. n : a[j] # {} => i <= j
    <3>1. nonzero \in SUBSET Nat
      BY <1>1
    <3>2. i \in nonzero /\ \A j \in nonzero : i <= j
      <4> HIDE DEF nonzero
      <4>1. QED
        BY <1>4, <3>1, MinOf
    <3>3. QED
      BY <1>1, <3>2
  <2>2. find_first_set(a) = p
    BY <1>4 DEF find_first_set
  <2> HIDE DEF i
  <2>3. a[i] \in SUBSET Nat /\ \A c \in a[i] : c \in 0 .. WordBits - 1
    BY <1>1, <2>1, BitsBelow
  <2>4. b \in a[i] /\ \A c \in a[i] : b <= c
    BY <2>1, <2>3, MinOf
  <2>5. p \in WordAt(a, i)
    BY <2>4 DEF WordAt
  <2>6. p \in range
    BY <1>2, <2>1, <2>5
  <2> HIDE DEF b, p
  <2>7. p \in Nat /\ p < i * WordBits
    BY <1>1, <2>1, <2>5, WordAtBounds
  <2>8. ASSUME NEW q \in range
        PROVE  p <= q /\ q \in Nat
    <3>1. PICK j \in 1 .. n : q \in WordAt(a, j)
      BY <1>2
    <3>2. q \in Nat /\ (j - 1) * WordBits <= q
      BY <1>1, <3>1, WordAtBounds
    <3>3. a[j] # {}
      BY <3>1 DEF WordAt
    <3>4. i <= j
      BY <2>1, <3>3
    <3>5. CASE j = i
      <4>1. PICK c \in a[i] : q = (i - 1) * WordBits + c
        BY <3>1, <3>5 DEF WordAt
      <4>2. b <= c /\ b \in Nat /\ c \in Nat
        BY <2>3, <2>4
      <4>3. (i - 1) * WordBits \in Nat
        BY <2>1, EnginesAssumption
      <4>4. QED
        BY <3>2, <4>1, <4>2, <4>3 DEF p
    <3>6. CASE j # i
      <4>1. WordBits \in Nat
        BY EnginesAssumption
      <4>2. i <= j - 1
        BY <2>1, <3>4, <3>6
      <4>3. i * WordBits <= (j - 1) * WordBits /\ i * WordBits \in Nat /\ (j - 1) * WordBits \in Nat
        BY <2>1, <4>1, <4>2
      <4>4. QED
        BY <2>7, <3>2, <4>3
    <3>7. QED
      BY <3>5, <3>6
  <2>9. range \in SUBSET Nat /\ range # {}
    BY <2>6, <2>8
  <2>10. Min(range) \in range /\ \A q \in range : Min(range) <= q
    BY <2>9, MinOf
  <2>11. Min(range) = p
    <3>1. Min(range) <= p /\ p <= Min(range) /\ Min(range) \in Nat
      BY <2>6, <2>8, <2>10
    <3>2. QED
      BY <2>7, <3>1
  <2>12. QED
    BY <2>2, <2>9, <2>11 DEF range, n
<1>5. QED
  BY <1>3, <1>4

\* A part of an ascending list.
LEMMA AscendsPart ==
  ASSUME NEW S \in SUBSET Nat, NEW s \in Seq(S), Ascends(s, S),
         NEW i \in 1 .. Len(s) + 1, NEW k \in i - 1 .. Len(s)
  PROVE  LET R == {s[x] : x \in i .. k}
         IN  SubSeq(s, i, k) \in Seq(R) /\ Len(SubSeq(s, i, k)) = k - i + 1 /\ Ascends(SubSeq(s, i, k), R)
<1> DEFINE R == {s[x] : x \in i .. k}
           r == SubSeq(s, i, k)
           n == k - i + 1
<1>1. Len(s) \in Nat /\ DOMAIN s = 1 .. Len(s)
  BY LenProperties
<1>2. \A x, y \in 1 .. Len(s) : x < y => s[x] < s[y]
  BY <1>1 DEF Ascends
<1>3. i \in Int /\ k \in Int /\ n \in Nat /\ \A x \in i .. k : s[x] \in R
  BY <1>1
<1>4. r \in Seq(R) /\ Len(r) = n /\ \A x \in 1 .. n : r[x] = s[i + x - 1]
  <2>1. /\ r \in Seq(R)
        /\ Len(r) = IF i <= k THEN k - i + 1 ELSE 0
        /\ \A x \in 1 .. k - i + 1 : r[x] = s[i + x - 1]
    <3> HIDE DEF R
    <3>1. QED
      BY <1>3, SubSeqProperties
  <2>2. QED
    BY <1>1, <2>1
<1>5. DOMAIN r = 1 .. n
  BY <1>3, <1>4, LenProperties
<1> HIDE DEF r
<1>6. \A x \in 1 .. n : i + x - 1 \in i .. k /\ i + x - 1 \in 1 .. Len(s)
  BY <1>1
<1>7. \A x, y \in 1 .. n : x < y => r[x] < r[y]
  <2> SUFFICES ASSUME NEW x \in 1 .. n, NEW y \in 1 .. n, x < y
               PROVE  r[x] < r[y]
    OBVIOUS
  <2>1. i + x - 1 < i + y - 1
    BY <1>1
  <2>2. QED
    BY <1>2, <1>4, <1>6, <2>1
<1>8. {r[x] : x \in 1 .. n} = R
  <2>1. \A x \in 1 .. n : r[x] \in R
    BY <1>4, <1>6
  <2>2. ASSUME NEW x \in i .. k
        PROVE  \E y \in 1 .. n : r[y] = s[x]
    <3>1. x - i + 1 \in 1 .. n /\ i + (x - i + 1) - 1 = x
      BY <1>1
    <3>2. QED
      BY <1>4, <3>1
  <2>3. QED
    BY <2>1, <2>2
<1>9. Ascends(r, R)
  BY <1>5, <1>7, <1>8 DEF Ascends, ToSet
<1>10. QED
  BY <1>4, <1>9 DEF r

\* Two ascending lists, and what a merge that stands at i and j has gone over.
Sorted(s, t) ==
    /\ ToSet(s) \in SUBSET Nat /\ s \in Seq(ToSet(s)) /\ Ascends(s, ToSet(s))
    /\ ToSet(t) \in SUBSET Nat /\ t \in Seq(ToSet(t)) /\ Ascends(t, ToSet(t))
Over(s, t, i, j) == {s[x] : x \in 1 .. i - 1} \cup {t[y] : y \in 1 .. j - 1}

\* What has been merged so far is in order and below what is left.
MergedSoFar(m, s, t) ==
    /\ m.i \in 1 .. Len(s) + 1 /\ m.j \in 1 .. Len(t) + 1
    /\ m.result \in Seq(Over(s, t, m.i, m.j)) /\ Ascends(m.result, Over(s, t, m.i, m.j))
    /\ \A v \in Over(s, t, m.i, m.j) :
          /\ \A x \in m.i .. Len(s) : v < s[x]
          /\ \A y \in m.j .. Len(t) : v < t[y]

LEMMA SortedFacts ==
  ASSUME NEW s, NEW t, Sorted(s, t)
  PROVE  /\ Len(s) \in Nat /\ \A x \in 1 .. Len(s) : s[x] \in Nat
         /\ \A x, y \in 1 .. Len(s) : x < y => s[x] < s[y]
         /\ Len(t) \in Nat /\ \A x \in 1 .. Len(t) : t[x] \in Nat
         /\ \A x, y \in 1 .. Len(t) : x < y => t[x] < t[y]
<1>1. ASSUME NEW r, ToSet(r) \in SUBSET Nat, r \in Seq(ToSet(r)), Ascends(r, ToSet(r))
      PROVE  /\ Len(r) \in Nat /\ \A x \in 1 .. Len(r) : r[x] \in Nat
             /\ \A x, y \in 1 .. Len(r) : x < y => r[x] < r[y]
  <2>1. Len(r) \in Nat /\ DOMAIN r = 1 .. Len(r) /\ \A x \in 1 .. Len(r) : r[x] \in ToSet(r)
    BY <1>1, LenProperties, ElementOfSeq
  <2>2. QED
    BY <1>1, <2>1 DEF Ascends
<1>2. QED
  BY <1>1 DEF Sorted

\* The next value is merged: one list moves on, or both do.
LEMMA MergedNext ==
  ASSUME NEW s, NEW t, Sorted(s, t), NEW m, MergedSoFar(m, s, t), NEW v \in Nat,
         NEW i \in 1 .. Len(s) + 1, NEW j \in 1 .. Len(t) + 1,
         Over(s, t, i, j) = Over(s, t, m.i, m.j) \cup {v}, m.i <= i, m.j <= j,
         \A p \in Over(s, t, m.i, m.j) : p < v,
         \A x \in i .. Len(s) : v < s[x], \A y \in j .. Len(t) : v < t[y]
  PROVE  MergedSoFar([i |-> i, j |-> j, result |-> Append(m.result, v)], s, t)
<1> DEFINE O == Over(s, t, m.i, m.j)
           P == Over(s, t, i, j)
           r == Append(m.result, v)
           next == [i |-> i, j |-> j, result |-> r]
<1>1. Len(s) \in Nat /\ Len(t) \in Nat /\ m.i \in 1 .. Len(s) + 1 /\ m.j \in 1 .. Len(t) + 1
  BY SortedFacts DEF MergedSoFar
<1>2. O \in SUBSET Nat
  <2>1. \A x \in 1 .. m.i - 1 : s[x] \in Nat
    BY <1>1, SortedFacts
  <2>2. \A y \in 1 .. m.j - 1 : t[y] \in Nat
    BY <1>1, SortedFacts
  <2>3. QED
    BY <2>1, <2>2 DEF Over
<1>3. m.result \in Seq(O) /\ Ascends(m.result, O)
  BY DEF MergedSoFar
<1>4. \A p \in O : p < v
  OBVIOUS
<1>5. P = O \cup {v}
  OBVIOUS
<1>6. \A p \in O : (\A x \in m.i .. Len(s) : p < s[x]) /\ (\A y \in m.j .. Len(t) : p < t[y])
  BY DEF MergedSoFar
<1> HIDE DEF O, P, r
<1>7. r \in Seq(P) /\ Ascends(r, P)
  BY <1>2, <1>3, <1>4, <1>5, AscendsAppend DEF r
<1>8. \A x \in i .. Len(s) : x \in m.i .. Len(s)
  BY <1>1
<1>9. \A y \in j .. Len(t) : y \in m.j .. Len(t)
  BY <1>1
<1>10. \A p \in P : (\A x \in i .. Len(s) : p < s[x]) /\ (\A y \in j .. Len(t) : p < t[y])
  BY <1>5, <1>6, <1>8, <1>9
<1>11. next.i = i /\ next.j = j /\ next.result = r
  OBVIOUS
<1> HIDE DEF next
<1>12. MergedSoFar(next, s, t)
  BY <1>7, <1>10, <1>11 DEF MergedSoFar, P
<1>13. QED
  BY <1>12 DEF next, r

LEMMA MergeStepKeeps ==
  ASSUME NEW s, NEW t, Sorted(s, t), NEW m, MergedSoFar(m, s, t)
  PROVE  LET next == MergeStep(s, t, m)
         IN  /\ MergedSoFar(next, s, t)
             /\ m.i > Len(s) \/ m.j > Len(t) => next = m
             /\ m.i <= Len(s) /\ m.j <= Len(t) => next.i + next.j > m.i + m.j
<1> DEFINE next == MergeStep(s, t, m)
           i == m.i
           j == m.j
           p == Len(s)
           q == Len(t)
<1>1. /\ p \in Nat /\ \A x \in 1 .. p : s[x] \in Nat
      /\ \A x, y \in 1 .. p : x < y => s[x] < s[y]
      /\ q \in Nat /\ \A x \in 1 .. q : t[x] \in Nat
      /\ \A x, y \in 1 .. q : x < y => t[x] < t[y]
  BY SortedFacts
<1>2. i \in 1 .. p + 1 /\ j \in 1 .. q + 1
  BY DEF MergedSoFar
<1>3. \A v \in Over(s, t, i, j) : (\A x \in i .. p : v < s[x]) /\ (\A y \in j .. q : v < t[y])
  BY DEF MergedSoFar
<1> HIDE DEF p, q, i, j
<1>4. CASE i > p \/ j > q
  <2>1. next = m
    BY <1>4 DEF MergeStep, i, j, p, q
  <2>2. ~(i <= p /\ j <= q)
    BY <1>1, <1>2, <1>4
  <2>3. QED
    BY <2>1, <2>2 DEF i, j, p, q
<1>5. CASE ~(i > p \/ j > q)
  <2>1. i \in 1 .. p /\ j \in 1 .. q /\ i + 1 \in 1 .. p + 1 /\ j + 1 \in 1 .. q + 1
    BY <1>1, <1>2, <1>5
  <2>2. s[i] \in Nat /\ t[j] \in Nat
    BY <1>1, <2>1
  <2>3. \A x \in i + 1 .. p : x \in 1 .. p /\ x \in i .. p /\ s[i] < s[x] /\ s[x] \in Nat
    BY <1>1, <2>1
  <2>4. \A y \in j + 1 .. q : y \in 1 .. q /\ y \in j .. q /\ t[j] < t[y] /\ t[y] \in Nat
    BY <1>1, <2>1
  <2>5. i \in i .. p /\ j \in j .. q /\ (i + 1) - 1 = i /\ (j + 1) - 1 = j
    BY <2>1
  <2>6. \A y \in j .. q : y = j \/ y \in j + 1 .. q
    BY <2>1
  <2>7. \A x \in i .. p : x = i \/ x \in i + 1 .. p
    BY <2>1
  <2>8. 1 .. i = (1 .. i - 1) \cup {i} /\ 1 .. j = (1 .. j - 1) \cup {j}
    BY <2>1
  <2>9. /\ Over(s, t, i + 1, j) = Over(s, t, i, j) \cup {s[i]}
        /\ Over(s, t, i, j + 1) = Over(s, t, i, j) \cup {t[j]}
        /\ Over(s, t, i + 1, j + 1) = Over(s, t, i, j) \cup {s[i]} \cup {t[j]}
    <3>1. {s[x] : x \in 1 .. i} = {s[x] : x \in 1 .. i - 1} \cup {s[i]}
      BY <2>8
    <3>2. {t[y] : y \in 1 .. j} = {t[y] : y \in 1 .. j - 1} \cup {t[j]}
      BY <2>8
    <3>3. Over(s, t, i + 1, j) = {s[x] : x \in 1 .. i} \cup {t[y] : y \in 1 .. j - 1}
      BY <2>5 DEF Over
    <3>4. Over(s, t, i, j + 1) = {s[x] : x \in 1 .. i - 1} \cup {t[y] : y \in 1 .. j}
      BY <2>5 DEF Over
    <3>5. Over(s, t, i + 1, j + 1) = {s[x] : x \in 1 .. i} \cup {t[y] : y \in 1 .. j}
      BY <2>5 DEF Over
    <3>6. QED
      BY <3>1, <3>2, <3>3, <3>4, <3>5 DEF Over
  <2>10. \A v \in Over(s, t, i, j) : v < s[i] /\ v < t[j]
    BY <1>3, <2>5
  <2>11. i <= i /\ j <= j /\ i <= i + 1 /\ j <= j + 1
    BY <2>1
  <2>12. CASE s[i] < t[j]
    <3>1. next = [i |-> i + 1, j |-> j, result |-> Append(m.result, s[i])]
      BY <1>5, <2>12 DEF MergeStep, i, j, p, q
    <3>2. \A y \in j .. q : s[i] < t[y]
      BY <2>2, <2>4, <2>6, <2>12
    <3>3. MergedSoFar([i |-> i + 1, j |-> j, result |-> Append(m.result, s[i])], s, t)
      BY <1>2, <2>1, <2>2, <2>3, <2>9, <2>10, <2>11, <3>2, MergedNext DEF i, j, p, q
    <3>4. i + 1 + j > i + j /\ next.i = i + 1 /\ next.j = j
      BY <2>1, <3>1
    <3> HIDE DEF next
    <3>5. QED
      BY <1>5, <3>1, <3>3, <3>4 DEF i, j, p, q, next
  <2>13. CASE s[i] > t[j]
    <3>1. next = [i |-> i, j |-> j + 1, result |-> Append(m.result, t[j])]
      BY <1>5, <2>2, <2>13 DEF MergeStep, i, j, p, q
    <3>2. \A x \in i .. p : t[j] < s[x]
      BY <2>2, <2>3, <2>7, <2>13
    <3>3. MergedSoFar([i |-> i, j |-> j + 1, result |-> Append(m.result, t[j])], s, t)
      BY <1>2, <2>1, <2>2, <2>4, <2>9, <2>10, <2>11, <3>2, MergedNext DEF i, j, p, q
    <3>4. i + (j + 1) > i + j /\ next.i = i /\ next.j = j + 1
      BY <2>1, <3>1
    <3> HIDE DEF next
    <3>5. QED
      BY <1>5, <3>1, <3>3, <3>4 DEF i, j, p, q, next
  <2>14. CASE s[i] = t[j]
    <3>1. next = [i |-> i + 1, j |-> j + 1, result |-> Append(m.result, s[i])]
      BY <1>5, <2>2, <2>14 DEF MergeStep, i, j, p, q
    <3>2. Over(s, t, i + 1, j + 1) = Over(s, t, i, j) \cup {s[i]}
      BY <2>9, <2>14
    <3>3. \A y \in j + 1 .. q : s[i] < t[y]
      BY <2>4, <2>14
    <3>4. MergedSoFar([i |-> i + 1, j |-> j + 1, result |-> Append(m.result, s[i])], s, t)
      BY <2>1, <2>2, <2>3, <2>10, <2>11, <3>2, <3>3, MergedNext DEF i, j, p, q
    <3>5. i + 1 + (j + 1) > i + j /\ next.i = i + 1 /\ next.j = j + 1
      BY <2>1, <3>1
    <3> HIDE DEF next
    <3>6. QED
      BY <1>5, <3>1, <3>4, <3>5 DEF i, j, p, q, next
  <2>15. QED
    BY <2>2, <2>12, <2>13, <2>14
<1>6. QED
  BY <1>4, <1>5

\* f[k] is where the merge stands after k turns.
Merges(f, s, t) ==
    f = [k \in 0 .. Len(s) + Len(t) |->
            IF k = 0 THEN [i |-> 1, j |-> 1, result |-> <<>>] ELSE MergeStep(s, t, f[k - 1])]

LEMMA MergeSteps ==
  ASSUME NEW s, NEW t, Sorted(s, t)
  PROVE  \E f : /\ Merges(f, s, t)
                /\ merge_sorted(s, t) = LET m == f[Len(s) + Len(t)]
                                        IN  m.result \o SubSeq(s, m.i, Len(s)) \o SubSeq(t, m.j, Len(t))
                /\ \A k \in 0 .. Len(s) + Len(t) : MergedSoFar(f[k], s, t)
<1> DEFINE n == Len(s) + Len(t)
           V == [i : Nat, j : Nat, result : Seq(Nat)]
           D == {m \in V : MergedSoFar(m, s, t)}
           d == [i |-> 1, j |-> 1, result |-> <<>>]
           next == [k \in 1 .. n |-> [m \in D |-> MergeStep(s, t, m)]]
<1>1. /\ Len(s) \in Nat /\ \A x \in 1 .. Len(s) : s[x] \in Nat
      /\ Len(t) \in Nat /\ \A x \in 1 .. Len(t) : t[x] \in Nat
  BY SortedFacts
<1>2. n \in Nat
  BY <1>1
<1>3. StaysIn(D, n, next)
  <2> SUFFICES ASSUME NEW k \in 1 .. n, NEW m \in V, MergedSoFar(m, s, t)
               PROVE  MergeStep(s, t, m) \in D
    BY DEF StaysIn
  <2>1. MergedSoFar(MergeStep(s, t, m), s, t)
    BY MergeStepKeeps
  <2>2. m.i \in 1 .. Len(s) + 1 /\ m.j \in 1 .. Len(t) + 1
    BY DEF MergedSoFar
  <2>3. MergeStep(s, t, m) \in V
    <3>1. CASE m.i > Len(s) \/ m.j > Len(t)
      BY <3>1 DEF MergeStep
    <3>2. CASE ~(m.i > Len(s) \/ m.j > Len(t))
      <4>1. s[m.i] \in Nat /\ t[m.j] \in Nat
        BY <1>1, <2>2, <3>2
      <4>2. m.result \in Seq(Nat)
        OBVIOUS
      <4>3. Append(m.result, s[m.i]) \in Seq(Nat) /\ Append(m.result, t[m.j]) \in Seq(Nat)
        BY <4>1, <4>2, AppendProperties
      <4>4. m.i + 1 \in Nat /\ m.j + 1 \in Nat
        OBVIOUS
      <4>5. QED
        BY <3>2, <4>3, <4>4 DEF MergeStep
    <3>3. QED
      BY <3>1, <3>2
  <2>4. QED
    BY <2>1, <2>3
<1>4. d \in D
  <2>1. Over(s, t, 1, 1) = {}
    BY DEF Over
  <2>2. <<>> \in Seq({}) /\ Ascends(<<>>, {})
    BY SeqDef DEF Ascends, ToSet
  <2>3. 1 \in 1 .. Len(s) + 1 /\ 1 \in 1 .. Len(t) + 1
    BY <1>1
  <2>4. d.i = 1 /\ d.j = 1 /\ d.result = <<>> /\ d \in V
    BY SeqDef
  <2> HIDE DEF d
  <2>5. MergedSoFar(d, s, t)
    BY <2>1, <2>2, <2>3, <2>4 DEF MergedSoFar
  <2>6. QED
    BY <2>4, <2>5
<1> HIDE DEF n, D, d
<1>5. PICK f : Made(f, n, D, d, next)
  <2> HIDE DEF next
  <2>1. QED
    BY <1>2, <1>3, <1>4, Recursion
<1>6. ASSUME NEW k \in 0 .. n
      PROVE  f[k] = IF k = 0 THEN d ELSE MergeStep(s, t, f[k - 1])
  <2>1. CASE k = 0
    BY <1>5, <2>1 DEF Made
  <2>2. CASE k # 0
    <3>1. k \in 1 .. n /\ k - 1 \in 0 .. n
      BY <1>2, <2>2
    <3>2. f[k] = next[k][f[k - 1]] /\ f[k - 1] \in D
      BY <1>5, <3>1 DEF Made
    <3>3. QED
      BY <2>2, <3>1, <3>2
  <2>3. QED
    BY <2>1, <2>2
<1>7. f \in [0 .. n -> D]
  BY <1>5 DEF Made
<1> HIDE DEF next
<1>8. Merges(f, s, t)
  <2>1. f = [k \in 0 .. n |-> IF k = 0 THEN d ELSE MergeStep(s, t, f[k - 1])]
    BY <1>6, <1>7
  <2>2. QED
    BY <2>1 DEF Merges, n, d
<1> DEFINE at == CHOOSE g : Merges(g, s, t)
<1>9. /\ Merges(at, s, t)
      /\ merge_sorted(s, t) = LET m == at[n] IN m.result \o SubSeq(s, m.i, Len(s)) \o SubSeq(t, m.j, Len(t))
  BY <1>8 DEF merge_sorted, Merges, n
<1> HIDE DEF at
<1> DEFINE S == {k \in 0 .. n : MergedSoFar(at[k], s, t)}
<1>10. \A k \in 0 .. n : at[k] = IF k = 0 THEN d ELSE MergeStep(s, t, at[k - 1])
  BY <1>9 DEF Merges, n, d
<1>11. 0 \in S
  <2>1. 0 \in 0 .. n /\ at[0] = d
    BY <1>2, <1>10
  <2>2. MergedSoFar(at[0], s, t)
    BY <1>4, <2>1 DEF D
  <2>3. QED
    BY <2>1, <2>2
<1>12. ASSUME NEW k \in 0 .. n - 1, k \in S
       PROVE  k + 1 \in S
  <2>1. k + 1 \in 0 .. n /\ k + 1 # 0 /\ (k + 1) - 1 = k
    BY <1>2
  <2>2. at[k + 1] = MergeStep(s, t, at[k])
    BY <1>10, <2>1
  <2>3. MergedSoFar(at[k + 1], s, t)
    BY <1>12, <2>2, MergeStepKeeps
  <2>4. QED
    BY <2>1, <2>3
<1>13. \A k \in 0 .. n : MergedSoFar(at[k], s, t)
  <2> HIDE DEF S
  <2>1. 0 .. n \subseteq S
    BY <1>2, <1>11, <1>12, UpTo
  <2>2. QED
    BY <2>1 DEF S
<1>14. QED
  BY <1>9, <1>13 DEF n

\* Merging two ascending lists lists their union, in order and without repetition.
LEMMA Merged ==
  ASSUME NEW s, NEW t, Sorted(s, t)
  PROVE  LET U == ToSet(s) \cup ToSet(t)
         IN  merge_sorted(s, t) \in Seq(U) /\ Ascends(merge_sorted(s, t), U)
<1> DEFINE p == Len(s)
           q == Len(t)
           n == p + q
<1>1. /\ p \in Nat /\ \A x \in 1 .. p : s[x] \in Nat
      /\ \A x, y \in 1 .. p : x < y => s[x] < s[y]
      /\ q \in Nat /\ \A x \in 1 .. q : t[x] \in Nat
      /\ \A x, y \in 1 .. q : x < y => t[x] < t[y]
  BY SortedFacts
<1>2. PICK f : /\ Merges(f, s, t)
               /\ merge_sorted(s, t) = LET m == f[n]
                                       IN  m.result \o SubSeq(s, m.i, p) \o SubSeq(t, m.j, q)
               /\ \A k \in 0 .. n : MergedSoFar(f[k], s, t)
  BY MergeSteps
<1> DEFINE m == f[n]
           i == m.i
           j == m.j
<1>3. \A k \in 0 .. n : f[k] = IF k = 0 THEN [i |-> 1, j |-> 1, result |-> <<>>] ELSE MergeStep(s, t, f[k - 1])
  BY <1>2 DEF Merges
<1>4. merge_sorted(s, t) = m.result \o SubSeq(s, i, p) \o SubSeq(t, j, q)
  BY <1>2
<1>5. Len(s) = p /\ Len(t) = q
  OBVIOUS
<1> HIDE DEF p, q
<1> DEFINE Exhausted(k) == f[k].i > p \/ f[k].j > q
           S == {k \in 0 .. n : Exhausted(k) \/ f[k].i + f[k].j >= k + 2}
<1>6. n \in Nat
  BY <1>1
<1>7. 0 \in S
  <2>1. 0 \in 0 .. n
    BY <1>6
  <2>2. f[0].i = 1 /\ f[0].j = 1
    BY <1>3, <2>1
  <2>3. QED
    BY <2>1, <2>2
<1>8. ASSUME NEW k \in 0 .. n - 1, k \in S
      PROVE  k + 1 \in S
  <2>1. k + 1 \in 0 .. n /\ k + 1 # 0 /\ (k + 1) - 1 = k /\ k \in 0 .. n
    BY <1>6
  <2>2. f[k + 1] = MergeStep(s, t, f[k])
    BY <1>3, <2>1
  <2>3. MergedSoFar(f[k], s, t) /\ MergedSoFar(f[k + 1], s, t)
    BY <1>2, <2>1
  <2>4. /\ f[k].i > p \/ f[k].j > q => f[k + 1] = f[k]
        /\ f[k].i <= p /\ f[k].j <= q => f[k + 1].i + f[k + 1].j > f[k].i + f[k].j
    BY <1>5, <2>2, <2>3, MergeStepKeeps
  <2>5. f[k].i \in Nat /\ f[k].j \in Nat /\ f[k + 1].i \in Nat /\ f[k + 1].j \in Nat
    <3>1. f[k].i \in 1 .. p + 1 /\ f[k].j \in 1 .. q + 1
      BY <1>5, <2>3 DEF MergedSoFar
    <3>2. f[k + 1].i \in 1 .. p + 1 /\ f[k + 1].j \in 1 .. q + 1
      BY <1>5, <2>3 DEF MergedSoFar
    <3>3. QED
      BY <3>1, <3>2
  <2>6. CASE f[k].i > p \/ f[k].j > q
    BY <2>1, <2>4, <2>6
  <2>7. CASE ~(f[k].i > p \/ f[k].j > q)
    <3>1. f[k].i + f[k].j >= k + 2
      BY <1>8, <2>7
    <3>2. f[k + 1].i + f[k + 1].j >= (k + 1) + 2
      BY <1>1, <2>4, <2>5, <2>7, <3>1
    <3>3. QED
      BY <2>1, <3>2
  <2>8. QED
    BY <2>6, <2>7
<1>9. n \in S
  <2> HIDE DEF S
  <2>1. 0 .. n \subseteq S
    BY <1>6, <1>7, <1>8, UpTo
  <2>2. QED
    BY <1>6, <2>1
<1>10. MergedSoFar(m, s, t)
  BY <1>2, <1>6
<1>11. i \in 1 .. p + 1 /\ j \in 1 .. q + 1
  BY <1>5, <1>10 DEF MergedSoFar
<1>12. i = p + 1 \/ j = q + 1
  <2>1. i > p \/ j > q \/ i + j >= n + 2
    BY <1>9
  <2> HIDE DEF i, j
  <2>2. QED
    BY <1>1, <1>11, <2>1
<1> HIDE DEF m
<1> DEFINE O == Over(s, t, i, j)
           R == {s[x] : x \in i .. p}
           T == {t[y] : y \in j .. q}
           r == m.result
           u == SubSeq(s, i, p)
           v == SubSeq(t, j, q)
<1>13. r \in Seq(O) /\ Ascends(r, O)
  BY <1>10 DEF MergedSoFar
<1>14. \A w \in O : (\A x \in i .. p : w < s[x]) /\ (\A y \in j .. q : w < t[y])
  BY <1>5, <1>10 DEF MergedSoFar
<1> HIDE DEF i, j
<1>15. p \in i - 1 .. p /\ q \in j - 1 .. q /\ i \in Nat /\ j \in Nat
  BY <1>1, <1>11
<1>16. u \in Seq(R) /\ Ascends(u, R)
  <2>1. ToSet(s) \in SUBSET Nat /\ s \in Seq(ToSet(s)) /\ Ascends(s, ToSet(s))
    BY DEF Sorted
  <2>2. QED
    BY <1>5, <1>11, <1>15, <2>1, AscendsPart
<1>17. v \in Seq(T) /\ Ascends(v, T)
  <2>1. ToSet(t) \in SUBSET Nat /\ t \in Seq(ToSet(t)) /\ Ascends(t, ToSet(t))
    BY DEF Sorted
  <2>2. QED
    BY <1>5, <1>11, <1>15, <2>1, AscendsPart
<1>18. R \in SUBSET Nat /\ T \in SUBSET Nat
  <2>1. \A x \in i .. p : x \in 1 .. p
    BY <1>1, <1>11
  <2>2. \A y \in j .. q : y \in 1 .. q
    BY <1>1, <1>11
  <2>3. QED
    BY <1>1, <2>1, <2>2
<1>19. O \in SUBSET Nat
  <2>1. \A x \in 1 .. i - 1 : x \in 1 .. p
    BY <1>1, <1>11
  <2>2. \A y \in 1 .. j - 1 : y \in 1 .. q
    BY <1>1, <1>11
  <2>3. QED
    BY <1>1, <2>1, <2>2 DEF Over
<1>20. \A w \in O : (\A x \in R : w < x) /\ (\A y \in T : w < y)
  BY <1>14
<1>21. R = {} \/ T = {}
  <2>1. i = p + 1 => i .. p = {}
    BY <1>1
  <2>2. j = q + 1 => j .. q = {}
    BY <1>1
  <2>3. QED
    BY <1>12, <2>1, <2>2
<1>22. ToSet(s) \cup ToSet(t) = (O \cup R) \cup T
  <2>1. DOMAIN s = 1 .. p /\ DOMAIN t = 1 .. q
    <3>1. s \in Seq(ToSet(s)) /\ t \in Seq(ToSet(t))
      BY DEF Sorted
    <3>2. QED
      BY <1>5, <3>1, LenProperties
  <2>2. ToSet(s) = {s[x] : x \in 1 .. p} /\ ToSet(t) = {t[y] : y \in 1 .. q}
    BY <2>1 DEF ToSet
  <2>3. 1 .. p = (1 .. i - 1) \cup (i .. p) /\ 1 .. q = (1 .. j - 1) \cup (j .. q)
    BY <1>1, <1>11
  <2>4. {s[x] : x \in 1 .. p} = {s[x] : x \in 1 .. i - 1} \cup R
    BY <2>3
  <2>5. {t[y] : y \in 1 .. q} = {t[y] : y \in 1 .. j - 1} \cup T
    BY <2>3
  <2> HIDE DEF R, T
  <2>6. QED
    BY <2>2, <2>4, <2>5 DEF Over
<1> HIDE DEF O, R, T, r, u, v
<1>23. r \o u \in Seq(O \cup R) /\ Ascends(r \o u, O \cup R)
  BY <1>13, <1>16, <1>18, <1>19, <1>20, AscendsJoin
<1>24. O \cup R \in SUBSET Nat /\ \A w \in O \cup R, y \in T : w < y
  BY <1>18, <1>19, <1>20, <1>21
<1>25. (r \o u) \o v \in Seq((O \cup R) \cup T) /\ Ascends((r \o u) \o v, (O \cup R) \cup T)
  BY <1>17, <1>18, <1>23, <1>24, AscendsJoin
<1>26. merge_sorted(s, t) = (r \o u) \o v
  BY <1>4 DEF r, u, v
<1>27. QED
  BY <1>22, <1>25, <1>26

LEMMA FoundMerged ==
  ASSUME NEW a \in Slices, NEW b \in Slices
  PROVE  Ascends(merge_sorted(find_all_set(a), find_all_set(b)),
                 Positions(a, Len(a)) \cup Positions(b, Len(b)))
<1> DEFINE s == find_all_set(a)
           t == find_all_set(b)
           A == Positions(a, Len(a))
           B == Positions(b, Len(b))
<1>1. ASSUME NEW c \in Slices
      PROVE  Positions(c, Len(c)) \in SUBSET Nat
  <2>1. Len(c) \in Nat /\ \A i \in 1 .. Len(c) : c[i] \in Words
    BY SliceWords
  <2>2. \A i \in 1 .. Len(c) : WordAt(c, i) \subseteq Nat
    BY <2>1, WordAtBounds
  <2>3. QED
    BY <2>2 DEF Positions, WordAt
<1>2. s \in Seq(A) /\ Ascends(s, A) /\ t \in Seq(B) /\ Ascends(t, B)
  BY FindAll
<1>3. ToSet(s) = A /\ ToSet(t) = B
  BY <1>2 DEF Ascends
<1>4. Sorted(s, t)
  BY <1>1, <1>2, <1>3 DEF Sorted
<1>5. QED
  BY <1>3, <1>4, Merged

\* The bitmaps of the words of a slice.
WordMaps(a) == [i \in DOMAIN a |-> PubkeyBitmap(a[i])]
AnyOf(a, k) == UNION {a[i] : i \in 1 .. k}
AllOf(a, k) == {x \in AnyOf(a, k) : \A i \in 1 .. k : x \in a[i]}

\* What is in any of several bitmaps, and what is in all of them, one more at a time.
LEMMA AnyAndAll ==
  ASSUME NEW k \in Nat \ {0}, NEW a
  PROVE  /\ AnyOf(a, 1) = a[1] /\ AllOf(a, 1) = a[1]
         /\ AnyOf(a, k + 1) = AnyOf(a, k) \cup a[k + 1]
         /\ AllOf(a, k + 1) = AllOf(a, k) \cap a[k + 1]
<1>1. 1 .. 1 = {1} /\ 1 .. k + 1 = (1 .. k) \cup {k + 1} /\ 1 \in 1 .. k
  OBVIOUS
<1>2. AnyOf(a, 1) = a[1]
  BY <1>1 DEF AnyOf
<1>3. AllOf(a, 1) = a[1]
  BY <1>1, <1>2 DEF AllOf
<1>4. \A n, x : x \in AnyOf(a, n) <=> \E i \in 1 .. n : x \in a[i]
  BY DEF AnyOf
<1>5. AnyOf(a, k + 1) = AnyOf(a, k) \cup a[k + 1]
  BY <1>1, <1>4
<1>6. \A x : x \in AllOf(a, k) <=> \A i \in 1 .. k : x \in a[i]
  BY <1>1, <1>4 DEF AllOf
<1>7. \A x : x \in AllOf(a, k + 1) <=> \A i \in 1 .. k + 1 : x \in a[i]
  BY <1>1, <1>4 DEF AllOf
<1>8. AllOf(a, k + 1) = AllOf(a, k) \cap a[k + 1]
  BY <1>1, <1>6, <1>7
<1>9. QED
  BY <1>2, <1>3, <1>5, <1>8

LEMMA ManyBitmaps ==
  ASSUME NEW a \in Slices
  PROVE  /\ union(WordMaps(a)) = PubkeyBitmap(AnyOf(a, Len(a)))
         /\ intersect(WordMaps(a)) = PubkeyBitmap(AllOf(a, Len(a)))
<1> DEFINE n == Len(a)
           maps == WordMaps(a)
           Unions(g) == g = [i \in 1 .. n |-> IF i = 1 THEN maps[1] ELSE union_of(g[i - 1], maps[i])]
           Meets(g) == g = [i \in 1 .. n |-> IF i = 1 THEN maps[1] ELSE intersection(g[i - 1], maps[i])]
           any == [i \in 1 .. n |-> PubkeyBitmap(AnyOf(a, i))]
           all == [i \in 1 .. n |-> PubkeyBitmap(AllOf(a, i))]
<1>1. n \in Nat /\ DOMAIN a = 1 .. n
  BY SliceWords
<1>2. DOMAIN maps = 1 .. n /\ \A i \in 1 .. n : maps[i] = PubkeyBitmap(a[i])
  BY <1>1 DEF WordMaps
<1>3. n # 0 => maps # <<>>
  BY <1>1, <1>2
<1>4. n = 0 => maps = <<>>
  BY <1>1 DEF WordMaps
<1>5. Len(maps) = n
  <2>1. maps = [i \in 1 .. n |-> PubkeyBitmap(a[i])]
    BY <1>1 DEF WordMaps
  <2>2. QED
    BY <1>1, <1>2, LenProperties
<1> HIDE DEF n, maps
<1>6. CASE n = 0
  <2>1. AnyOf(a, 0) = {} /\ AllOf(a, 0) = {}
    BY DEF AnyOf, AllOf
  <2>2. union(maps) = PubkeyBitmap({}) /\ intersect(maps) = PubkeyBitmap({})
    BY <1>4, <1>6 DEF union, intersect
  <2>3. QED
    BY <1>6, <2>1, <2>2 DEF n, maps
<1>7. CASE n # 0
  <2>1. \A i \in 1 .. n : i # 1 => i - 1 \in 1 .. n /\ i - 1 \in Nat \ {0} /\ (i - 1) + 1 = i
    BY <1>1
  <2>2. \A i \in 1 .. n : any[i] = IF i = 1 THEN maps[1] ELSE union_of(any[i - 1], maps[i])
    <3> SUFFICES ASSUME NEW i \in 1 .. n
                 PROVE  any[i] = IF i = 1 THEN maps[1] ELSE union_of(any[i - 1], maps[i])
      OBVIOUS
    <3>1. CASE i = 1
      <4>1. AnyOf(a, i) = a[i]
        BY <3>1, AnyAndAll
      <4>2. QED
        BY <1>2, <3>1, <4>1
    <3>2. CASE i # 1
      <4>1. AnyOf(a, i) = AnyOf(a, i - 1) \cup a[i]
        BY <2>1, <3>2, AnyAndAll
      <4>2. any[i - 1].bitmap = AnyOf(a, i - 1) /\ maps[i].bitmap = a[i]
        BY <1>2, <2>1, <3>2 DEF PubkeyBitmap
      <4>3. QED
        BY <3>2, <4>1, <4>2 DEF union_of
    <3>3. QED
      BY <3>1, <3>2
  <2>3. \A i \in 1 .. n : all[i] = IF i = 1 THEN maps[1] ELSE intersection(all[i - 1], maps[i])
    <3> SUFFICES ASSUME NEW i \in 1 .. n
                 PROVE  all[i] = IF i = 1 THEN maps[1] ELSE intersection(all[i - 1], maps[i])
      OBVIOUS
    <3>1. CASE i = 1
      <4>1. AllOf(a, i) = a[i]
        BY <3>1, AnyAndAll
      <4>2. QED
        BY <1>2, <3>1, <4>1
    <3>2. CASE i # 1
      <4>1. AllOf(a, i) = AllOf(a, i - 1) \cap a[i]
        BY <2>1, <3>2, AnyAndAll
      <4>2. all[i - 1].bitmap = AllOf(a, i - 1) /\ maps[i].bitmap = a[i]
        BY <1>2, <2>1, <3>2 DEF PubkeyBitmap
      <4>3. QED
        BY <3>2, <4>1, <4>2 DEF intersection
    <3>3. QED
      BY <3>1, <3>2
  <2>4. Unions(any) /\ Meets(all)
    BY <2>2, <2>3
  <2> DEFINE u == CHOOSE g : Unions(g)
             v == CHOOSE g : Meets(g)
  <2>5. Unions(u) /\ union(maps) = u[n]
    <3>1. Unions(u)
      BY <2>4
    <3>2. union(maps) = u[n]
      BY <1>2, <1>3, <1>5, <1>7 DEF union
    <3>3. QED
      BY <3>1, <3>2
  <2>6. Meets(v) /\ intersect(maps) = v[n]
    <3>1. Meets(v)
      BY <2>4
    <3>2. intersect(maps) = v[n]
      BY <1>2, <1>3, <1>5, <1>7 DEF intersect
    <3>3. QED
      BY <3>1, <3>2
  <2> HIDE DEF u, v, any, all
  <2> DEFINE S == {i \in 0 .. n : i # 0 => u[i] = any[i] /\ v[i] = all[i]}
  <2>7. 0 \in S
    BY <1>1
  <2>8. \A i \in 0 .. n - 1 : i \in S => i + 1 \in S
    <3> SUFFICES ASSUME NEW i \in 0 .. n - 1, i # 0 => u[i] = any[i] /\ v[i] = all[i]
                 PROVE  u[i + 1] = any[i + 1] /\ v[i + 1] = all[i + 1]
      BY <1>1
    <3>1. i + 1 \in 1 .. n /\ (i + 1) - 1 = i
      BY <1>1
    <3>2. u[i + 1] = IF i + 1 = 1 THEN maps[1] ELSE union_of(u[i], maps[i + 1])
      BY <2>5, <3>1
    <3>3. v[i + 1] = IF i + 1 = 1 THEN maps[1] ELSE intersection(v[i], maps[i + 1])
      BY <2>6, <3>1
    <3>4. any[i + 1] = IF i + 1 = 1 THEN maps[1] ELSE union_of(any[i], maps[i + 1])
      BY <2>2, <3>1
    <3>5. all[i + 1] = IF i + 1 = 1 THEN maps[1] ELSE intersection(all[i], maps[i + 1])
      BY <2>3, <3>1
    <3>6. i + 1 # 1 => i # 0
      OBVIOUS
    <3>7. QED
      BY <3>2, <3>3, <3>4, <3>5, <3>6
  <2>9. u[n] = any[n] /\ v[n] = all[n]
    <3> HIDE DEF S
    <3>1. 0 .. n \subseteq S
      BY <1>1, <2>7, <2>8, UpTo
    <3>2. n \in S
      BY <1>1, <3>1
    <3>3. QED
      BY <1>7, <3>2 DEF S
  <2>10. n \in 1 .. n
    BY <1>1, <1>7
  <2>11. any[n] = PubkeyBitmap(AnyOf(a, n)) /\ all[n] = PubkeyBitmap(AllOf(a, n))
    BY <2>10 DEF any, all
  <2>12. QED
    BY <2>5, <2>6, <2>9, <2>11 DEF n, maps
<1>8. QED
  BY <1>6, <1>7

\* A bitmap is read back from its bytes, which are one more than its ids.
LEMMA BytesReadBack ==
  ASSUME NEW S \in SUBSET Nat, IsFiniteSet(S)
  PROVE  /\ deserialize(serialize(PubkeyBitmap(S))) = PubkeyBitmap(S)
         /\ compressed_size(PubkeyBitmap(S)) = Cardinality(S) + 1
         /\ compressed_size(PubkeyBitmap(S)) \in Nat
<1> DEFINE s == Ascending(S)
           b == PubkeyBitmap(S)
<1>1. s \in Seq(S) /\ Len(s) = Cardinality(S) /\ Ascends(s, S)
  BY AscendingAscends
<1>2. b.bitmap = S
  BY DEF PubkeyBitmap
<1>3. serialize(b) = <<1>> \o s
  BY <1>2 DEF serialize, iter
<1> HIDE DEF s, b
<1>4. s \in Seq(Nat) /\ <<1>> \in Seq(Nat) /\ Len(<<1>>) = 1
  <2>1. s \in Seq(Nat)
    <3>1. s \in Seq(S) /\ S \subseteq Nat
      BY <1>1
    <3>2. QED
      BY <3>1, SeqMonotonic
  <2>2. <<1>> \in Seq(Nat) /\ Len(<<1>>) = 1
    OBVIOUS
  <2>3. QED
    BY <2>1, <2>2
<1>5. Len(s) \in Nat
  BY <1>4, LenProperties
<1>6. /\ <<1>> \o s \in Seq(Nat)
      /\ Len(<<1>> \o s) = 1 + Len(s)
      /\ \A i \in 1 .. 1 + Len(s) : (<<1>> \o s)[i] = IF i <= 1 THEN <<1>>[i] ELSE s[i - 1]
  BY <1>4, ConcatProperties
<1> DEFINE r == <<1>> \o s
<1> HIDE DEF r
<1>7. r # <<>>
  BY <1>5, <1>6 DEF r
<1>8. /\ Tail(r) \in Seq(Nat) /\ Len(Tail(r)) = Len(s)
      /\ \A i \in 1 .. Len(Tail(r)) : Tail(r)[i] = r[i + 1]
  <2>1. r \in Seq(Nat) /\ Len(r) = 1 + Len(s)
    BY <1>6 DEF r
  <2>2. Tail(r) \in Seq(Nat) /\ Len(Tail(r)) = Len(r) - 1 /\ \A i \in 1 .. Len(Tail(r)) : Tail(r)[i] = r[i + 1]
    BY <1>7, <2>1, HeadTailProperties
  <2>3. QED
    BY <1>5, <2>1, <2>2
<1>9. \A i \in 1 .. Len(s) : Tail(r)[i] = s[i]
  <2> SUFFICES ASSUME NEW i \in 1 .. Len(s)
               PROVE  Tail(r)[i] = s[i]
    OBVIOUS
  <2>1. i + 1 \in 1 .. 1 + Len(s) /\ ~(i + 1 <= 1) /\ (i + 1) - 1 = i
    BY <1>5
  <2>2. r[i + 1] = s[i]
    BY <1>6, <2>1 DEF r
  <2>3. QED
    BY <1>8, <2>2
<1>10. DOMAIN Tail(r) = 1 .. Len(s) /\ DOMAIN s = 1 .. Len(s)
  BY <1>4, <1>8, LenProperties
<1>11. ToSet(Tail(r)) = ToSet(s)
  BY <1>9, <1>10 DEF ToSet
<1>12. ToSet(s) = S
  BY <1>1 DEF Ascends
<1>13. deserialize(serialize(b)) = PubkeyBitmap(S)
  BY <1>3, <1>11, <1>12 DEF deserialize, r
<1>14. compressed_size(b) = Cardinality(S) + 1
  <2>1. Cardinality(S) \in Nat
    BY FS_CardinalityType
  <2>2. compressed_size(b) = 1 + Len(s)
    BY <1>3, <1>6 DEF compressed_size
  <2>3. QED
    BY <1>1, <2>1, <2>2
<1>15. compressed_size(b) \in Nat
  BY <1>14, FS_CardinalityType
<1>16. QED
  BY <1>13, <1>14, <1>15 DEF b

\* The set operations of the two kinds of bitmap.
LEMMA BitmapLaws ==
  ASSUME NEW S \in SUBSET Nat, IsFiniteSet(S), NEW T \in SUBSET Nat, IsFiniteSet(T)
  PROVE  LET a == PubkeyBitmap(S)
             b == PubkeyBitmap(T)
             common == intersection(a, b)
         IN  /\ union_of(difference(a, b), common) = a
             /\ deserialize(serialize(common)) = common
             /\ difference(a, b).cardinality + common.cardinality = a.cardinality
             /\ common.cardinality = Cardinality(simd_intersection(S, T))
             /\ difference(a, b).bitmap = simd_difference(S, T)
             /\ jaccard(S, T)[1] <= jaccard(S, T)[2]
             /\ simd_union(S, T) # {} => jaccard(S, T) = <<common.cardinality, union_of(a, b).cardinality>>
<1> DEFINE a == PubkeyBitmap(S)
           b == PubkeyBitmap(T)
<1>1. /\ intersection(a, b) = PubkeyBitmap(S \cap T)
      /\ difference(a, b) = PubkeyBitmap(S \ T)
      /\ union_of(a, b) = PubkeyBitmap(S \cup T)
  BY DEF intersection, difference, union_of, PubkeyBitmap
<1>2. union_of(PubkeyBitmap(S \ T), PubkeyBitmap(S \cap T)) = a
  <2>1. (S \ T) \cup (S \cap T) = S
    OBVIOUS
  <2>2. QED
    BY <2>1 DEF union_of, PubkeyBitmap
<1>3. S \cap T \in SUBSET Nat /\ IsFiniteSet(S \cap T) /\ Cardinality(S \cap T) <= Cardinality(S)
  BY FS_Intersection
<1>4. deserialize(serialize(PubkeyBitmap(S \cap T))) = PubkeyBitmap(S \cap T)
  BY <1>3, BytesReadBack
<1>5. Cardinality(S \ T) = Cardinality(S) - Cardinality(S \cap T)
  BY FS_Difference
<1>6. Cardinality(S) \in Nat /\ Cardinality(S \cap T) \in Nat
  BY <1>3, FS_CardinalityType
<1>7. Cardinality(S \ T) + Cardinality(S \cap T) = Cardinality(S)
  BY <1>5, <1>6
<1>8. \A U : PubkeyBitmap(U).cardinality = Cardinality(U) /\ PubkeyBitmap(U).bitmap = U
  BY DEF PubkeyBitmap
<1>9. jaccard(S, T)[1] <= jaccard(S, T)[2]
  <2>1. CASE S \cup T = {}
    BY <2>1 DEF jaccard
  <2>2. CASE S \cup T # {}
    <3>1. IsFiniteSet(S \cup T)
      BY FS_Union
    <3>2. S \cap T \in SUBSET (S \cup T)
      OBVIOUS
    <3>3. Cardinality(S \cap T) <= Cardinality(S \cup T)
      BY <3>1, <3>2, FS_Subset
    <3>4. QED
      BY <2>2, <3>3 DEF jaccard
  <2>3. QED
    BY <2>1, <2>2
<1>10. simd_union(S, T) # {} => jaccard(S, T) = <<Cardinality(S \cap T), Cardinality(S \cup T)>>
  BY DEF simd_union, jaccard
<1>11. QED
  BY <1>1, <1>2, <1>4, <1>7, <1>8, <1>9, <1>10 DEF simd_intersection, simd_difference

\* The first n ids and the others, in order.
LEMMA FirstAndOthers ==
  ASSUME NEW S \in SUBSET Nat, IsFiniteSet(S), NEW k \in 0 .. Cardinality(S)
  PROVE  LET a == PubkeyBitmap(S)
             others == difference(a, PubkeyBitmap(ToSet(first_n(a, k))))
         IN  Ascends(first_n(a, k) \o iter(others), a.bitmap) /\ Len(first_n(a, k)) = k
<1> DEFINE a == PubkeyBitmap(S)
           s == Ascending(S)
           n == Cardinality(S)
           F == {s[x] : x \in 1 .. k}
           first == first_n(a, k)
<1>1. s \in Seq(S) /\ Len(s) = n /\ Ascends(s, S)
  BY AscendingAscends
<1>2. n \in Nat
  BY FS_CardinalityType
<1>3. a.bitmap = S /\ iter(a) = s
  BY DEF PubkeyBitmap, iter
<1> HIDE DEF a, s, n
<1>4. first = SubSeq(s, 1, k)
  <2>1. k < n \/ k = n
    BY <1>2 DEF n
  <2>2. QED
    BY <1>1, <1>3, <2>1 DEF first_n
<1>5. first \in Seq(F) /\ Len(first) = k /\ Ascends(first, F)
  <2>1. 1 \in 1 .. Len(s) + 1 /\ k \in 1 - 1 .. Len(s) /\ k - 1 + 1 = k
    BY <1>1, <1>2 DEF n
  <2>2. QED
    BY <1>1, <1>4, <2>1, AscendsPart
<1>6. ToSet(first) = F
  BY <1>5 DEF Ascends
<1>7. DOMAIN s = 1 .. n /\ {s[x] : x \in 1 .. n} = S /\ \A x, y \in 1 .. n : x < y => s[x] < s[y]
  <2>1. DOMAIN s = 1 .. n
    BY <1>1, LenProperties
  <2>2. QED
    BY <1>1, <2>1 DEF Ascends, ToSet
<1> DEFINE O == S \ F
<1>8. F \in SUBSET Nat /\ O \in SUBSET Nat /\ F \cup O = S /\ IsFiniteSet(O)
  <2>1. \A x \in 1 .. k : x \in 1 .. n
    BY <1>2 DEF n
  <2>2. F \subseteq S
    BY <1>7, <2>1
  <2>3. IsFiniteSet(S \ F)
    <3> HIDE DEF F
    <3>1. QED
      BY FS_Difference
  <2>4. QED
    BY <2>2, <2>3
<1>9. \A p \in F, q \in O : p < q
  <2> SUFFICES ASSUME NEW x \in 1 .. k, NEW q \in S, q \notin F
               PROVE  s[x] < q
    OBVIOUS
  <2>1. PICK y \in 1 .. n : s[y] = q
    BY <1>7
  <2>2. y \notin 1 .. k
    BY <2>1
  <2>3. x \in 1 .. n /\ x < y
    BY <1>2, <2>2 DEF n
  <2>4. QED
    BY <1>7, <2>1, <2>3
<1>10. difference(a, PubkeyBitmap(F)).bitmap = O
  BY <1>3 DEF difference, PubkeyBitmap
<1> HIDE DEF O, F
<1>11. Ascending(O) \in Seq(O) /\ Ascends(Ascending(O), O)
  BY <1>8, AscendingAscends
<1>12. Ascends(first \o Ascending(O), F \cup O)
  BY <1>5, <1>8, <1>9, <1>11, AscendsJoin
<1>13. iter(difference(a, PubkeyBitmap(F))) = Ascending(O)
  BY <1>10 DEF iter
<1>14. QED
  BY <1>3, <1>5, <1>6, <1>8, <1>12, <1>13 DEF a

\* The estimate shrinks with more filters but not below 1, unless the bitmap is empty.
LEMMA Quotient ==
  ASSUME NEW c \in Nat, NEW d \in Nat \ {0}, NEW e \in Nat \ {0}, d <= e
  PROVE  /\ (c + d - 1) \div d \in Nat
         /\ (c + e - 1) \div e <= (c + d - 1) \div d
         /\ (c + d - 1) \div d <= c
         /\ (c + d - 1) \div d = 0 <=> c = 0
         /\ c <= d * ((c + d - 1) \div d)
<1> DEFINE p == (c + d - 1) \div d
           q == (c + e - 1) \div e
<1>1. c + d - 1 \in Nat /\ c + e - 1 \in Nat
  OBVIOUS
<1>2. p \in Nat /\ d * p <= c + d - 1 /\ c + d - 1 < d * (p + 1)
  BY <1>1
<1>3. q \in Nat /\ e * q <= c + e - 1 /\ c + e - 1 < e * (q + 1)
  BY <1>1
<1> HIDE DEF p, q
<1>4. d * (p + 1) = d * p + d /\ d * p \in Nat /\ e * q \in Nat
  BY <1>2, <1>3
<1>5. c <= d * p
  BY <1>2, <1>4
<1>6. c = 0 => p = 0
  <2>1. p # 0 => d * p >= d
    BY <1>2
  <2>2. QED
    BY <1>2, <1>4, <2>1
<1>7. p = 0 => c = 0
  BY <1>5
<1>8. p <= c
  <2> SUFFICES ASSUME p >= c + 1
               PROVE  FALSE
    BY <1>2
  <2>1. d * p >= d * (c + 1) /\ d * (c + 1) = d * c + d
    BY <1>2
  <2>2. d * c >= c /\ d * c \in Nat
    OBVIOUS
  <2>3. QED
    BY <1>2, <1>4, <2>1, <2>2
<1>9. q <= p
  <2> SUFFICES ASSUME q >= p + 1
               PROVE  FALSE
    BY <1>2, <1>3
  <2>1. e * q >= e * (p + 1) /\ e * (p + 1) = e * p + e /\ e * p \in Nat
    BY <1>2, <1>3
  <2>2. e * p >= d * p
    BY <1>2
  <2>3. QED
    BY <1>3, <1>4, <1>5, <2>1, <2>2
<1>10. QED
  BY <1>2, <1>5, <1>6, <1>7, <1>8, <1>9 DEF p, q

Divisor(s, m, disc) == 10 ^ s * 20 ^ m * (IF disc THEN 100 ELSE 1)

\* So it does when a product that should be an integer is rounded to the next one.
LEMMA Rounded ==
  ASSUME NEW c \in Nat, NEW d \in Nat \ {0}, NEW e \in Nat \ {0}, d < e,
         NEW p \in Nat, NEW q \in Nat, q <= p, p <= c, p = 0 <=> c = 0, q = 0 <=> c = 0,
         c <= d * p,
         NEW P, P = p \/ (P = p + 1 /\ d > 1 /\ c > 0 /\ d * p = c),
         NEW Q, Q = q \/ (Q = q + 1 /\ c > 0 /\ e * q = c)
  PROVE  P \in Nat /\ Q <= P /\ P <= c /\ (P = 0 <=> c = 0)
<1>1. ASSUME P = p + 1, d > 1, c > 0, d * p = c
      PROVE  P <= c
  <2>1. p >= 1
    BY <1>1
  <2>2. d * p >= 2 * p
    BY <1>1
  <2>3. QED
    BY <1>1, <2>1, <2>2
<1>2. ASSUME Q = q + 1, c > 0, e * q = c
      PROVE  Q <= p
  <2> SUFFICES ASSUME p <= q
               PROVE  FALSE
    BY <1>2
  <2>1. q >= 1
    BY <1>2
  <2>2. d * p <= d * q
    OBVIOUS
  <2>3. d * q < e * q
    <3>1. e * q >= (d + 1) * q
      OBVIOUS
    <3>2. (d + 1) * q = d * q + q /\ d * q \in Nat
      OBVIOUS
    <3>3. QED
      BY <2>1, <3>1, <3>2
  <2>4. d * p \in Nat /\ d * q \in Nat /\ e * q \in Nat
    OBVIOUS
  <2>5. QED
    BY <1>2, <2>2, <2>3, <2>4
<1>3. QED
  BY <1>1, <1>2

LEMMA Divisors ==
  ASSUME NEW s \in 0 .. 1, NEW m \in 0 .. 1, NEW disc \in BOOLEAN
  PROVE  /\ Divisor(s, m, disc) \in Nat \ {0} /\ Divisor(s + 1, m + 1, disc) \in Nat \ {0}
         /\ Divisor(s, m, disc) < Divisor(s + 1, m + 1, disc)
<1>1. 10 ^ 0 = 1 /\ 10 ^ 1 = 10 /\ 10 ^ 2 = 100 /\ 20 ^ 0 = 1 /\ 20 ^ 1 = 20 /\ 20 ^ 2 = 400
  OBVIOUS
<1>2. 10 ^ s \in 1 .. 10 /\ 10 ^ (s + 1) = 10 * 10 ^ s
  <2>1. CASE s = 0
    <3>1. s + 1 = 1
      BY <2>1
    <3>2. 10 ^ s = 1 /\ 10 ^ (s + 1) = 10
      BY <1>1, <2>1, <3>1
    <3>3. QED
      BY <3>2
  <2>2. CASE s = 1
    <3>1. s + 1 = 2
      BY <2>2
    <3>2. 10 ^ s = 10 /\ 10 ^ (s + 1) = 100
      BY <1>1, <2>2, <3>1
    <3>3. QED
      BY <3>2
  <2>3. QED
    BY <2>1, <2>2
<1>3. 20 ^ m \in 1 .. 20 /\ 20 ^ (m + 1) = 20 * 20 ^ m
  <2>1. CASE m = 0
    <3>1. m + 1 = 1
      BY <2>1
    <3>2. 20 ^ m = 1 /\ 20 ^ (m + 1) = 20
      BY <1>1, <2>1, <3>1
    <3>3. QED
      BY <3>2
  <2>2. CASE m = 1
    <3>1. m + 1 = 2
      BY <2>2
    <3>2. 20 ^ m = 20 /\ 20 ^ (m + 1) = 400
      BY <1>1, <2>2, <3>1
    <3>3. QED
      BY <3>2
  <2>3. QED
    BY <2>1, <2>2
<1> DEFINE x == 10 ^ s
           y == 20 ^ m
           z == IF disc THEN 100 ELSE 1
<1>4. z = 1 \/ z = 100
  OBVIOUS
<1>5. Divisor(s, m, disc) = x * y * z /\ Divisor(s + 1, m + 1, disc) = 10 * x * (20 * y) * z
  BY <1>2, <1>3 DEF Divisor
<1> HIDE DEF x, y, z
<1>6. x \in Nat \ {0} /\ y \in Nat \ {0} /\ z \in Nat \ {0}
  BY <1>2, <1>3, <1>4 DEF x, y
<1>7. x * y \in Nat \ {0}
  BY <1>6
<1>8. x * y * z \in Nat \ {0}
  BY <1>6, <1>7
<1>9. 10 * x * (20 * y) * z = 200 * (x * y * z)
  BY <1>6
<1>10. QED
  BY <1>5, <1>8, <1>9

LEMMA Estimates ==
  ASSUME NEW S, IsFiniteSet(S), NEW s \in 0 .. 1, NEW m \in 0 .. 1, NEW disc \in BOOLEAN,
         NEW more \in estimate_get_program_accounts(PubkeyBitmap(S), s + 1, m + 1, disc),
         NEW less \in estimate_get_program_accounts(PubkeyBitmap(S), s, m, disc)
  PROVE  /\ more.estimated_cardinality <= less.estimated_cardinality
         /\ less.estimated_cardinality <= PubkeyBitmap(S).cardinality
         /\ less.estimated_cardinality = 0 <=> PubkeyBitmap(S).bitmap = {}
         /\ less.estimated_cardinality < less.total_cost
<1> DEFINE a == PubkeyBitmap(S)
           c == Cardinality(S)
           d == Divisor(s, m, disc)
           e == Divisor(s + 1, m + 1, disc)
           p == (c + d - 1) \div d
           q == (c + e - 1) \div e
<1>1. c \in Nat /\ (c = 0 <=> S = {})
  BY FS_CardinalityType, FS_EmptySet
<1>2. a.cardinality = c /\ a.bitmap = S
  BY DEF PubkeyBitmap
<1>3. d \in Nat \ {0} /\ e \in Nat \ {0} /\ d < e
  BY Divisors
<1>4. /\ estimate_cardinality(a, s, m, disc) =
            {p} \cup (IF d > 1 /\ c > 0 /\ d * p = c THEN {p + 1} ELSE {})
      /\ estimate_cardinality(a, s + 1, m + 1, disc) =
            {q} \cup (IF e > 1 /\ c > 0 /\ e * q = c THEN {q + 1} ELSE {})
  BY <1>2 DEF estimate_cardinality, Divisor
<1> DEFINE n == IF disc THEN 1 ELSE 0
           Cost(x) == 100 + 10 * (1 + s + m + n) + x + m * x * 10
<1>5. PICK P \in estimate_cardinality(a, s, m, disc) :
         less.estimated_cardinality = P /\ less.total_cost = Cost(P)
  BY DEF estimate_get_program_accounts
<1>6. PICK Q \in estimate_cardinality(a, s + 1, m + 1, disc) : more.estimated_cardinality = Q
  BY DEF estimate_get_program_accounts
<1> HIDE DEF a, c, d, e
<1>7. /\ P = p \/ (P = p + 1 /\ d > 1 /\ c > 0 /\ d * p = c)
      /\ Q = q \/ (Q = q + 1 /\ c > 0 /\ e * q = c)
  BY <1>4
<1>8. P \in Nat /\ Q <= P /\ P <= c /\ (P = 0 <=> c = 0)
  <2>1. d <= e /\ e <= e
    BY <1>3
  <2>2. p \in Nat /\ q \in Nat /\ q <= p /\ p <= c /\ (p = 0 <=> c = 0) /\ (q = 0 <=> c = 0)
    BY <1>1, <1>3, <2>1, Quotient
  <2>3. c <= d * p
    BY <1>1, <1>3, Quotient
  <2> HIDE DEF p, q
  <2>4. QED
    BY <1>1, <1>3, <1>7, <2>2, <2>3, Rounded
<1>9. P < Cost(P)
  <2>1. m = 0 \/ m = 1
    OBVIOUS
  <2>2. m * P * 10 \in Nat
    BY <1>8, <2>1
  <2>3. QED
    BY <1>8, <2>2
<1> HIDE DEF Cost
<1>10. QED
  BY <1>1, <1>2, <1>5, <1>6, <1>8, <1>9 DEF a, c

\* All of SlicesAgree for any two slices.
LEMMA SlicesProved ==
  ASSUME sliceA \in Slices, sliceB \in Slices
  PROVE  SlicesAgree
<1> DEFINE n == Common(sliceA, sliceB)
           A == Positions(sliceA, n)
           B == Positions(sliceB, n)
           S == Positions(sliceA, Len(sliceA))
           T == Positions(sliceB, Len(sliceB))
           all == UNION {sliceA[i] : i \in DOMAIN sliceA}
           meet == {x \in all : \A i \in DOMAIN sliceA : x \in sliceA[i]}
           maps == [i \in DOMAIN sliceA |-> PubkeyBitmap(sliceA[i])]
           a == PubkeyBitmap(S)
           b == PubkeyBitmap(T)
<1>1. ASSUME NEW c \in Slices
      PROVE  Positions(c, Len(c)) \in SUBSET Nat /\ IsFiniteSet(Positions(c, Len(c)))
  <2>1. Len(c) \in Nat /\ \A i \in 1 .. Len(c) : c[i] \in Words
    BY SliceWords
  <2>2. \A i \in 1 .. Len(c) : WordAt(c, i) \subseteq Nat
    BY <2>1, WordAtBounds
  <2>3. Positions(c, Len(c)) \in SUBSET Nat
    BY <2>2 DEF Positions, WordAt
  <2>4. Len(c) \in 0 .. Len(c)
    BY <2>1
  <2>5. IsFiniteSet(Positions(c, Len(c)))
    BY <2>1, <2>4, PositionsSize
  <2>6. QED
    BY <2>3, <2>5
<1>2. S \in SUBSET Nat /\ IsFiniteSet(S) /\ T \in SUBSET Nat /\ IsFiniteSet(T)
  BY <1>1
<1>3. DOMAIN sliceA = 1 .. Len(sliceA)
  BY SliceWords
<1>4. union(maps) = PubkeyBitmap(all) /\ intersect(maps) = PubkeyBitmap(meet)
  <2>1. maps = WordMaps(sliceA)
    BY DEF WordMaps
  <2>2. all = AnyOf(sliceA, Len(sliceA))
    BY <1>3 DEF AnyOf
  <2>3. meet = AllOf(sliceA, Len(sliceA))
    BY <1>3, <2>2 DEF AllOf
  <2> HIDE DEF maps, all, meet
  <2>4. QED
    BY <2>1, <2>2, <2>3, ManyBitmaps
<1>5. /\ Positions(bitmap_and(sliceA, sliceB), n) = A \cap B
      /\ Positions(bitmap_or(sliceA, sliceB), n) = A \cup B
      /\ Positions(bitmap_xor(sliceA, sliceB), n) = (A \ B) \cup (B \ A)
      /\ intersection_size(sliceA, sliceB) = Cardinality(A \cap B)
      /\ union_size(sliceA, sliceB) = Cardinality(A \cup B)
  BY SliceOperations, SliceSizes
<1>6. /\ Ascends(find_all_set(sliceA), S)
      /\ find_first_set(sliceA) = IF S = {} THEN -1 ELSE Min(S)
      /\ Ascends(merge_sorted(find_all_set(sliceA), find_all_set(sliceB)), S \cup T)
  BY FindAll, FindFirst, FoundMerged
<1> HIDE DEF S, T
<1>7. /\ union_of(difference(a, b), intersection(a, b)) = a
      /\ deserialize(serialize(intersection(a, b))) = intersection(a, b)
      /\ difference(a, b).cardinality + intersection(a, b).cardinality = a.cardinality
      /\ intersection(a, b).cardinality = Cardinality(simd_intersection(S, T))
      /\ difference(a, b).bitmap = simd_difference(S, T)
      /\ jaccard(S, T)[1] <= jaccard(S, T)[2]
      /\ simd_union(S, T) # {} => jaccard(S, T) = <<intersection(a, b).cardinality, union_of(a, b).cardinality>>
  BY <1>2, BitmapLaws
<1>8. \A k \in 0 .. Cardinality(S) :
        LET others == difference(a, PubkeyBitmap(ToSet(first_n(a, k))))
        IN  Ascends(first_n(a, k) \o iter(others), a.bitmap) /\ Len(first_n(a, k)) = k
  BY <1>2, FirstAndOthers
<1>9. \A s, m \in 0 .. 1, disc \in BOOLEAN :
        \A more \in estimate_get_program_accounts(a, s + 1, m + 1, disc),
           less \in estimate_get_program_accounts(a, s, m, disc) :
            /\ more.estimated_cardinality <= less.estimated_cardinality
            /\ less.estimated_cardinality <= a.cardinality
            /\ less.estimated_cardinality = 0 <=> a.bitmap = {}
            /\ less.estimated_cardinality < less.total_cost
  BY <1>2, Estimates
<1> HIDE DEF n, A, B, a, b, maps, all, meet
<1>10. QED
  BY <1>4, <1>5, <1>6, <1>7, <1>8, <1>9 DEF SlicesAgree, n, A, B, S, T, a, b, maps, all, meet

\* The bytes of one bitmap, and of all of a map of them.
BytesOf(k, size) == {k} \X (1 .. size)
Kept(M) == UNION {BytesOf(k, compressed_size(M[k])) : k \in DOMAIN M}

LEMMA BytesSize ==
  ASSUME NEW k, NEW size \in Nat
  PROVE  IsFiniteSet(BytesOf(k, size)) /\ Cardinality(BytesOf(k, size)) = size
<1> DEFINE K == {k}
           P == 1 .. size
<1>1. IsFiniteSet(K) /\ Cardinality(K) = 1
  BY FS_Singleton
<1>2. IsFiniteSet(P) /\ Cardinality(P) = size
  BY FS_Interval
<1>3. BytesOf(k, size) = K \X P
  BY DEF BytesOf
<1> HIDE DEF K, P
<1>4. IsFiniteSet(K \X P) /\ Cardinality(K \X P) = Cardinality(K) * Cardinality(P)
  BY <1>1, <1>2, FS_Product
<1>5. QED
  BY <1>1, <1>2, <1>3, <1>4

\* The bytes of the others are apart from those of k.
LEMMA KeptApart ==
  ASSUME NEW M, NEW k, NEW size, IsFiniteSet(Kept(Drop(M, k))), size \in Nat
  PROVE  /\ IsFiniteSet(Kept(Drop(M, k)) \cup BytesOf(k, size))
         /\ Cardinality(Kept(Drop(M, k)) \cup BytesOf(k, size)) = Cardinality(Kept(Drop(M, k))) + size
<1> DEFINE R == Kept(Drop(M, k))
           B == BytesOf(k, size)
<1>1. R \cap B = {}
  <2> SUFFICES ASSUME NEW x \in R, x \in B
               PROVE  FALSE
    OBVIOUS
  <2>1. PICK j \in DOMAIN M \ {k} : x \in BytesOf(j, compressed_size(Drop(M, k)[j]))
    BY DEF Kept, Drop
  <2>2. x[1] = j
    BY <2>1 DEF BytesOf
  <2>3. x[1] = k
    BY DEF BytesOf
  <2>4. QED
    BY <2>2, <2>3
<1>2. IsFiniteSet(B) /\ Cardinality(B) = size
  BY BytesSize
<1>3. Cardinality(R) \in Nat
  BY FS_CardinalityType
<1> HIDE DEF R, B
<1>4. IsFiniteSet(R)
  BY DEF R
<1>5. IsFiniteSet(R \cup B) /\ Cardinality(R \cup B) = Cardinality(R) + Cardinality(B) - Cardinality(R \cap B)
  BY <1>2, <1>4, FS_Union
<1>6. Cardinality(R \cap B) = 0
  BY <1>1, FS_EmptySet
<1>7. IsFiniteSet(R \cup B) /\ Cardinality(R \cup B) = Cardinality(R) + size
  BY <1>2, <1>3, <1>5, <1>6
<1>8. QED
  BY <1>7 DEF R, B

LEMMA KeptSplit ==
  ASSUME NEW M, NEW k, NEW b
  PROVE  /\ k \in DOMAIN M => Kept(M) = Kept(Drop(M, k)) \cup BytesOf(k, compressed_size(M[k]))
         /\ k \notin DOMAIN M => Kept(M) = Kept(Drop(M, k))
         /\ Kept(Put(M, k, b)) = Kept(Drop(M, k)) \cup BytesOf(k, compressed_size(b))
<1> DEFINE D == DOMAIN M
           Rest == {BytesOf(j, compressed_size(M[j])) : j \in D \ {k}}
<1>1. Kept(Drop(M, k)) = UNION Rest
  <2>1. DOMAIN Drop(M, k) = D \ {k} /\ \A j \in D \ {k} : Drop(M, k)[j] = M[j]
    BY DEF Drop
  <2>2. {BytesOf(j, compressed_size(Drop(M, k)[j])) : j \in D \ {k}} = Rest
    BY <2>1
  <2>3. QED
    BY <2>1, <2>2 DEF Kept
<1>2. ASSUME k \in D
      PROVE  Kept(M) = (UNION Rest) \cup BytesOf(k, compressed_size(M[k]))
  <2>1. D = (D \ {k}) \cup {k}
    BY <1>2
  <2>2. {BytesOf(j, compressed_size(M[j])) : j \in D} = Rest \cup {BytesOf(k, compressed_size(M[k]))}
    BY <2>1
  <2>3. QED
    BY <2>2 DEF Kept
<1>3. ASSUME k \notin D
      PROVE  Kept(M) = UNION Rest
  <2>1. D = D \ {k}
    BY <1>3
  <2>2. QED
    BY <2>1 DEF Kept
<1>4. Kept(Put(M, k, b)) = (UNION Rest) \cup BytesOf(k, compressed_size(b))
  <2> DEFINE P == Put(M, k, b)
  <2>1. DOMAIN P = (D \ {k}) \cup {k} /\ P[k] = b /\ \A j \in D \ {k} : P[j] = M[j]
    BY DEF Put
  <2> HIDE DEF P
  <2>2. {BytesOf(j, compressed_size(P[j])) : j \in DOMAIN P} = Rest \cup {BytesOf(k, compressed_size(b))}
    BY <2>1
  <2>3. QED
    BY <2>2 DEF Kept, P
<1>5. QED
  BY <1>1, <1>2, <1>3, <1>4

\* The size that is reported is that of the bitmaps kept and of all that were replaced.
BytesCounted ==
    /\ total_bitmaps = Cardinality(DOMAIN stored_bitmaps)
    /\ compressed_size_bytes = overwritten + Cardinality(KeptBytes)

\* The slices are slices of words, and the store has a bitmap of ids at each key and
\* counts their bytes.
EnginesInv ==
    /\ sliceA \in Slices /\ sliceB \in Slices
    /\ IsFiniteSet(DOMAIN stored_bitmaps)
    /\ \A k \in DOMAIN stored_bitmaps : \E w \in Words : stored_bitmaps[k] = PubkeyBitmap(w)
    /\ overwritten \in Nat
    /\ IsFiniteSet(KeptBytes)
    /\ BytesCounted

LEMMA KeptIs == KeptBytes = Kept(stored_bitmaps) /\ KeptBytes' = Kept(stored_bitmaps')
BY DEF KeptBytes, Kept, BytesOf

LEMMA WordCompressed ==
  ASSUME NEW w \in Words
  PROVE  compressed_size(PubkeyBitmap(w)) \in Nat
BY BitsBelow, BytesReadBack

LEMMA EnginesInvInit == EnginesInit => EnginesInv
<1> SUFFICES ASSUME EnginesInit
             PROVE  EnginesInv
  OBVIOUS
<1>1. <<>> \in Slices
  BY SeqDef DEF Slices
<1>2. DOMAIN stored_bitmaps = {} /\ KeptBytes = {}
  BY DEF EnginesInit, EmptyMap, KeptBytes
<1>3. IsFiniteSet({}) /\ Cardinality({}) = 0
  BY FS_EmptySet
<1>4. BytesCounted
  BY <1>2, <1>3 DEF EnginesInit, BytesCounted
<1>5. QED
  BY <1>1, <1>2, <1>3, <1>4 DEF EnginesInit, EnginesInv

\* A bitmap is stored: what it replaces stays counted.
LEMMA StoredCounted ==
  ASSUME EnginesInv, NEW k \in StoreKeys, NEW w \in Words, StoreBitmap(k, PubkeyBitmap(w))
  PROVE  EnginesInv'
<1> DEFINE b == PubkeyBitmap(w)
           M == stored_bitmaps
           R == Kept(Drop(M, k))
           new == compressed_size(b)
           old == compressed_size(M[k])
<1>1. M' = Put(M, k, b) /\ total_bitmaps' = Cardinality(DOMAIN M')
  BY DEF StoreBitmap
<1>2. new \in Nat
  BY WordCompressed
<1>3. k \in DOMAIN M => old \in Nat
  BY WordCompressed DEF EnginesInv
<1>4. IsFiniteSet(Kept(M)) /\ compressed_size_bytes = overwritten + Cardinality(Kept(M)) /\ overwritten \in Nat
  BY KeptIs DEF EnginesInv, BytesCounted
<1>5. /\ k \in DOMAIN M => Kept(M) = R \cup BytesOf(k, old)
      /\ k \notin DOMAIN M => Kept(M) = R
      /\ Kept(M') = R \cup BytesOf(k, new)
  BY <1>1, KeptSplit
<1>6. IsFiniteSet(R)
  <2>1. R \subseteq Kept(M)
    BY <1>5
  <2> HIDE DEF R
  <2>2. QED
    BY <1>4, <2>1, FS_Subset
<1>7. Cardinality(R) \in Nat
  BY <1>6, FS_CardinalityType
<1>8. IsFiniteSet(Kept(M')) /\ Cardinality(Kept(M')) = Cardinality(R) + new
  <2>1. IsFiniteSet(R \cup BytesOf(k, new)) /\ Cardinality(R \cup BytesOf(k, new)) = Cardinality(R) + new
    BY <1>2, <1>6, KeptApart
  <2>2. QED
    BY <1>5, <2>1
<1>9. k \in DOMAIN M => Cardinality(Kept(M)) = Cardinality(R) + old
  <2> SUFFICES ASSUME k \in DOMAIN M
               PROVE  Cardinality(Kept(M)) = Cardinality(R) + old
    OBVIOUS
  <2>1. Cardinality(R \cup BytesOf(k, old)) = Cardinality(R) + old
    BY <1>3, <1>6, KeptApart
  <2>2. QED
    BY <1>5, <2>1
<1>10. /\ compressed_size_bytes' = compressed_size_bytes + new
       /\ overwritten' = overwritten + IF k \in DOMAIN M THEN old ELSE 0
       /\ sliceA' = sliceA /\ sliceB' = sliceB
  BY DEF StoreBitmap, slices
<1>11. DOMAIN M' = DOMAIN M \cup {k} /\ M'[k] = b /\ \A j \in DOMAIN M \ {k} : M'[j] = M[j]
  BY <1>1 DEF Put
<1>12. IsFiniteSet(DOMAIN M')
  <2>1. IsFiniteSet(DOMAIN M)
    BY DEF EnginesInv
  <2>2. QED
    BY <1>11, <2>1, FS_AddElement
<1>13. \A j \in DOMAIN M' : \E v \in Words : M'[j] = PubkeyBitmap(v)
  <2>1. \A j \in DOMAIN M \ {k} : \E v \in Words : M'[j] = PubkeyBitmap(v)
    BY <1>11 DEF EnginesInv
  <2>2. \E v \in Words : M'[k] = PubkeyBitmap(v)
    BY <1>11
  <2>3. QED
    BY <1>11, <2>1, <2>2
<1> HIDE DEF R, new, old
<1>14. compressed_size_bytes' = overwritten' + Cardinality(Kept(M')) /\ overwritten' \in Nat
  <2>1. CASE k \in DOMAIN M
    BY <1>2, <1>3, <1>4, <1>7, <1>8, <1>9, <1>10, <2>1
  <2>2. CASE k \notin DOMAIN M
    BY <1>2, <1>4, <1>5, <1>7, <1>8, <1>10, <2>2
  <2>3. QED
    BY <2>1, <2>2
<1>15. BytesCounted'
  BY <1>1, <1>14, KeptIs DEF BytesCounted
<1>16. IsFiniteSet(KeptBytes)'
  BY <1>8, KeptIs
<1>17. QED
  BY <1>10, <1>12, <1>13, <1>14, <1>15, <1>16 DEF EnginesInv

\* A bitmap is removed with its bytes, which were counted.
LEMMA RemovedCounted ==
  ASSUME EnginesInv, NEW k \in StoreKeys, RemoveBitmap(k)
  PROVE  EnginesInv'
<1> DEFINE M == stored_bitmaps
           R == Kept(Drop(M, k))
           old == compressed_size(M[k])
<1>1. k \in DOMAIN M /\ M' = Drop(M, k) /\ total_bitmaps' = Cardinality(DOMAIN M')
  BY DEF RemoveBitmap
<1>2. old \in Nat
  BY <1>1, WordCompressed DEF EnginesInv
<1>3. IsFiniteSet(Kept(M)) /\ compressed_size_bytes = overwritten + Cardinality(Kept(M)) /\ overwritten \in Nat
  BY KeptIs DEF EnginesInv, BytesCounted
<1>4. Kept(M) = R \cup BytesOf(k, old) /\ Kept(M') = R
  BY <1>1, KeptSplit
<1>5. IsFiniteSet(R)
  <2>1. R \subseteq Kept(M)
    BY <1>4
  <2> HIDE DEF R
  <2>2. QED
    BY <1>3, <2>1, FS_Subset
<1>6. Cardinality(R) \in Nat
  BY <1>5, FS_CardinalityType
<1>7. Cardinality(Kept(M)) = Cardinality(R) + old
  <2>1. Cardinality(R \cup BytesOf(k, old)) = Cardinality(R) + old
    BY <1>2, <1>5, KeptApart
  <2>2. QED
    BY <1>4, <2>1
<1>8. /\ compressed_size_bytes' = SaturatingSub(compressed_size_bytes, old)
      /\ overwritten' = overwritten /\ sliceA' = sliceA /\ sliceB' = sliceB
  BY DEF RemoveBitmap, slices
<1>9. DOMAIN M' = DOMAIN M \ {k} /\ \A j \in DOMAIN M' : M'[j] = M[j]
  BY <1>1 DEF Drop
<1>10. IsFiniteSet(DOMAIN M')
  <2>1. IsFiniteSet(DOMAIN M)
    BY DEF EnginesInv
  <2>2. QED
    BY <1>9, <2>1, FS_RemoveElement
<1>11. \A j \in DOMAIN M' : \E v \in Words : M'[j] = PubkeyBitmap(v)
  BY <1>9 DEF EnginesInv
<1> HIDE DEF R, old
<1>12. compressed_size_bytes' = overwritten' + Cardinality(Kept(M'))
  <2>1. compressed_size_bytes = overwritten + Cardinality(R) + old
    BY <1>2, <1>3, <1>6, <1>7
  <2>2. SaturatingSub(compressed_size_bytes, old) = overwritten + Cardinality(R)
    BY <1>2, <1>3, <1>6, <2>1 DEF SaturatingSub
  <2>3. QED
    BY <1>4, <1>8, <2>2
<1>13. BytesCounted'
  BY <1>1, <1>12, KeptIs DEF BytesCounted
<1>14. IsFiniteSet(KeptBytes)'
  BY <1>4, <1>5, KeptIs
<1>15. QED
  BY <1>3, <1>8, <1>10, <1>11, <1>13, <1>14 DEF EnginesInv

LEMMA EnginesInvStep == EnginesInv /\ [EnginesNext \/ StoreNext]_enginesState => EnginesInv'
<1> SUFFICES ASSUME EnginesInv, [EnginesNext \/ StoreNext]_enginesState
             PROVE  EnginesInv'
  OBVIOUS
<1>1. CASE EnginesNext
  <2>1. PICK w \in Words : \/ sliceA' = Append(sliceA, w) /\ UNCHANGED sliceB
                           \/ sliceB' = Append(sliceB, w) /\ UNCHANGED sliceA
    BY <1>1 DEF EnginesNext
  <2>2. sliceA' \in Slices /\ sliceB' \in Slices
    <3>1. sliceA \in Seq(Words) /\ sliceB \in Seq(Words)
      BY DEF EnginesInv, Slices
    <3>2. Append(sliceA, w) \in Seq(Words) /\ Append(sliceB, w) \in Seq(Words)
      BY <3>1, AppendProperties
    <3>3. QED
      BY <2>1, <3>1, <3>2 DEF Slices
  <2>3. UNCHANGED storeState
    BY <1>1 DEF EnginesNext
  <2>4. QED
    BY <2>2, <2>3 DEF EnginesInv, BytesCounted, KeptBytes, storeState
<1>2. CASE StoreNext
  <2>1. PICK k \in StoreKeys : RemoveBitmap(k) \/ \E w \in Words : StoreBitmap(k, PubkeyBitmap(w))
    BY <1>2 DEF StoreNext
  <2>2. QED
    BY <2>1, StoredCounted, RemovedCounted
<1>3. CASE UNCHANGED enginesState
  BY <1>3 DEF EnginesInv, BytesCounted, KeptBytes, enginesState, storeState, slices
<1>4. QED
  BY <1>1, <1>2, <1>3

\* For slices of words of any width and any length: the routines on bitmaps are the set
\* operations they are named for, those that unite slices if they are of one length; the
\* estimate of a query stays within its bounds however it is rounded; and the bitmap store
\* counts the bitmaps it keeps, and their bytes until it first replaces one.
THEOREM EnginesProved == EnginesSpec => []EnginesAgree
<1>1. EnginesInit => EnginesInv
  BY EnginesInvInit
<1>2. EnginesInv /\ [EnginesNext \/ StoreNext]_enginesState => EnginesInv'
  BY EnginesInvStep
<1>3. EnginesInv => EnginesAgree
  <2> SUFFICES ASSUME EnginesInv PROVE SlicesAgree /\ StoreCounts
    BY DEF EnginesAgree
  <2>1. Cardinality(KeptBytes) \in Nat /\ overwritten \in Nat
    BY FS_CardinalityType DEF EnginesInv
  <2>2. StoreCounts
    BY <2>1 DEF EnginesInv, BytesCounted, StoreCounts
  <2>3. QED
    BY <2>2, SlicesProved DEF EnginesInv
<1>4. QED
  BY <1>1, <1>2, <1>3, PTL DEF EnginesSpec

=============================================================================
