-------------------------- MODULE BaseLayerProofs --------------------------
(* The base layer for any accounts, files, contents and leaves: what the     *)
(* locator says of an account after a scan is the newest version scanned and *)
(* leads back to it, the ids of the two dictionaries agree, and the proof of *)
(* a Merkle leaf leads to the root and verifies for no other leaf.  The      *)
(* induction over numbers is that of BitmapEnginesProofs.                    *)
EXTENDS BaseScan, Merkle, BitmapEnginesProofs

----------------------------------------------------------------------------
(* The scan of a file.                                                       *)

Record == [pubkey : Pubkeys, slot : Nat, size : Nat, room : Nat \ {0}]
Account == [pubkey : Pubkeys, slot : Nat, location : Locations]

\* at[j] is where the record after the first j starts.
Starts(at, c) == at = [j \in 0 .. Len(c) |-> IF j = 0 THEN 0 ELSE at[j - 1] + c[j].room]

\* The records follow one another.
LEMMA Offsets ==
  ASSUME NEW c \in Seq(Record)
  PROVE  /\ \A i \in 1 .. Len(c) + 1 : Offset(c, i) \in Nat
         /\ \A i \in 1 .. Len(c) : Offset(c, i + 1) = Offset(c, i) + c[i].room
<1> DEFINE n == Len(c)
           step == [j \in 1 .. n |-> [x \in Nat |-> x + c[j].room]]
<1>1. n \in Nat /\ \A j \in 1 .. n : c[j].room \in Nat
  <2>1. n \in Nat /\ \A j \in 1 .. n : c[j] \in Record
    OBVIOUS
  <2>2. QED
    BY <2>1 DEF Record
<1>2. StaysIn(Nat, n, step)
  BY <1>1 DEF StaysIn
<1> HIDE DEF n
<1>3. PICK f : Made(f, n, Nat, 0, step)
  BY <1>1, <1>2, Recursion
<1>4. Starts(f, c)
  <2>1. ASSUME NEW j \in 0 .. n
        PROVE  f[j] = IF j = 0 THEN 0 ELSE f[j - 1] + c[j].room
    <3>1. CASE j = 0
      BY <1>3, <3>1 DEF Made
    <3>2. CASE j # 0
      <4>1. j \in 1 .. n /\ j - 1 \in 0 .. n
        BY <1>1, <3>2
      <4>2. f[j] = step[j][f[j - 1]] /\ f[j - 1] \in Nat
        BY <1>3, <4>1 DEF Made
      <4>3. QED
        BY <3>2, <4>1, <4>2
    <3>3. QED
      BY <3>1, <3>2
  <2>2. f \in [0 .. n -> Nat]
    BY <1>3 DEF Made
  <2>3. f = [j \in 0 .. n |-> IF j = 0 THEN 0 ELSE f[j - 1] + c[j].room]
    BY <2>1, <2>2
  <2>4. QED
    BY <2>3 DEF Starts, n
<1> DEFINE at == CHOOSE g : Starts(g, c)
<1>5. Starts(at, c) /\ \A i : Offset(c, i) = at[i - 1]
  BY <1>4 DEF Offset, Starts
<1> HIDE DEF at
<1>6. at = [j \in 0 .. n |-> IF j = 0 THEN 0 ELSE at[j - 1] + c[j].room]
  BY <1>5 DEF Starts, n
<1>7. at[0] = 0 /\ \A j \in 1 .. n : at[j - 1] \in Nat => at[j] = step[j][at[j - 1]]
  <2>1. \A j \in 1 .. n : j \in 0 .. n /\ j # 0
    OBVIOUS
  <2>2. 0 \in 0 .. n
    BY <1>1
  <2>3. QED
    BY <1>6, <2>1, <2>2
<1> HIDE DEF step
<1>8. \A j \in 0 .. n : at[j] \in Nat
  <2>1. at[0] \in Nat
    BY <1>7
  <2>2. QED
    BY <1>1, <1>2, <1>7, <2>1, Stays
<1>9. \A i \in 1 .. n + 1 : Offset(c, i) \in Nat
  BY <1>1, <1>5, <1>8
<1>10. ASSUME NEW i \in 1 .. n
       PROVE  Offset(c, i + 1) = Offset(c, i) + c[i].room
  <2>1. i \in 0 .. n /\ i # 0 /\ (i + 1) - 1 = i
    BY <1>1
  <2>2. at[i] = at[i - 1] + c[i].room
    BY <1>6, <2>1
  <2>3. QED
    BY <1>5, <2>1, <2>2
<1>11. QED
  BY <1>9, <1>10 DEF n

LEMMA OffsetNat ==
  ASSUME NEW c \in Seq(Record), NEW i \in 1 .. Len(c) + 1
  PROVE  Offset(c, i) \in Nat
BY Offsets

\* No two records start at one place.
LEMMA OffsetsDiffer ==
  ASSUME NEW c \in Seq(Record), NEW i \in 1 .. Len(c), NEW j \in 1 .. Len(c), i < j
  PROVE  Offset(c, i) < Offset(c, j)
<1> DEFINE n == Len(c)
           late == {k \in 1 .. n : i < k /\ ~ Offset(c, i) < Offset(c, k)}
<1>1. n \in Nat /\ \A k \in 1 .. n : c[k].room \in Nat \ {0}
  <2>1. n \in Nat /\ \A k \in 1 .. n : c[k] \in Record
    OBVIOUS
  <2>2. QED
    BY <2>1 DEF Record
<1>2. /\ \A k \in 1 .. n : Offset(c, k) \in Nat
      /\ \A k \in 1 .. n : Offset(c, k + 1) = Offset(c, k) + c[k].room
  BY <1>1, Offsets
<1>3. SUFFICES ASSUME late # {}
               PROVE  FALSE
  BY DEF late
<1>4. late \in SUBSET Nat
  BY <1>1
<1> HIDE DEF late
<1>5. PICK k \in late : \A m \in late : k <= m
  BY <1>3, <1>4, LeastNumber
<1>6. k \in 1 .. n /\ i < k /\ ~ Offset(c, i) < Offset(c, k)
  BY <1>5 DEF late
<1>7. k - 1 \in 1 .. n /\ (k - 1) + 1 = k /\ i <= k - 1 /\ k - 1 < k
  BY <1>1, <1>6
<1>8. Offset(c, k) = Offset(c, k - 1) + c[k - 1].room
  BY <1>2, <1>7
<1>9. k - 1 = i \/ Offset(c, i) < Offset(c, k - 1)
  <2>1. k - 1 \notin late
    BY <1>1, <1>5, <1>6, <1>7
  <2>2. QED
    BY <1>1, <1>7, <2>1 DEF late
<1>10. QED
  BY <1>1, <1>2, <1>6, <1>7, <1>8, <1>9


\* What scan_file() makes of the records of c that it takes.
Taken(file_id, c) ==
    {parse_account_record(file_id, Offset(c, i), c[i]) :
        i \in {j \in 1 .. Len(c) : Reached(c, j) /\ Parses(c[j])}}

\* g[k] is what was pushed for the first k records.
Pushes(g, file_id, c) ==
    g = [k \in 0 .. Len(c) |-> IF k = 0 THEN <<>> ELSE IF Reached(c, k) /\ Parses(c[k]) THEN Append(g[k - 1], parse_account_record(file_id, Offset(c, k), c[k])) ELSE g[k - 1]]

LEMMA ScannedTaken ==
  ASSUME NEW file_id, NEW c, Len(c) \in Nat
  PROVE  \E g : /\ Pushes(g, file_id, c)
                 /\ Scanned(file_id, c) = g[Len(c)]
                 /\ \A k \in 0 .. Len(c) : g[k] \in Seq(Taken(file_id, c))
<1> DEFINE n == Len(c)
           D == Seq(Taken(file_id, c))
           d == <<>>
           step == [k \in 1 .. n |-> [x \in D |-> IF Reached(c, k) /\ Parses(c[k]) THEN Append(x, parse_account_record(file_id, Offset(c, k), c[k])) ELSE x]]
<1>1. n \in Nat /\ d \in D
  BY SeqDef
<1>2. StaysIn(D, n, step)
  <2> SUFFICES ASSUME NEW k \in 1 .. n, NEW x \in D
               PROVE  step[k][x] \in D
    BY DEF StaysIn
  <2> DEFINE a == parse_account_record(file_id, Offset(c, k), c[k])
  <2>1. Reached(c, k) /\ Parses(c[k]) => a \in Taken(file_id, c)
    BY DEF Taken
  <2> HIDE DEF a
  <2>2. Reached(c, k) /\ Parses(c[k]) => Append(x, a) \in D
    BY <2>1, AppendProperties
  <2>3. step[k][x] = IF Reached(c, k) /\ Parses(c[k]) THEN Append(x, a) ELSE x
    BY DEF a
  <2> HIDE DEF step, D
  <2>4. QED
    BY <2>2, <2>3
<1> HIDE DEF n, D, d
<1>3. PICK f : Made(f, n, D, d, step)
  <2> HIDE DEF step
  <2>1. QED
    BY <1>1, <1>2, Recursion
<1>4. Pushes(f, file_id, c)
  <2>1. ASSUME NEW k \in 0 .. n
        PROVE  f[k] = IF k = 0 THEN d ELSE IF Reached(c, k) /\ Parses(c[k]) THEN Append(f[k - 1], parse_account_record(file_id, Offset(c, k), c[k])) ELSE f[k - 1]
    <3>1. CASE k = 0
      BY <1>3, <3>1 DEF Made
    <3>2. CASE k # 0
      <4>1. k \in 1 .. n /\ k - 1 \in 0 .. n
        BY <1>1, <3>2
      <4>2. f[k] = step[k][f[k - 1]] /\ f[k - 1] \in D
        BY <1>3, <4>1 DEF Made
      <4>3. step[k][f[k - 1]] = IF Reached(c, k) /\ Parses(c[k]) THEN Append(f[k - 1], parse_account_record(file_id, Offset(c, k), c[k])) ELSE f[k - 1]
        BY <4>1, <4>2
      <4> HIDE DEF step
      <4>4. QED
        BY <3>2, <4>2, <4>3
    <3>3. QED
      BY <3>1, <3>2
  <2> HIDE DEF step
  <2>2. f \in [0 .. n -> D]
    BY <1>3 DEF Made
  <2>3. f = [k \in 0 .. n |-> f[k]]
    BY <2>2
  <2>4. f = [k \in 0 .. n |-> IF k = 0 THEN d ELSE IF Reached(c, k) /\ Parses(c[k]) THEN Append(f[k - 1], parse_account_record(file_id, Offset(c, k), c[k])) ELSE f[k - 1]]
    BY <2>1, <2>3, Zenon
  <2>5. QED
    BY <2>4 DEF Pushes, n, d
<1> DEFINE g == CHOOSE h : Pushes(h, file_id, c)
<1>5. Pushes(g, file_id, c) /\ Scanned(file_id, c) = g[n]
  <2>1. Scanned(file_id, c) = g[n]
    BY DEF Scanned, Pushes, n
  <2>2. QED
    BY <1>4, <2>1
<1> HIDE DEF g
<1>6. g = [k \in 0 .. n |-> IF k = 0 THEN d ELSE IF Reached(c, k) /\ Parses(c[k]) THEN Append(g[k - 1], parse_account_record(file_id, Offset(c, k), c[k])) ELSE g[k - 1]]
  BY <1>5 DEF Pushes, n, d
<1>7. g[0] = d /\ \A k \in 1 .. n : g[k - 1] \in D => g[k] = step[k][g[k - 1]]
  <2>1. 0 \in 0 .. n
    BY <1>1
  <2>2. g[0] = d
    BY <1>6, <2>1
  <2>3. ASSUME NEW k \in 1 .. n, g[k - 1] \in D
        PROVE  g[k] = step[k][g[k - 1]]
    <3>1. k \in 0 .. n /\ k # 0
      OBVIOUS
    <3>2. g[k] = IF Reached(c, k) /\ Parses(c[k]) THEN Append(g[k - 1], parse_account_record(file_id, Offset(c, k), c[k])) ELSE g[k - 1]
      BY <1>6, <3>1
    <3>3. step[k][g[k - 1]] = IF Reached(c, k) /\ Parses(c[k]) THEN Append(g[k - 1], parse_account_record(file_id, Offset(c, k), c[k])) ELSE g[k - 1]
      BY <2>3
    <3> HIDE DEF step
    <3>4. QED
      BY <3>2, <3>3
  <2>4. QED
    BY <2>2, <2>3
<1> HIDE DEF step
<1>8. \A k \in 0 .. n : g[k] \in D
  BY <1>1, <1>2, <1>7, Stays
<1>9. QED
  BY <1>5, <1>8 DEF n, D


----------------------------------------------------------------------------
(* What the locator and the dictionary are built to.                         *)

Bytes == {NoBytes} \cup {serialize_location(l) : l \in Locations}
Partial == UNION {[S -> Locations] : S \in SUBSET Pubkeys}

\* g[k] is the map of the first k accounts.
Builds(g, batch) ==
    g = [k \in 0 .. Len(batch) |-> IF k = 0 THEN EmptyMap ELSE Put(g[k - 1], batch[k].pubkey, batch[k].location)]

LEMMA BuiltSteps ==
  ASSUME NEW batch \in Seq(Account)
  PROVE  \E g : /\ Builds(g, batch)
                 /\ build_base_locator(batch) = g[Len(batch)]
                 /\ \A k \in 0 .. Len(batch) : g[k] \in Partial
<1> DEFINE n == Len(batch)
           D == Partial
           d == EmptyMap
           step == [k \in 1 .. n |-> [x \in D |-> Put(x, batch[k].pubkey, batch[k].location)]]
<1>1. n \in Nat /\ d \in D
  <2>1. EmptyMap \in [{} -> Locations] /\ {} \in SUBSET Pubkeys
    BY DEF EmptyMap
  <2>2. EmptyMap \in Partial
    BY <2>1, Zenon DEF Partial
  <2>3. n \in Nat
    OBVIOUS
  <2>4. QED
    BY <2>2, <2>3
<1>2. StaysIn(D, n, step)
  <2> SUFFICES ASSUME NEW k \in 1 .. n, NEW x \in D
               PROVE  step[k][x] \in D
    BY DEF StaysIn
  <2>1. batch[k].pubkey \in Pubkeys /\ batch[k].location \in Locations
    <3>1. batch[k] \in Account
      OBVIOUS
    <3>2. QED
      BY <3>1 DEF Account
  <2>2. step[k][x] = Put(x, batch[k].pubkey, batch[k].location)
    OBVIOUS
  <2> HIDE DEF step
  <2>3. PICK S \in SUBSET Pubkeys : x \in [S -> Locations]
    BY DEF Partial
  <2>4. /\ Put(x, batch[k].pubkey, batch[k].location) \in [S \cup {batch[k].pubkey} -> Locations]
        /\ S \cup {batch[k].pubkey} \in SUBSET Pubkeys
    BY <2>1, <2>3 DEF Put
  <2>5. QED
    BY <2>2, <2>4 DEF Partial
<1> HIDE DEF n, D, d
<1>3. PICK f : Made(f, n, D, d, step)
  <2> HIDE DEF step
  <2>1. QED
    BY <1>1, <1>2, Recursion
<1>4. Builds(f, batch)
  <2>1. ASSUME NEW k \in 0 .. n
        PROVE  f[k] = IF k = 0 THEN d ELSE Put(f[k - 1], batch[k].pubkey, batch[k].location)
    <3>1. CASE k = 0
      BY <1>3, <3>1 DEF Made
    <3>2. CASE k # 0
      <4>1. k \in 1 .. n /\ k - 1 \in 0 .. n
        BY <1>1, <3>2
      <4>2. f[k] = step[k][f[k - 1]] /\ f[k - 1] \in D
        BY <1>3, <4>1 DEF Made
      <4>3. step[k][f[k - 1]] = Put(f[k - 1], batch[k].pubkey, batch[k].location)
        BY <4>1, <4>2
      <4> HIDE DEF step
      <4>4. QED
        BY <3>2, <4>2, <4>3
    <3>3. QED
      BY <3>1, <3>2
  <2> HIDE DEF step
  <2>2. f \in [0 .. n -> D]
    BY <1>3 DEF Made
  <2>3. f = [k \in 0 .. n |-> f[k]]
    BY <2>2
  <2>4. f = [k \in 0 .. n |-> IF k = 0 THEN d ELSE Put(f[k - 1], batch[k].pubkey, batch[k].location)]
    BY <2>1, <2>3, Zenon
  <2>5. QED
    BY <2>4 DEF Builds, n, d
<1> DEFINE g == CHOOSE h : Builds(h, batch)
<1>5. Builds(g, batch) /\ build_base_locator(batch) = g[n]
  <2>1. build_base_locator(batch) = g[n]
    BY DEF build_base_locator, Builds, n
  <2>2. QED
    BY <1>4, <2>1
<1> HIDE DEF g
<1>6. g = [k \in 0 .. n |-> IF k = 0 THEN d ELSE Put(g[k - 1], batch[k].pubkey, batch[k].location)]
  BY <1>5 DEF Builds, n, d
<1>7. g[0] = d /\ \A k \in 1 .. n : g[k - 1] \in D => g[k] = step[k][g[k - 1]]
  <2>1. 0 \in 0 .. n
    BY <1>1
  <2>2. g[0] = d
    BY <1>6, <2>1
  <2>3. ASSUME NEW k \in 1 .. n, g[k - 1] \in D
        PROVE  g[k] = step[k][g[k - 1]]
    <3>1. k \in 0 .. n /\ k # 0
      OBVIOUS
    <3>2. g[k] = Put(g[k - 1], batch[k].pubkey, batch[k].location)
      BY <1>6, <3>1
    <3>3. step[k][g[k - 1]] = Put(g[k - 1], batch[k].pubkey, batch[k].location)
      BY <2>3
    <3> HIDE DEF step
    <3>4. QED
      BY <3>2, <3>3
  <2>4. QED
    BY <2>2, <2>3
<1> HIDE DEF step
<1>8. \A k \in 0 .. n : g[k] \in D
  BY <1>1, <1>2, <1>7, Stays
<1>9. QED
  BY <1>5, <1>8 DEF n, D

\* g[k] is the locator after the first k inserts.
Inserts(g, batch, ok) ==
    g = [k \in 0 .. Len(batch) |-> IF k = 0 THEN locator ELSE IF k \in ok THEN [g[k - 1] EXCEPT ![batch[k].pubkey] = serialize_location(batch[k].location)] ELSE g[k - 1]]

LEMMA LocatedSteps ==
  ASSUME NEW batch \in Seq(Account), NEW ok, locator \in [Pubkeys -> Bytes]
  PROVE  \E g : /\ Inserts(g, batch, ok)
                 /\ Located(batch, ok) = g[Len(batch)]
                 /\ \A k \in 0 .. Len(batch) : g[k] \in [Pubkeys -> Bytes]
<1> DEFINE n == Len(batch)
           D == [Pubkeys -> Bytes]
           d == locator
           step == [k \in 1 .. n |-> [x \in D |-> IF k \in ok THEN [x EXCEPT ![batch[k].pubkey] = serialize_location(batch[k].location)] ELSE x]]
<1>1. n \in Nat /\ d \in D
  OBVIOUS
<1>2. StaysIn(D, n, step)
  <2> SUFFICES ASSUME NEW k \in 1 .. n, NEW x \in D
               PROVE  step[k][x] \in D
    BY DEF StaysIn
  <2>1. serialize_location(batch[k].location) \in Bytes
    <3>1. batch[k] \in Account
      OBVIOUS
    <3>2. QED
      BY <3>1 DEF Account, Bytes
  <2>2. QED
    BY <2>1
<1> HIDE DEF n, D, d
<1>3. PICK f : Made(f, n, D, d, step)
  <2> HIDE DEF step
  <2>1. QED
    BY <1>1, <1>2, Recursion
<1>4. Inserts(f, batch, ok)
  <2>1. ASSUME NEW k \in 0 .. n
        PROVE  f[k] = IF k = 0 THEN d ELSE IF k \in ok THEN [f[k - 1] EXCEPT ![batch[k].pubkey] = serialize_location(batch[k].location)] ELSE f[k - 1]
    <3>1. CASE k = 0
      BY <1>3, <3>1 DEF Made
    <3>2. CASE k # 0
      <4>1. k \in 1 .. n /\ k - 1 \in 0 .. n
        BY <1>1, <3>2
      <4>2. f[k] = step[k][f[k - 1]] /\ f[k - 1] \in D
        BY <1>3, <4>1 DEF Made
      <4>3. step[k][f[k - 1]] = IF k \in ok THEN [f[k - 1] EXCEPT ![batch[k].pubkey] = serialize_location(batch[k].location)] ELSE f[k - 1]
        BY <4>1, <4>2
      <4> HIDE DEF step
      <4>4. QED
        BY <3>2, <4>2, <4>3
    <3>3. QED
      BY <3>1, <3>2
  <2> HIDE DEF step
  <2>2. f \in [0 .. n -> D]
    BY <1>3 DEF Made
  <2>3. f = [k \in 0 .. n |-> f[k]]
    BY <2>2
  <2>4. f = [k \in 0 .. n |-> IF k = 0 THEN d ELSE IF k \in ok THEN [f[k - 1] EXCEPT ![batch[k].pubkey] = serialize_location(batch[k].location)] ELSE f[k - 1]]
    BY <2>1, <2>3, Zenon
  <2>5. QED
    BY <2>4 DEF Inserts, n, d
<1> DEFINE g == CHOOSE h : Inserts(h, batch, ok)
<1>5. Inserts(g, batch, ok) /\ Located(batch, ok) = g[n]
  <2>1. Located(batch, ok) = g[n]
    BY DEF Located, Inserts, n
  <2>2. QED
    BY <1>4, <2>1
<1> HIDE DEF g
<1>6. g = [k \in 0 .. n |-> IF k = 0 THEN d ELSE IF k \in ok THEN [g[k - 1] EXCEPT ![batch[k].pubkey] = serialize_location(batch[k].location)] ELSE g[k - 1]]
  BY <1>5 DEF Inserts, n, d
<1>7. g[0] = d /\ \A k \in 1 .. n : g[k - 1] \in D => g[k] = step[k][g[k - 1]]
  <2>1. 0 \in 0 .. n
    BY <1>1
  <2>2. g[0] = d
    BY <1>6, <2>1
  <2>3. ASSUME NEW k \in 1 .. n, g[k - 1] \in D
        PROVE  g[k] = step[k][g[k - 1]]
    <3>1. k \in 0 .. n /\ k # 0
      OBVIOUS
    <3>2. g[k] = IF k \in ok THEN [g[k - 1] EXCEPT ![batch[k].pubkey] = serialize_location(batch[k].location)] ELSE g[k - 1]
      BY <1>6, <3>1
    <3>3. step[k][g[k - 1]] = IF k \in ok THEN [g[k - 1] EXCEPT ![batch[k].pubkey] = serialize_location(batch[k].location)] ELSE g[k - 1]
      BY <2>3
    <3> HIDE DEF step
    <3>4. QED
      BY <3>2, <3>3
  <2>4. QED
    BY <2>2, <2>3
<1> HIDE DEF step
<1>8. \A k \in 0 .. n : g[k] \in D
  BY <1>1, <1>2, <1>7, Stays
<1>9. QED
  BY <1>5, <1>8 DEF n, D


Ids == {NoId} \cup Nat
Known(cache) == {q \in Pubkeys : cache[q] # NoId}
Caches == {cache \in [Pubkeys -> Ids] : IsFiniteSet(Known(cache))}

\* PubkeyDictionary::insert() gives a new pubkey the number of those there are.
LEMMA CacheInserted ==
  ASSUME NEW cache \in Caches, NEW p \in Pubkeys
  PROVE  /\ CacheInsert(cache, p) \in Caches
         /\ Known(CacheInsert(cache, p)) = Known(cache) \cup {p}
         /\ Cardinality(Known(cache)) \in Nat
         /\ cache[p] # NoId => CacheInsert(cache, p) = cache
         /\ cache[p] = NoId =>
               /\ CacheInsert(cache, p) = [cache EXCEPT ![p] = Cardinality(Known(cache))]
               /\ Cardinality(Known(CacheInsert(cache, p))) = Cardinality(Known(cache)) + 1
<1> DEFINE x == Cardinality(Known(cache))
<1>1. cache \in [Pubkeys -> Ids] /\ IsFiniteSet(Known(cache))
  BY DEF Caches
<1>2. x \in Nat
  BY <1>1, FS_CardinalityType
<1>3. CacheInsert(cache, p) = IF cache[p] # NoId THEN cache ELSE [cache EXCEPT ![p] = x]
  BY DEF CacheInsert, Known
<1> HIDE DEF x
<1>4. CASE cache[p] # NoId
  <2>1. Known(cache) = Known(cache) \cup {p}
    BY <1>4 DEF Known
  <2>2. QED
    BY <1>2, <1>3, <1>4, <2>1 DEF x
<1>5. CASE cache[p] = NoId
  <2> DEFINE new == [cache EXCEPT ![p] = x]
  <2>1. new \in [Pubkeys -> Ids]
    BY <1>1, <1>2 DEF Ids
  <2>2. Known(new) = Known(cache) \cup {p} /\ p \notin Known(cache)
    BY <1>1, <1>2, <1>5 DEF Known, NoId, Ids
  <2>3. IsFiniteSet(Known(cache) \cup {p}) /\ Cardinality(Known(cache) \cup {p}) = x + 1
    BY <1>1, <2>2, FS_AddElement DEF x
  <2>4. CacheInsert(cache, p) = new
    BY <1>3, <1>5
  <2> HIDE DEF new
  <2>5. new \in Caches
    BY <2>1, <2>2, <2>3 DEF Caches
  <2>6. QED
    BY <1>2, <1>5, <2>2, <2>3, <2>4, <2>5 DEF x, new
<1>6. QED
  BY <1>4, <1>5

LEMMA EmptyCache == EmptyDictionary.cache \in Caches /\ Known(EmptyDictionary.cache) = {}
<1> DEFINE e == EmptyDictionary.cache
<1>1. e = [p \in Pubkeys |-> NoId]
  BY DEF EmptyDictionary
<1> HIDE DEF e
<1>2. e \in [Pubkeys -> Ids] /\ Known(e) = {}
  BY <1>1 DEF Ids, Known
<1>3. IsFiniteSet(Known(e))
  BY <1>2, FS_EmptySet
<1>4. QED
  BY <1>2, <1>3 DEF Caches, e

\* g[k] is the in-memory dictionary after the first k accounts.
Collects(g, batch) ==
    g = [k \in 0 .. Len(batch) |-> IF k = 0 THEN EmptyDictionary.cache ELSE CacheInsert(g[k - 1], batch[k].pubkey)]

LEMMA DictSteps ==
  ASSUME NEW batch \in Seq(Account)
  PROVE  \E g : /\ Collects(g, batch)
                 /\ build_pubkey_dictionary(batch) = g[Len(batch)]
                 /\ \A k \in 0 .. Len(batch) : g[k] \in Caches
<1> DEFINE n == Len(batch)
           D == Caches
           d == EmptyDictionary.cache
           step == [k \in 1 .. n |-> [x \in D |-> CacheInsert(x, batch[k].pubkey)]]
<1>1. n \in Nat /\ d \in D
  BY EmptyCache
<1>2. StaysIn(D, n, step)
  <2> SUFFICES ASSUME NEW k \in 1 .. n, NEW x \in D
               PROVE  step[k][x] \in D
    BY DEF StaysIn
  <2>1. batch[k].pubkey \in Pubkeys
    <3>1. batch[k] \in Account
      OBVIOUS
    <3>2. QED
      BY <3>1 DEF Account
  <2>2. CacheInsert(x, batch[k].pubkey) \in Caches
    BY <2>1, CacheInserted
  <2>3. step[k][x] = CacheInsert(x, batch[k].pubkey)
    OBVIOUS
  <2> HIDE DEF step
  <2>4. QED
    BY <2>2, <2>3
<1> HIDE DEF n, D, d
<1>3. PICK f : Made(f, n, D, d, step)
  <2> HIDE DEF step
  <2>1. QED
    BY <1>1, <1>2, Recursion
<1>4. Collects(f, batch)
  <2>1. ASSUME NEW k \in 0 .. n
        PROVE  f[k] = IF k = 0 THEN d ELSE CacheInsert(f[k - 1], batch[k].pubkey)
    <3>1. CASE k = 0
      BY <1>3, <3>1 DEF Made
    <3>2. CASE k # 0
      <4>1. k \in 1 .. n /\ k - 1 \in 0 .. n
        BY <1>1, <3>2
      <4>2. f[k] = step[k][f[k - 1]] /\ f[k - 1] \in D
        BY <1>3, <4>1 DEF Made
      <4>3. step[k][f[k - 1]] = CacheInsert(f[k - 1], batch[k].pubkey)
        BY <4>1, <4>2
      <4> HIDE DEF step
      <4>4. QED
        BY <3>2, <4>2, <4>3
    <3>3. QED
      BY <3>1, <3>2
  <2> HIDE DEF step
  <2>2. f \in [0 .. n -> D]
    BY <1>3 DEF Made
  <2>3. f = [k \in 0 .. n |-> f[k]]
    BY <2>2
  <2>4. f = [k \in 0 .. n |-> IF k = 0 THEN d ELSE CacheInsert(f[k - 1], batch[k].pubkey)]
    BY <2>1, <2>3, Zenon
  <2>5. QED
    BY <2>4 DEF Collects, n, d
<1> DEFINE g == CHOOSE h : Collects(h, batch)
<1>5. Collects(g, batch) /\ build_pubkey_dictionary(batch) = g[n]
  <2>1. build_pubkey_dictionary(batch) = g[n]
    BY DEF build_pubkey_dictionary, Collects, n
  <2>2. QED
    BY <1>4, <2>1
<1> HIDE DEF g
<1>6. g = [k \in 0 .. n |-> IF k = 0 THEN d ELSE CacheInsert(g[k - 1], batch[k].pubkey)]
  BY <1>5 DEF Collects, n, d
<1>7. g[0] = d /\ \A k \in 1 .. n : g[k - 1] \in D => g[k] = step[k][g[k - 1]]
  <2>1. 0 \in 0 .. n
    BY <1>1
  <2>2. g[0] = d
    BY <1>6, <2>1
  <2>3. ASSUME NEW k \in 1 .. n, g[k - 1] \in D
        PROVE  g[k] = step[k][g[k - 1]]
    <3>1. k \in 0 .. n /\ k # 0
      OBVIOUS
    <3>2. g[k] = CacheInsert(g[k - 1], batch[k].pubkey)
      BY <1>6, <3>1
    <3>3. step[k][g[k - 1]] = CacheInsert(g[k - 1], batch[k].pubkey)
      BY <2>3
    <3> HIDE DEF step
    <3>4. QED
      BY <3>2, <3>3
  <2>4. QED
    BY <2>2, <2>3
<1> HIDE DEF step
<1>8. \A k \in 0 .. n : g[k] \in D
  BY <1>1, <1>2, <1>7, Stays
<1>9. QED
  BY <1>5, <1>8 DEF n, D


Dictionaries == [cache : Caches, table : [Pubkeys -> Ids], next : Nat]

\* g[k] is the dictionary after the first k accounts.
Assigns(g, batch, ok) ==
    g = [k \in 0 .. Len(batch) |-> IF k = 0 THEN [cache |-> memory_cache, table |-> table, next |-> next_dict_id] ELSE Assign(g[k - 1], batch[k].pubkey, k \in ok)]

LEMMA AssignedSteps ==
  ASSUME NEW batch \in Seq(Account), NEW ok, memory_cache \in Caches, table \in [Pubkeys -> Ids],
         next_dict_id \in Nat
  PROVE  \E g : /\ Assigns(g, batch, ok)
                 /\ Assigned(batch, ok) = g[Len(batch)]
                 /\ \A k \in 0 .. Len(batch) : g[k] \in Dictionaries
<1> DEFINE n == Len(batch)
           D == Dictionaries
           d == [cache |-> memory_cache, table |-> table, next |-> next_dict_id]
           step == [k \in 1 .. n |-> [x \in D |-> Assign(x, batch[k].pubkey, k \in ok)]]
<1>1. n \in Nat /\ d \in D
  BY DEF Dictionaries
<1>2. StaysIn(D, n, step)
  <2> SUFFICES ASSUME NEW k \in 1 .. n, NEW x \in D
               PROVE  step[k][x] \in D
    BY DEF StaysIn
  <2>1. batch[k].pubkey \in Pubkeys
    <3>1. batch[k] \in Account
      OBVIOUS
    <3>2. QED
      BY <3>1 DEF Account
  <2> DEFINE p == batch[k].pubkey
  <2>2. x.cache \in Caches /\ x.table \in [Pubkeys -> Ids] /\ x.next \in Nat
    BY DEF Dictionaries
  <2>3. step[k][x] = Assign(x, p, k \in ok)
    OBVIOUS
  <2> HIDE DEF step, p
  <2>4. p \in Pubkeys
    BY <2>1 DEF p
  <2>5. CacheInsert(x.cache, p) \in Caches
    BY <2>2, <2>4, CacheInserted
  <2>6. x.next \in Ids /\ x.next + 1 \in Nat
    BY <2>2 DEF Ids
  <2>7. Assign(x, p, k \in ok) \in D
    BY <2>2, <2>4, <2>5, <2>6 DEF Assign, Dictionaries
  <2>8. QED
    BY <2>3, <2>7
<1> HIDE DEF n, D, d
<1>3. PICK f : Made(f, n, D, d, step)
  <2> HIDE DEF step
  <2>1. QED
    BY <1>1, <1>2, Recursion
<1>4. Assigns(f, batch, ok)
  <2>1. ASSUME NEW k \in 0 .. n
        PROVE  f[k] = IF k = 0 THEN d ELSE Assign(f[k - 1], batch[k].pubkey, k \in ok)
    <3>1. CASE k = 0
      BY <1>3, <3>1 DEF Made
    <3>2. CASE k # 0
      <4>1. k \in 1 .. n /\ k - 1 \in 0 .. n
        BY <1>1, <3>2
      <4>2. f[k] = step[k][f[k - 1]] /\ f[k - 1] \in D
        BY <1>3, <4>1 DEF Made
      <4>3. step[k][f[k - 1]] = Assign(f[k - 1], batch[k].pubkey, k \in ok)
        BY <4>1, <4>2
      <4> HIDE DEF step
      <4>4. QED
        BY <3>2, <4>2, <4>3
    <3>3. QED
      BY <3>1, <3>2
  <2> HIDE DEF step
  <2>2. f \in [0 .. n -> D]
    BY <1>3 DEF Made
  <2>3. f = [k \in 0 .. n |-> f[k]]
    BY <2>2
  <2>4. f = [k \in 0 .. n |-> IF k = 0 THEN d ELSE Assign(f[k - 1], batch[k].pubkey, k \in ok)]
    BY <2>1, <2>3, Zenon
  <2>5. QED
    BY <2>4 DEF Assigns, n, d
<1> DEFINE g == CHOOSE h : Assigns(h, batch, ok)
<1>5. Assigns(g, batch, ok) /\ Assigned(batch, ok) = g[n]
  <2>1. Assigned(batch, ok) = g[n]
    BY DEF Assigned, Assigns, n
  <2>2. QED
    BY <1>4, <2>1
<1> HIDE DEF g
<1>6. g = [k \in 0 .. n |-> IF k = 0 THEN d ELSE Assign(g[k - 1], batch[k].pubkey, k \in ok)]
  BY <1>5 DEF Assigns, n, d
<1>7. g[0] = d /\ \A k \in 1 .. n : g[k - 1] \in D => g[k] = step[k][g[k - 1]]
  <2>1. 0 \in 0 .. n
    BY <1>1
  <2>2. g[0] = d
    BY <1>6, <2>1
  <2>3. ASSUME NEW k \in 1 .. n, g[k - 1] \in D
        PROVE  g[k] = step[k][g[k - 1]]
    <3>1. k \in 0 .. n /\ k # 0
      OBVIOUS
    <3>2. g[k] = Assign(g[k - 1], batch[k].pubkey, k \in ok)
      BY <1>6, <3>1
    <3>3. step[k][g[k - 1]] = Assign(g[k - 1], batch[k].pubkey, k \in ok)
      BY <2>3
    <3> HIDE DEF step
    <3>4. QED
      BY <3>2, <3>3
  <2>4. QED
    BY <2>2, <2>3
<1> HIDE DEF step
<1>8. \A k \in 0 .. n : g[k] \in D
  BY <1>1, <1>2, <1>7, Stays
<1>9. QED
  BY <1>5, <1>8 DEF n, D

----------------------------------------------------------------------------
(* The accounts of the files in the order of the listing.                    *)

\* batch[j] is the last account of pubkey p in the batch, and l its location.
LastAt(batch, p, j) ==
    /\ j \in 1 .. Len(batch) /\ batch[j].pubkey = p
    /\ \A i \in j + 1 .. Len(batch) : batch[i].pubkey # p

\* flat[k] is what the first k sequences make when put together.
Joins(flat, seqs) ==
    flat = [i \in 1 .. Len(seqs) |-> IF i = 1 THEN seqs[i] ELSE flat[i - 1] \o seqs[i]]

\* The accounts of the first k sequences, from none on.
Joined(g, seqs, D) ==
    /\ g \in [0 .. Len(seqs) -> Seq(D)]
    /\ g[0] = <<>>
    /\ \A k \in 1 .. Len(seqs) : g[k] = g[k - 1] \o seqs[k]

LEMMA FlattenJoins ==
  ASSUME NEW D, NEW n \in Nat, NEW seqs \in [1 .. n -> Seq(D)]
  PROVE  \E g : Joined(g, seqs, D) /\ FlattenSeq(seqs) = g[n]
<1> DEFINE step == [k \in 1 .. n |-> [x \in Seq(D) |-> x \o seqs[k]]]
<1>1. seqs \in Seq(Seq(D)) /\ Len(seqs) = n
  <2>1. seqs \in Seq(Seq(D))
    BY SeqDef
  <2>2. QED
    BY <2>1, LenProperties
<1>2. StaysIn(Seq(D), n, step)
  BY DEF StaysIn
<1>3. <<>> \in Seq(D)
  OBVIOUS
<1>4. PICK f : Made(f, n, Seq(D), <<>>, step)
  <2> HIDE DEF step
  <2>1. QED
    BY <1>2, <1>3, Recursion
<1>5. f \in [0 .. n -> Seq(D)] /\ f[0] = <<>>
  BY <1>4 DEF Made
<1>6. ASSUME NEW k \in 1 .. n
      PROVE  f[k] = f[k - 1] \o seqs[k]
  <2>1. f[k] = step[k][f[k - 1]] /\ f[k - 1] \in Seq(D)
    <3> HIDE DEF step
    <3>1. k - 1 \in 0 .. n
      OBVIOUS
    <3>2. QED
      BY <1>4, <1>5, <3>1 DEF Made
  <2>2. step[k][f[k - 1]] = f[k - 1] \o seqs[k]
    BY <2>1
  <2> HIDE DEF step
  <2>3. QED
    BY <2>1, <2>2
<1> HIDE DEF step
<1>7. Joined(f, seqs, D)
  BY <1>1, <1>5, <1>6 DEF Joined
<1>8. CASE n = 0
  <2>1. seqs = <<>>
    BY <1>1, <1>8, EmptySeq
  <2>2. FlattenSeq(seqs) = f[n]
    BY <1>1, <1>5, <1>8, <2>1 DEF FlattenSeq
  <2>3. QED
    BY <1>7, <2>2
<1>9. CASE n # 0
  <2> DEFINE h == [i \in 1 .. n |-> f[i]]
  <2>1. ASSUME NEW i \in 1 .. n
        PROVE  h[i] = IF i = 1 THEN seqs[i] ELSE h[i - 1] \o seqs[i]
    <3>1. CASE i = 1
      <4>1. f[1] = <<>> \o seqs[1] /\ seqs[1] \in Seq(D) /\ 1 \in 1 .. n
        <5>1. 1 \in 1 .. n /\ 1 - 1 = 0
          BY <3>1
        <5>2. f[1] = f[1 - 1] \o seqs[1]
          BY <1>6, <5>1
        <5>3. QED
          BY <1>5, <5>1, <5>2
      <4>2. f[1] = seqs[1]
        BY <4>1
      <4>3. QED
        BY <3>1, <4>1, <4>2
    <3>2. CASE i # 1
      <4>1. i - 1 \in 1 .. n
        BY <3>2
      <4>2. QED
        BY <1>6, <3>2, <4>1
    <3>3. QED
      BY <3>1, <3>2
  <2>2. DOMAIN h = 1 .. n /\ h = [i \in 1 .. n |-> h[i]]
    OBVIOUS
  <2> HIDE DEF h
  <2>3. h = [i \in 1 .. n |-> IF i = 1 THEN seqs[i] ELSE h[i - 1] \o seqs[i]]
    BY <2>1, <2>2, Zenon
  <2>4. Joins(h, seqs)
    BY <1>1, <2>3 DEF Joins
  <2> DEFINE e == CHOOSE flat : Joins(flat, seqs)
  <2>5. Joins(e, seqs) /\ FlattenSeq(seqs) = e[n]
    <3>1. Len(seqs) # 0
      BY <1>1, <1>9
    <3>2. FlattenSeq(seqs) = e[Len(seqs)]
      BY <3>1 DEF FlattenSeq, Joins
    <3>3. QED
      BY <1>1, <2>4, <3>2
  <2> HIDE DEF e
  <2> DEFINE g == [k \in 0 .. n |-> IF k = 0 THEN <<>> ELSE e[k]]
  <2>6. e = [i \in 1 .. n |-> IF i = 1 THEN seqs[i] ELSE e[i - 1] \o seqs[i]]
    BY <1>1, <2>5 DEF Joins
  <2>7. \A k \in 0 .. n : g[k] = f[k]
    <3> DEFINE S == {k \in 0 .. n : g[k] = f[k]}
    <3>1. 0 \in S
      BY <1>5
    <3>2. ASSUME NEW k \in 0 .. n - 1, k \in S
          PROVE  k + 1 \in S
      <4>1. k + 1 \in 1 .. n /\ k + 1 \in 0 .. n /\ (k + 1) - 1 = k /\ g[k] = f[k]
        BY <3>2
      <4>2. f[k + 1] = f[k] \o seqs[k + 1] /\ seqs[k + 1] \in Seq(D)
        BY <1>6, <4>1
      <4>3. g[k + 1] = e[k + 1]
        BY <4>1
      <4>4. CASE k = 0
        <5>1. k + 1 = 1 /\ 1 \in 1 .. n
          BY <4>1, <4>4
        <5>2. e[1] = seqs[1]
          BY <2>6, <5>1
        <5>3. seqs[1] \in Seq(D) /\ f[1] = <<>> \o seqs[1]
          BY <1>5, <4>2, <4>4, <5>1
        <5>4. f[1] = seqs[1]
          BY <5>3
        <5>5. g[k + 1] = f[k + 1]
          BY <4>3, <5>1, <5>2, <5>4
        <5>6. QED
          BY <4>1, <5>5
      <4>5. CASE k # 0
        <5>1. k \in 1 .. n /\ k + 1 # 1
          BY <4>5
        <5>2. e[k + 1] = e[k] \o seqs[k + 1]
          BY <2>6, <4>1, <5>1
        <5>3. e[k] = f[k]
          BY <4>1, <4>5
        <5>4. QED
          BY <4>1, <4>2, <4>3, <5>2, <5>3
      <4>6. QED
        BY <4>4, <4>5
    <3> HIDE DEF S
    <3>3. 0 .. n \subseteq S
      BY <3>1, <3>2, UpTo
    <3>4. QED
      BY <3>3 DEF S
  <2>8. FlattenSeq(seqs) = f[n]
    <3>1. n \in 0 .. n /\ g[n] = e[n]
      BY <1>9
    <3>2. QED
      BY <2>5, <2>7, <3>1
  <2>9. QED
    BY <1>7, <2>8
<1>10. QED
  BY <1>8, <1>9

\* An account of the batch.
LEMMA BatchAccount ==
  ASSUME NEW batch \in Seq(Account), NEW k \in 1 .. Len(batch)
  PROVE  batch[k].pubkey \in Pubkeys /\ batch[k].location \in Locations
<1>1. batch[k] \in Account
  OBVIOUS
<1>2. QED
  BY <1>1 DEF Account

\* build_base_locator() keeps the last location of each pubkey, and insert_batch() without
\* an error writes the same to the locator.
LEMMA BuiltIsLast ==
  ASSUME NEW batch \in Seq(Account)
  PROVE  LET built == build_base_locator(batch)
         IN  \A p \in Pubkeys :
               /\ p \in DOMAIN built <=> \E i \in 1 .. Len(batch) : batch[i].pubkey = p
               /\ p \in DOMAIN built =>
                    \E j : LastAt(batch, p, j) /\ built[p] = batch[j].location
<1> DEFINE n == Len(batch)
<1>1. PICK g : /\ Builds(g, batch)
               /\ build_base_locator(batch) = g[n]
               /\ \A k \in 0 .. n : g[k] \in Partial
  BY BuiltSteps
<1>2. n \in Nat
  OBVIOUS
<1>3. ASSUME NEW k \in 0 .. n - 1
      PROVE  g[k + 1] = Put(g[k], batch[k + 1].pubkey, batch[k + 1].location)
  <2>1. k + 1 \in 0 .. n /\ k + 1 # 0 /\ (k + 1) - 1 = k
    BY <1>2
  <2>2. QED
    BY <1>1, <2>1 DEF Builds
<1>4. g[0] = EmptyMap
  BY <1>1, <1>2 DEF Builds
<1> DEFINE Has(k, p) == \E i \in 1 .. k : batch[i].pubkey = p
           IsLast(k, p, j) == j \in 1 .. k /\ batch[j].pubkey = p /\ \A i \in j + 1 .. k : batch[i].pubkey # p
           S == {k \in 0 .. n : \A p \in Pubkeys :
                    /\ p \in DOMAIN g[k] <=> Has(k, p)
                    /\ p \in DOMAIN g[k] => \E j : IsLast(k, p, j) /\ g[k][p] = batch[j].location}
<1>5. 0 \in S
  BY <1>2, <1>4 DEF EmptyMap
<1>6. ASSUME NEW k \in 0 .. n - 1, k \in S
      PROVE  k + 1 \in S
  <2> DEFINE b == batch[k + 1]
  <2>1. k + 1 \in 0 .. n /\ k \in Nat /\ k + 1 \in 1 .. k + 1
    BY <1>2
  <2>2. /\ DOMAIN g[k + 1] = DOMAIN g[k] \cup {b.pubkey}
        /\ \A p \in DOMAIN g[k + 1] : g[k + 1][p] = IF p = b.pubkey THEN b.location ELSE g[k][p]
    <3>1. g[k + 1] = Put(g[k], b.pubkey, b.location)
      BY <1>3
    <3> HIDE DEF b
    <3>2. /\ DOMAIN Put(g[k], b.pubkey, b.location) = DOMAIN g[k] \cup {b.pubkey}
          /\ \A p \in DOMAIN Put(g[k], b.pubkey, b.location) :
                Put(g[k], b.pubkey, b.location)[p] = IF p = b.pubkey THEN b.location ELSE g[k][p]
      BY DEF Put
    <3>3. QED
      BY <3>1, <3>2
  <2> SUFFICES ASSUME NEW p \in Pubkeys
               PROVE  /\ p \in DOMAIN g[k + 1] <=> Has(k + 1, p)
                      /\ p \in DOMAIN g[k + 1] =>
                            \E j : IsLast(k + 1, p, j) /\ g[k + 1][p] = batch[j].location
    BY <2>1
  <2>3. /\ p \in DOMAIN g[k] <=> Has(k, p)
        /\ p \in DOMAIN g[k] => \E j : IsLast(k, p, j) /\ g[k][p] = batch[j].location
    BY <1>6
  <2>4. \A i : i \in 1 .. k + 1 <=> i \in 1 .. k \/ i = k + 1
    BY <2>1
  <2>5. CASE p = b.pubkey
    <3>1. Has(k + 1, p)
      BY <2>1, <2>5
    <3>2. IsLast(k + 1, p, k + 1)
      BY <2>1, <2>5
    <3>3. p \in DOMAIN g[k + 1] /\ g[k + 1][p] = b.location
      BY <2>2, <2>5
    <3> HIDE DEF Has, IsLast
    <3>4. QED
      BY <3>1, <3>2, <3>3
  <2>6. CASE p # b.pubkey
    <3>1. Has(k + 1, p) <=> Has(k, p)
      BY <2>4, <2>6
    <3>2. ASSUME NEW j, IsLast(k, p, j)
          PROVE  IsLast(k + 1, p, j)
      <4>1. j \in 1 .. k + 1 /\ batch[j].pubkey = p
        BY <2>4, <3>2
      <4>2. \A i \in j + 1 .. k + 1 : i \in j + 1 .. k \/ i = k + 1
        BY <2>1, <4>1
      <4>3. QED
        BY <2>6, <3>2, <4>1, <4>2
    <3>3. /\ p \in DOMAIN g[k + 1] <=> p \in DOMAIN g[k]
          /\ p \in DOMAIN g[k + 1] => g[k + 1][p] = g[k][p]
      BY <2>2, <2>6
    <3> HIDE DEF Has, IsLast, b
    <3>4. QED
      BY <2>3, <3>1, <3>2, <3>3
  <2>7. QED
    BY <2>5, <2>6
<1> HIDE DEF S
<1>7. 0 .. n \subseteq S
  BY <1>2, <1>5, <1>6, UpTo
<1>8. n \in S
  BY <1>2, <1>7
<1>9. QED
  BY <1>1, <1>8 DEF S, LastAt

LEMMA LocatedIsBuilt ==
  ASSUME NEW batch \in Seq(Account), NEW ok, locator \in [Pubkeys -> Bytes]
  PROVE  /\ Located(batch, ok) \in [Pubkeys -> Bytes]
         /\ \A p \in Pubkeys : locator[p] # NoBytes => Located(batch, ok)[p] # NoBytes
         /\ 1 .. Len(batch) \subseteq ok =>
              LET built == build_base_locator(batch)
              IN  \A p \in Pubkeys \cap DOMAIN built :
                     Located(batch, ok)[p] = serialize_location(built[p])
<1> DEFINE n == Len(batch)
<1>1. PICK g : /\ Builds(g, batch)
               /\ build_base_locator(batch) = g[n]
               /\ \A k \in 0 .. n : g[k] \in Partial
  BY BuiltSteps
<1>2. PICK h : /\ Inserts(h, batch, ok)
               /\ Located(batch, ok) = h[n]
               /\ \A k \in 0 .. n : h[k] \in [Pubkeys -> Bytes]
  BY LocatedSteps
<1>3. n \in Nat
  OBVIOUS
<1>4. ASSUME NEW k \in 0 .. n - 1
      PROVE  /\ g[k + 1] = Put(g[k], batch[k + 1].pubkey, batch[k + 1].location)
             /\ h[k + 1] = IF k + 1 \in ok
                           THEN [h[k] EXCEPT ![batch[k + 1].pubkey] =
                                    serialize_location(batch[k + 1].location)]
                           ELSE h[k]
  <2>1. k + 1 \in 0 .. n /\ k + 1 # 0 /\ (k + 1) - 1 = k
    BY <1>3
  <2>2. QED
    BY <1>1, <1>2, <2>1 DEF Builds, Inserts
<1>5. g[0] = EmptyMap /\ h[0] = locator
  BY <1>1, <1>2, <1>3 DEF Builds, Inserts
<1> DEFINE S == {k \in 0 .. n : \A p \in Pubkeys :
                    /\ locator[p] # NoBytes => h[k][p] # NoBytes
                    /\ 1 .. n \subseteq ok /\ p \in DOMAIN g[k] => h[k][p] = serialize_location(g[k][p])}
<1>6. 0 \in S
  BY <1>3, <1>5 DEF EmptyMap
<1>7. ASSUME NEW k \in 0 .. n - 1, k \in S
      PROVE  k + 1 \in S
  <2> DEFINE q == batch[k + 1].pubkey
             l == batch[k + 1].location
  <2>1. k + 1 \in 0 .. n /\ k + 1 \in 1 .. n /\ k \in 0 .. n
    BY <1>3
  <2>2. q \in Pubkeys /\ h[k] \in [Pubkeys -> Bytes]
    BY <1>2, <2>1, BatchAccount
  <2> HIDE DEF q, l
  <2>3. \A p \in Pubkeys : h[k + 1][p] = IF k + 1 \in ok /\ p = q THEN serialize_location(l) ELSE h[k][p]
    BY <1>4, <2>2 DEF q, l
  <2>4. /\ DOMAIN g[k + 1] = DOMAIN g[k] \cup {q}
        /\ \A p \in DOMAIN g[k + 1] : g[k + 1][p] = IF p = q THEN l ELSE g[k][p]
    <3>1. g[k + 1] = Put(g[k], q, l)
      BY <1>4 DEF q, l
    <3>2. /\ DOMAIN Put(g[k], q, l) = DOMAIN g[k] \cup {q}
          /\ \A p \in DOMAIN Put(g[k], q, l) :
                Put(g[k], q, l)[p] = IF p = q THEN l ELSE g[k][p]
      BY DEF Put
    <3>3. QED
      BY <3>1, <3>2
  <2>5. serialize_location(l) # NoBytes
    BY DEF serialize_location, NoBytes
  <2> SUFFICES ASSUME NEW p \in Pubkeys
               PROVE  /\ locator[p] # NoBytes => h[k + 1][p] # NoBytes
                      /\ 1 .. n \subseteq ok /\ p \in DOMAIN g[k + 1] =>
                            h[k + 1][p] = serialize_location(g[k + 1][p])
    BY <2>1
  <2>6. /\ locator[p] # NoBytes => h[k][p] # NoBytes
        /\ 1 .. n \subseteq ok /\ p \in DOMAIN g[k] => h[k][p] = serialize_location(g[k][p])
    BY <1>7
  <2> HIDE DEF n
  <2>7. 1 .. n \subseteq ok => k + 1 \in ok
    BY <2>1
  <2>8. CASE p = q
    BY <2>3, <2>4, <2>5, <2>6, <2>7, <2>8
  <2>9. CASE p # q
    BY <2>3, <2>4, <2>6, <2>9
  <2>10. QED
    BY <2>8, <2>9
<1> HIDE DEF S
<1>8. 0 .. n \subseteq S
  BY <1>3, <1>6, <1>7, UpTo
<1>9. n \in S
  BY <1>3, <1>8
<1>10. n \in 0 .. n
  BY <1>3
<1>11. QED
  BY <1>1, <1>2, <1>9, <1>10 DEF S

\* insert_batch() over an empty cache gives the ids that build_pubkey_dictionary() gives,
\* each pubkey one of its own, and without an error the table gets the same.
AssignsBuilt(d, batch, ok) ==
    /\ d \in Dictionaries
    /\ d.cache = build_pubkey_dictionary(batch)
    /\ d.next = Cardinality(Known(d.cache))
    /\ \A p \in Known(d.cache) :
          /\ d.cache[p] < d.next
          /\ \E i \in 1 .. Len(batch) : batch[i].pubkey = p
          /\ \A q \in Known(d.cache) : d.cache[p] = d.cache[q] => p = q
    /\ 1 .. Len(batch) \subseteq ok => \A p \in Pubkeys :
          d.table[p] = IF p \in Known(d.cache) THEN d.cache[p] ELSE table[p]

LEMMA AssignedIsBuilt ==
  ASSUME NEW batch \in Seq(Account), NEW ok, table \in [Pubkeys -> Ids],
         memory_cache = EmptyDictionary.cache, next_dict_id = 0
  PROVE  AssignsBuilt(Assigned(batch, ok), batch, ok)
<1> DEFINE n == Len(batch)
<1>1. PICK g : /\ Collects(g, batch)
               /\ build_pubkey_dictionary(batch) = g[n]
               /\ \A k \in 0 .. n : g[k] \in Caches
  BY DictSteps
<1>2. memory_cache \in Caches /\ Known(memory_cache) = {} /\ next_dict_id \in Nat
  BY EmptyCache
<1>3. PICK h : /\ Assigns(h, batch, ok)
               /\ Assigned(batch, ok) = h[n]
               /\ \A k \in 0 .. n : h[k] \in Dictionaries
  BY <1>2, AssignedSteps
<1>4. n \in Nat
  OBVIOUS
<1>5. ASSUME NEW k \in 0 .. n - 1
      PROVE  /\ g[k + 1] = CacheInsert(g[k], batch[k + 1].pubkey)
             /\ h[k + 1] = Assign(h[k], batch[k + 1].pubkey, k + 1 \in ok)
  <2>1. k + 1 \in 0 .. n /\ k + 1 # 0 /\ (k + 1) - 1 = k
    BY <1>4
  <2>2. g[k + 1] = CacheInsert(g[k], batch[k + 1].pubkey)
    BY <1>1, <2>1 DEF Collects
  <2>3. h[k + 1] = Assign(h[k], batch[k + 1].pubkey, k + 1 \in ok)
    BY <1>3, <2>1 DEF Assigns
  <2>4. QED
    BY <2>2, <2>3
<1>6. g[0] = EmptyDictionary.cache /\ h[0] = [cache |-> memory_cache, table |-> table, next |-> next_dict_id]
  BY <1>1, <1>3, <1>4 DEF Collects, Assigns
<1> DEFINE Given(c, next) == \A p \in Known(c) : /\ c[p] < next
                                                 /\ \E i \in 1 .. n : batch[i].pubkey = p
                                                 /\ \A q \in Known(c) : c[p] = c[q] => p = q
           Written(d) == \A p \in Pubkeys : d.table[p] = IF p \in Known(d.cache) THEN d.cache[p] ELSE table[p]
           S == {k \in 0 .. n : /\ h[k].cache = g[k]
                                /\ h[k].next = Cardinality(Known(g[k]))
                                /\ Given(g[k], h[k].next)
                                /\ 1 .. n \subseteq ok => Written(h[k])}
<1>7. 0 \in S
  <2>1. Cardinality({}) = 0
    BY FS_EmptySet
  <2>2. h[0].cache = g[0] /\ h[0].next = 0 /\ h[0].table = table /\ Known(g[0]) = {}
    BY <1>2, <1>6
  <2>3. 0 \in 0 .. n
    BY <1>4
  <2>4. QED
    BY <2>1, <2>2, <2>3
<1>8. ASSUME NEW k \in 0 .. n - 1, k \in S
      PROVE  k + 1 \in S
  <2> DEFINE p == batch[k + 1].pubkey
             c == g[k]
             d == h[k]
             x == Cardinality(Known(c))
             cc == g[k + 1]
             dd == h[k + 1]
             good == k + 1 \in ok
  <2>1. k \in 0 .. n /\ k + 1 \in 0 .. n /\ k + 1 \in 1 .. n
    BY <1>4
  <2>2. p \in Pubkeys /\ c \in Caches /\ d \in Dictionaries
    BY <1>1, <1>3, <2>1, BatchAccount
  <2>3. /\ d.cache = c /\ d.next = x
        /\ Given(c, x) /\ (1 .. n \subseteq ok => Written(d))
    BY <1>8
  <2>4. cc = CacheInsert(c, p) /\ dd = Assign(d, p, good)
    BY <1>5
  <2>5. \E i \in 1 .. n : batch[i].pubkey = p
    BY <2>1
  <2> HIDE DEF p, c, d, x, cc, dd
  <2>6. /\ Known(cc) = Known(c) \cup {p}
        /\ x \in Nat
        /\ c[p] # NoId => cc = c
        /\ c[p] = NoId => cc = [c EXCEPT ![p] = x] /\ Cardinality(Known(cc)) = x + 1
    BY <2>2, <2>4, CacheInserted DEF x
  <2>7. c \in [Pubkeys -> Ids] /\ d.table \in [Pubkeys -> Ids]
    BY <2>2 DEF Caches, Dictionaries
  <2>8. 1 .. n \subseteq ok => good
    BY <2>1
  <2> HIDE DEF good, n
  <2>9. CASE c[p] # NoId
    <3>1. dd = d /\ cc = c
      BY <2>3, <2>4, <2>6, <2>9 DEF Assign
    <3>2. dd.cache = cc /\ dd.next = Cardinality(Known(cc)) /\ Given(cc, dd.next)
          /\ (1 .. n \subseteq ok => Written(dd))
      BY <2>3, <3>1 DEF x
    <3>3. QED
      BY <2>1, <3>2 DEF cc, dd
  <2>10. CASE c[p] = NoId
    <3>1. dd = [cache |-> cc, table |-> IF good THEN [d.table EXCEPT ![p] = x] ELSE d.table,
                next |-> x + 1]
      BY <2>3, <2>4, <2>10 DEF Assign
    <3>2. dd.cache = cc /\ dd.next = x + 1 /\ dd.next = Cardinality(Known(cc))
          /\ (good => dd.table = [d.table EXCEPT ![p] = x])
      BY <2>6, <2>10, <3>1
    <3>3. \A q \in Pubkeys : cc[q] = IF q = p THEN x ELSE c[q]
      BY <2>2, <2>6, <2>7, <2>10
    <3>4. \A q \in Known(c) : q \in Pubkeys /\ q # p /\ c[q] < x /\ c[q] \in Nat
      BY <2>3, <2>7, <2>10 DEF Known, Ids
    <3>5. Given(cc, x + 1)
      <4> SUFFICES ASSUME NEW q \in Known(cc)
                   PROVE  /\ cc[q] < x + 1
                          /\ \E i \in 1 .. n : batch[i].pubkey = q
                          /\ \A r \in Known(cc) : cc[q] = cc[r] => q = r
        OBVIOUS
      <4>1. \A r \in Known(cc) : (r = p /\ cc[r] = x) \/ (r \in Known(c) /\ r # p /\ cc[r] = c[r] /\ c[r] < x /\ c[r] \in Nat)
        BY <2>2, <2>6, <3>3, <3>4
      <4>2. cc[q] < x + 1
        BY <2>6, <4>1
      <4>3. \E i \in 1 .. n : batch[i].pubkey = q
        BY <2>3, <2>5, <4>1
      <4>4. \A r \in Known(cc) : cc[q] = cc[r] => q = r
        <5>1. \A r \in Known(c) : q \in Known(c) /\ c[q] = c[r] => q = r
          BY <2>3
        <5>2. QED
          BY <2>6, <4>1, <5>1
      <4>5. QED
        BY <4>2, <4>3, <4>4
    <3>6. ASSUME 1 .. n \subseteq ok
          PROVE  Written(dd)
      <4> SUFFICES ASSUME NEW q \in Pubkeys
                   PROVE  dd.table[q] = IF q \in Known(cc) THEN cc[q] ELSE table[q]
        BY <3>2
      <4>1. d.table[q] = IF q \in Known(c) THEN c[q] ELSE table[q]
        BY <2>3, <3>6
      <4>2. dd.table[q] = IF q = p THEN x ELSE d.table[q]
        BY <2>2, <2>7, <2>8, <3>2, <3>6
      <4>3. QED
        BY <2>6, <3>3, <4>1, <4>2
    <3>7. QED
      BY <2>1, <3>2, <3>5, <3>6 DEF cc, dd
  <2>11. QED
    BY <2>9, <2>10
<1> HIDE DEF S
<1>9. 0 .. n \subseteq S
  BY <1>4, <1>7, <1>8, UpTo
<1>10. n \in 0 .. n
  BY <1>4
<1>11. n \in S /\ h[n] \in Dictionaries
  BY <1>3, <1>9, <1>10
<1>12. QED
  BY <1>1, <1>3, <1>11 DEF S, AssignsBuilt

\* The accounts of the batch are those of n sequences, and the last of a pubkey is in the
\* last sequence that holds the pubkey.
ComesFrom(batch, seqs, n) ==
    /\ batch \in Seq(Account)
    /\ \A b \in 1 .. n : \A i \in 1 .. Len(seqs[b]) :
          \E j \in 1 .. Len(batch) : batch[j] = seqs[b][i]
    /\ \A j \in 1 .. Len(batch) : \E b \in 1 .. n : \E i \in 1 .. Len(seqs[b]) :
          /\ batch[j] = seqs[b][i]
          /\ LastAt(batch, batch[j].pubkey, j) =>
               \A m \in b + 1 .. n : \A e \in 1 .. Len(seqs[m]) :
                   seqs[m][e].pubkey # batch[j].pubkey

LEMMA JoinedFrom ==
  ASSUME NEW n \in Nat, NEW seqs \in [1 .. n -> Seq(Account)],
         NEW g, Joined(g, seqs, Account)
  PROVE  ComesFrom(g[n], seqs, n)
<1> DEFINE Held(k) == \A b \in 1 .. k : \A i \in 1 .. Len(seqs[b]) :
                         \E j \in 1 .. Len(g[k]) : g[k][j] = seqs[b][i]
           None(b, k, p) == \A m \in b + 1 .. k : \A e \in 1 .. Len(seqs[m]) : seqs[m][e].pubkey # p
           From(k) == \A j \in 1 .. Len(g[k]) : \E b \in 1 .. k : \E i \in 1 .. Len(seqs[b]) :
                         /\ g[k][j] = seqs[b][i]
                         /\ LastAt(g[k], g[k][j].pubkey, j) => None(b, k, g[k][j].pubkey)
           S == {k \in 0 .. n : Held(k) /\ From(k)}
<1>1. Len(seqs) = n
  <2>1. seqs \in Seq(Seq(Account))
    BY SeqDef
  <2>2. QED
    BY <2>1, LenProperties
<1>2. /\ g \in [0 .. n -> Seq(Account)]
      /\ g[0] = <<>>
      /\ \A k \in 1 .. n : g[k] = g[k - 1] \o seqs[k]
  BY <1>1 DEF Joined
<1>3. 0 \in S
  <2>1. Len(g[0]) = 0 /\ 0 \in 0 .. n
    BY <1>2
  <2>2. Held(0) /\ From(0)
    BY <2>1
  <2>3. QED
    BY <2>1, <2>2
<1>4. ASSUME NEW k \in 0 .. n - 1, k \in S
      PROVE  k + 1 \in S
  <2> DEFINE s == g[k]
             t == seqs[k + 1]
             u == g[k + 1]
  <2>1. k + 1 \in 0 .. n /\ k + 1 \in 1 .. n /\ k \in 0 .. n /\ (k + 1) - 1 = k /\ k \in Nat
    OBVIOUS
  <2>2. s \in Seq(Account) /\ t \in Seq(Account) /\ u = s \o t
    <3>1. s \in Seq(Account) /\ t \in Seq(Account)
      BY <1>2, <2>1
    <3>2. g[k + 1] = g[(k + 1) - 1] \o seqs[k + 1]
      BY <1>2, <2>1
    <3>3. QED
      BY <2>1, <3>1, <3>2
  <2>3. Held(k) /\ From(k)
    BY <1>4
  <2> HIDE DEF s, t, u
  <2>4. /\ Len(s) \in Nat /\ Len(t) \in Nat /\ Len(u) = Len(s) + Len(t)
        /\ \A i \in 1 .. Len(s) + Len(t) : u[i] = IF i <= Len(s) THEN s[i] ELSE t[i - Len(s)]
    BY <2>2, ConcatProperties
  <2>5. \A i \in 1 .. Len(s) : i \in 1 .. Len(u) /\ u[i] = s[i]
    BY <2>4
  <2>6. \A i \in 1 .. Len(t) : Len(s) + i \in 1 .. Len(u) /\ u[Len(s) + i] = t[i]
    BY <2>4
  <2>7. \A b : b \in 1 .. k + 1 <=> b \in 1 .. k \/ b = k + 1
    BY <2>1
  <2>8. Held(k + 1)
    <3> SUFFICES ASSUME NEW b \in 1 .. k + 1, NEW i \in 1 .. Len(seqs[b])
                 PROVE  \E j \in 1 .. Len(u) : u[j] = seqs[b][i]
      BY DEF u
    <3>1. CASE b = k + 1
      <4>1. i \in 1 .. Len(t) /\ seqs[b][i] = t[i]
        BY <3>1 DEF t
      <4>2. QED
        BY <2>6, <4>1
    <3>2. CASE b # k + 1
      <4>1. PICK j \in 1 .. Len(s) : s[j] = seqs[b][i]
        BY <2>3, <2>7, <3>2 DEF s
      <4>2. QED
        BY <2>5, <4>1
    <3>3. QED
      BY <3>1, <3>2
  <2>9. From(k + 1)
    <3> SUFFICES ASSUME NEW j \in 1 .. Len(u)
                 PROVE  \E b \in 1 .. k + 1 : \E i \in 1 .. Len(seqs[b]) :
                           /\ u[j] = seqs[b][i]
                           /\ LastAt(u, u[j].pubkey, j) => None(b, k + 1, u[j].pubkey)
      BY DEF u
    <3>1. CASE j <= Len(s)
      <4>1. j \in 1 .. Len(s) /\ u[j] = s[j]
        BY <2>4, <2>5, <3>1
      <4>2. PICK b \in 1 .. k : \E i \in 1 .. Len(seqs[b]) :
               s[j] = seqs[b][i] /\ (LastAt(s, s[j].pubkey, j) => None(b, k, s[j].pubkey))
        BY <2>3, <4>1 DEF s
      <4>3. PICK i \in 1 .. Len(seqs[b]) :
               s[j] = seqs[b][i] /\ (LastAt(s, s[j].pubkey, j) => None(b, k, s[j].pubkey))
        BY <4>2
      <4>4. ASSUME LastAt(u, u[j].pubkey, j)
            PROVE  None(b, k + 1, u[j].pubkey)
        <5>1. LastAt(s, s[j].pubkey, j)
          <6>1. \A e \in j + 1 .. Len(s) : e \in j + 1 .. Len(u) /\ u[e] = s[e]
            BY <2>4, <2>5, <4>1
          <6>2. QED
            BY <4>1, <4>4, <6>1 DEF LastAt
        <5>2. None(b, k, u[j].pubkey)
          BY <4>1, <4>3, <5>1
        <5>3. \A e \in 1 .. Len(t) : t[e].pubkey # u[j].pubkey
          <6>1. \A e \in 1 .. Len(t) : Len(s) + e \in j + 1 .. Len(u)
            BY <2>4, <4>1
          <6>2. QED
            BY <2>6, <4>4, <6>1 DEF LastAt
        <5>4. \A m \in b + 1 .. k + 1 : m \in b + 1 .. k \/ m = k + 1
          BY <2>1, <4>2
        <5>5. QED
          BY <5>2, <5>3, <5>4 DEF t
      <4>5. b \in 1 .. k + 1
        BY <2>7, <4>2
      <4>6. QED
        BY <4>1, <4>3, <4>4, <4>5
    <3>2. CASE ~(j <= Len(s))
      <4>1. j - Len(s) \in 1 .. Len(t) /\ u[j] = t[j - Len(s)]
        BY <2>4, <3>2
      <4>2. None(k + 1, k + 1, u[j].pubkey)
        BY <2>1
      <4>3. k + 1 \in 1 .. k + 1
        BY <2>1
      <4>4. \E i \in 1 .. Len(seqs[k + 1]) : u[j] = seqs[k + 1][i]
        BY <4>1 DEF t
      <4> HIDE DEF None
      <4>5. QED
        BY <4>2, <4>3, <4>4
    <3>3. QED
      BY <3>1, <3>2
  <2>10. QED
    BY <2>1, <2>8, <2>9
<1> HIDE DEF S
<1>5. 0 .. n \subseteq S
  BY <1>3, <1>4, UpTo
<1>6. n \in 0 .. n
  OBVIOUS
<1>7. n \in S
  BY <1>5, <1>6
<1>8. QED
  BY <1>2, <1>6, <1>7 DEF S, ComesFrom

----------------------------------------------------------------------------
(* What a location leads to.                                                 *)

LEMMA RoundTrip ==
  ASSUME NEW l \in Locations
  PROVE  deserialize_location(serialize_location(l)) = l
<1> DEFINE t == CHOOSE t \in StorageType : TypeByte[t] = TypeByte[l.storage_type]
<1>1. l.storage_type \in StorageType
  BY DEF Locations
<1>2. t \in StorageType /\ TypeByte[t] = TypeByte[l.storage_type]
  BY <1>1
<1>3. t = l.storage_type
  BY <1>1, <1>2 DEF StorageType, TypeByte
<1>4. l = [file_id |-> l.file_id, offset |-> l.offset, stored_size |-> l.stored_size,
           data_offset |-> l.data_offset, data_len |-> l.data_len, slot |-> l.slot,
           write_version |-> l.write_version, storage_type |-> l.storage_type]
  BY DEF Locations
<1> DEFINE b == serialize_location(l)
<1>5. /\ b[1] = l.file_id /\ b[2] = l.offset /\ b[3] = l.stored_size /\ b[4] = l.data_offset
      /\ b[5] = l.data_len /\ b[6] = l.slot /\ b[7] = l.write_version
      /\ b[8] = TypeByte[l.storage_type]
  BY DEF serialize_location
<1> HIDE DEF b
<1>6. deserialize_location(b) =
          [file_id |-> l.file_id, offset |-> l.offset, stored_size |-> l.stored_size,
           data_offset |-> l.data_offset, data_len |-> l.data_len, slot |-> l.slot,
           write_version |-> l.write_version, storage_type |-> t]
  BY <1>5 DEF deserialize_location
<1> HIDE DEF t
<1>7. QED
  BY <1>3, <1>4, <1>6 DEF b

\* A number cut to a u32 does not grow, and stays what it is if it fits.
LEMMA Cut ==
  ASSUME NEW x \in Nat
  PROVE  x % U32 \in Nat /\ x % U32 <= x /\ (x < U32 => x % U32 = x)
<1>1. U32 \in Nat /\ U32 # 0
  BY ScanAssumption
<1>2. QED
  BY <1>1

\* What a record taken by the scan is like.
LEMMA TakenRecord ==
  ASSUME NEW file_id \in Nat, NEW c \in Seq(Record), NEW i \in 1 .. Len(c),
         Reached(c, i), Parses(c[i])
  PROVE  LET a == parse_account_record(file_id, Offset(c, i), c[i])
             l == a.location
         IN  /\ a \in Account
             /\ a.pubkey = c[i].pubkey /\ l.slot = c[i].slot /\ l.file_id = file_id
             /\ l.offset = Offset(c, i) /\ l.data_offset = HeaderSize
             /\ c[i].size < U32 => l.stored_size = c[i].size /\ l.data_len = c[i].size - HeaderSize
             /\ c[i].size \in Nat /\ c[i].size >= HeaderSize
             /\ l.offset \in Nat /\ Length(c) \in Nat /\ l.offset + c[i].size <= Length(c)
<1> DEFINE r == c[i]
           o == Offset(c, i)
<1>1. r \in Record
  OBVIOUS
<1>2. r.pubkey \in Pubkeys /\ r.slot \in Nat /\ r.size \in Nat
  BY <1>1 DEF Record
<1>3. o \in Nat /\ Length(c) \in Nat
  <2>1. Len(c) \in Nat /\ i \in 1 .. Len(c) + 1 /\ Len(c) + 1 \in 1 .. Len(c) + 1
    OBVIOUS
  <2>2. QED
    BY <2>1, OffsetNat DEF Length
<1>4. r.size <= Length(c) - o /\ r.size >= 97
  <2>1. i \in 1 .. i
    OBVIOUS
  <2>2. QED
    BY <2>1 DEF Reached, Fits, Parses, HeaderSize
<1> HIDE DEF r, o
<1> DEFINE l == [file_id |-> file_id, offset |-> o, stored_size |-> r.size % U32,
                 data_offset |-> HeaderSize, data_len |-> (r.size - HeaderSize) % U32,
                 slot |-> r.slot, write_version |-> 0, storage_type |-> "Base"]
<1>5. r.size - 97 \in Nat /\ r.size - 97 < r.size
  BY <1>2, <1>4
<1>6. /\ r.size % U32 \in Nat /\ (r.size - 97) % U32 \in Nat
      /\ r.size < U32 => r.size % U32 = r.size /\ (r.size - 97) % U32 = r.size - 97
  <2>1. U32 \in Nat
    BY ScanAssumption
  <2>2. r.size < U32 => r.size - 97 < U32
    BY <1>2, <1>5, <2>1
  <2>3. QED
    BY <1>2, <1>5, <2>2, Cut
<1>7. l \in Locations
  BY <1>2, <1>3, <1>6 DEF Locations, StorageType, HeaderSize
<1>8. parse_account_record(file_id, o, r) = [pubkey |-> r.pubkey, slot |-> r.slot, location |-> l]
  BY DEF parse_account_record
<1>9. [pubkey |-> r.pubkey, slot |-> r.slot, location |-> l] \in Account
  <2> HIDE DEF l
  <2>1. QED
    BY <1>2, <1>7 DEF Account
<1>10. o + r.size <= Length(c)
  BY <1>2, <1>3, <1>4
<1>11. QED
  BY <1>2, <1>3, <1>4, <1>6, <1>8, <1>9, <1>10 DEF r, o, HeaderSize

\* Location l of account p is read back from the mapping c of its file in every way there is.
ReadBack(maps, l, p, c) ==
    /\ \E r \in read_batch(maps, l) :
          /\ r.pubkey = p /\ r.slot = l.slot
          /\ get_account_pubkey(r) = {p} /\ get_account_data_size(r) = {l.data_len}
          /\ validate_account_record(r, Length(c) - l.offset)
          /\ align_to_8(r.size) = l.stored_size + padding_needed(r.size, 8)
    /\ ~ panics_at_offset(l.offset, c)
    /\ \E b \in get_account_at_offset(l.file_id, l.offset, c) : b.pubkey = p /\ b.location = l
    /\ \E s \in get_slice(c, l), d \in get_account_data(c, l) : s[1] <= d[1] /\ d[2] <= s[2]

LEMMA ReadsBack ==
  ASSUME NEW file_id \in Nat, NEW c \in Seq(Record), NEW i \in 1 .. Len(c),
         Reached(c, i), Parses(c[i]), c[i].size < U32,
         NEW maps, file_id \in DOMAIN maps, maps[file_id] = c
  PROVE  LET a == parse_account_record(file_id, Offset(c, i), c[i])
         IN  ReadBack(maps, a.location, a.pubkey, c)
<1> DEFINE a == parse_account_record(file_id, Offset(c, i), c[i])
           l == a.location
           p == a.pubkey
           r == c[i]
<1>1. /\ p = r.pubkey /\ l.slot = r.slot /\ l.file_id = file_id
      /\ l.offset = Offset(c, i) /\ l.data_offset = 97
      /\ r.size < U32 => l.stored_size = r.size /\ l.data_len = r.size - HeaderSize
      /\ r.size >= 97 /\ r.size \in Nat
      /\ l.offset \in Nat /\ Length(c) \in Nat /\ l.offset + r.size <= Length(c)
  <2> DEFINE o == Offset(c, i)
  <2>1. /\ p = r.pubkey /\ l.slot = r.slot /\ l.file_id = file_id
        /\ l.offset = o /\ l.data_offset = HeaderSize
        /\ r.size < U32 => l.stored_size = r.size /\ l.data_len = r.size - HeaderSize
        /\ r.size \in Nat /\ r.size >= HeaderSize
        /\ l.offset \in Nat /\ Length(c) \in Nat /\ l.offset + r.size <= Length(c)
    BY TakenRecord
  <2> HIDE DEF a, l, p, r, o
  <2>2. HeaderSize = 97
    BY DEF HeaderSize
  <2>3. QED
    BY <2>1, <2>2 DEF o
<1>2. /\ r.size \in Nat /\ l.stored_size = r.size /\ l.stored_size >= 97
      /\ l.data_len = l.stored_size - 97 /\ l.offset + l.stored_size <= Length(c)
  <2>1. r.size < U32 /\ HeaderSize = 97
    BY DEF HeaderSize
  <2> HIDE DEF l, r
  <2>2. QED
    BY <1>1, <2>1
<1>3. i \in DOMAIN c
  OBVIOUS
<1>4. a = parse_account_record(file_id, Offset(c, i), r) /\ Parses(r)
  OBVIOUS
<1> HIDE DEF a, l, p, r
<1>5. is_valid_location(c, l)
  BY <1>1, <1>2 DEF is_valid_location, read_range
<1>6. r \in read_batch(maps, l)
  BY <1>1, <1>3, <1>5 DEF read_batch, read_bytes, r
<1>7. /\ get_account_pubkey(r) = {p} /\ get_account_data_size(r) = {l.data_len}
      /\ validate_account_record(r, Length(c) - l.offset)
  BY <1>1, <1>2 DEF get_account_pubkey, get_account_data_size, validate_account_record, HeaderSize
<1>8. align_to_8(r.size) = l.stored_size + padding_needed(r.size, 8)
  <2> DEFINE x == r.size
  <2>1. x \in Nat /\ l.stored_size = x
    BY <1>1, <1>2
  <2> HIDE DEF x
  <2>2. ((x + 7) \div 8) * 8 = x + (IF x % 8 = 0 THEN 0 ELSE 8 - (x % 8))
    BY <2>1
  <2>3. QED
    BY <2>1, <2>2 DEF align_to_8, padding_needed, x
<1>9. a \in get_account_at_offset(l.file_id, l.offset, c) /\ ~ panics_at_offset(l.offset, c)
  <2>1. l.offset + 8 <= Length(c)
    BY <1>1, <1>2
  <2>2. \A j \in DOMAIN c : Offset(c, j) = l.offset => j = i
    <3> SUFFICES ASSUME NEW j \in 1 .. Len(c), Offset(c, j) = Offset(c, i), j # i
                 PROVE  FALSE
      BY <1>1
    <3>1. Len(c) \in Nat /\ \A k \in 1 .. Len(c) : k \in 1 .. Len(c) + 1
      OBVIOUS
    <3>2. Offset(c, i) \in Nat /\ Offset(c, j) \in Nat
      BY <3>1, OffsetNat
    <3>3. i < j \/ j < i
      BY <3>1
    <3>4. QED
      BY <3>2, <3>3, OffsetsDiffer
  <2>3. ~ panics_at_offset(l.offset, c)
    BY <1>1, <1>2, <2>2 DEF panics_at_offset, r
  <2>4. QED
    BY <1>1, <1>3, <1>4, <2>1, <2>3 DEF get_account_at_offset, r
<1>10. \E s \in get_slice(c, l), d \in get_account_data(c, l) : s[1] <= d[1] /\ d[2] <= s[2]
  <2>1. read_range(l) \in get_slice(c, l)
    BY <1>5 DEF get_slice
  <2>2. data_range(l) \in get_account_data(c, l)
    BY <1>1, <1>2 DEF get_account_data, data_range
  <2>3. read_range(l)[1] <= data_range(l)[1] /\ data_range(l)[2] <= read_range(l)[2]
    BY <1>1, <1>2 DEF read_range, data_range
  <2>4. QED
    BY <2>1, <2>2, <2>3
<1>11. QED
  BY <1>1, <1>6, <1>7, <1>8, <1>9, <1>10 DEF a, l, p, ReadBack

\* The search of a file for a pubkey all of whose locations there are l.
OnlyAt(s, p, l) ==
    /\ s \in Seq(Account)
    /\ \E i \in DOMAIN s : s[i].pubkey = p
    /\ \A i \in DOMAIN s : s[i].pubkey = p => s[i].location = l

LEMMA LocatesOnly ==
  ASSUME NEW file_id, NEW c, NEW p, NEW l, OnlyAt(Scanned(file_id, c), p, l)
  PROVE  locate_account(file_id, c, p) = {l}
<1>0. /\ Scanned(file_id, c) \in Seq(Account)
      /\ \E i \in DOMAIN Scanned(file_id, c) : Scanned(file_id, c)[i].pubkey = p
      /\ \A i \in DOMAIN Scanned(file_id, c) :
            Scanned(file_id, c)[i].pubkey = p => Scanned(file_id, c)[i].location = l
  BY DEF OnlyAt
<1> DEFINE s == Scanned(file_id, c)
           hits == {i \in DOMAIN s : s[i].pubkey = p}
<1>1. hits \in SUBSET Nat /\ hits # {}
  BY <1>0
<1> HIDE DEF hits
<1>2. PICK i \in hits : \A j \in hits : i <= j
  BY <1>1, LeastNumber
<1>3. locate_account(file_id, c, p) = {s[k].location : k \in {j \in hits : \A k \in hits : j <= k}}
  BY DEF locate_account, hits
<1>4. \A k \in hits : s[k].location = l
  BY <1>0 DEF hits
<1>5. QED
  BY <1>2, <1>3, <1>4

----------------------------------------------------------------------------
(* The invariant of the base scan.                                           *)

\* The files are listed by file_id, a result is the scan of some contents of its file or
\* empty, and the dictionary is new until its batch.
ScanTypes ==
    /\ DOMAIN files = Names
    /\ \A n \in Names : files[n] = NoFile \/ files[n] \in FileContents[n]
    /\ pc \in {"down", "scan", "located", "done"}
    /\ found \in Seq(Names)
    /\ \A i, j \in DOMAIN found : i < j => found[i][1] <= found[j][1]
    /\ DOMAIN results \subseteq Range(found)
    /\ pc \in {"located", "done"} => Range(found) \subseteq DOMAIN results
    /\ \A n \in DOMAIN results :
          results[n] = <<>> \/ \E c \in FileContents[n] : results[n] = Scanned(n[1], c)
    /\ locator \in [Pubkeys -> Bytes]
    /\ table \in [Pubkeys -> Ids]
    /\ memory_cache \in Caches
    /\ next_dict_id \in Nat /\ lost \in Nat
    /\ assigned \subseteq Pubkeys
    /\ pc = "down" => results = EmptyMap
    /\ pc # "done" => memory_cache = EmptyDictionary.cache /\ next_dict_id = 0

\* The mapping kept under a file_id that one scanned file has is what was scanned.
MapsKept ==
    \A n \in DOMAIN results :
        results[n] # <<>> /\ (\A m \in DOMAIN results : m[1] = n[1] => m = n) =>
            /\ n[1] \in DOMAIN mmap_files
            /\ mmap_files[n[1]] \in FileContents[n]
            /\ results[n] = Scanned(n[1], mmap_files[n[1]])

\* Without an error the locator has what build_base_locator() builds.
LocatorBuilt ==
    pc \in {"located", "done"} /\ lost = 0 =>
        LET built == build_base_locator(accounts)
        IN  \A p \in Pubkeys \cap DOMAIN built : locator[p] = serialize_location(built[p])

\* Where the calls of get_or_create_id() are: only a process that is done has any.
Steps == {"idle", "table", "take", "commit", "cache"}
CallTypes ==
    /\ DOMAIN creating = Creators
    /\ \A t \in Creators :
          /\ creating[t].pc \in Steps
          /\ creating[t].pc # "idle" => pc = "done" /\ creating[t].pubkey \in Pubkeys
          /\ creating[t].pc = "commit" => creating[t].id \in Nat

\* The ids of the cache are distinct numbers below the number of its entries.
CacheCounts(cache) ==
    \A p \in Known(cache) :
        /\ cache[p] < Cardinality(Known(cache))
        /\ \A q \in Known(cache) : cache[p] = cache[q] => p = q

\* The ids taken from the counter are distinct and below it: those in the table of the
\* pubkeys this process gave ids, and those taken and not yet committed.
IdsTaken ==
    pc = "done" =>
        /\ \A p \in assigned : table[p] \in Nat /\ table[p] < next_dict_id
        /\ \A t \in Creators : creating[t].pc = "commit" =>
              /\ creating[t].id < next_dict_id
              /\ \A p \in assigned : table[p] # creating[t].id
              /\ \A u \in Creators : creating[u].pc = "commit" /\ creating[u].id = creating[t].id => u = t

\* Where the call of t is in agreement with the cache: the counter is the number of
\* entries, or one more from the taking of the id until the cache has it.
CallAgrees(t) ==
    LET n == Cardinality(Known(memory_cache)) IN
    /\ creating[t].pc # "idle" => creating[t].pubkey \notin Known(memory_cache)
    /\ creating[t].pc \in {"idle", "table", "take"} => next_dict_id = n
    /\ creating[t].pc = "commit" => next_dict_id = n + 1 /\ creating[t].id = n
    /\ creating[t].pc = "cache" => next_dict_id = n + 1 /\ table[creating[t].pubkey] = n

\* One call at a time keeps the cache, the counter and the table in agreement.
OneByOne ==
    ~ overlapped =>
        /\ \A t, u \in Creators : creating[t].pc # "idle" /\ creating[u].pc # "idle" => t = u
        /\ \A p \in Known(memory_cache) : table[p] = memory_cache[p]
        /\ (\A t \in Creators : creating[t].pc = "idle") => next_dict_id = Cardinality(Known(memory_cache))
        /\ \A t \in Creators : creating[t].pc # "idle" => CallAgrees(t)

\* What went into the table has a location, and the cache begins with the batch.
FromScan ==
    /\ \A p \in Pubkeys \ created : table[p] # NoId => locator[p] # NoBytes
    /\ pc = "done" =>
          \A p \in Known(build_pubkey_dictionary(accounts)) :
              memory_cache[p] = build_pubkey_dictionary(accounts)[p]

\* The dictionary as long as no error was dropped.
DictBuilt ==
    lost = 0 =>
        /\ CacheCounts(memory_cache)
        /\ \A p, q \in assigned : table[p] = table[q] => p = q
        /\ IdsTaken /\ OneByOne /\ FromScan

\* What the constants are.
LEMMA ScanConstants ==
  /\ \A n \in Names : n[1] \in Nat /\ FileContents[n] \subseteq Seq(Record)
  /\ IsFiniteSet(Names)
  /\ MaxIds \in Nat /\ MaxScans \in Nat /\ MaxLost \in Nat
BY ScanAssumption DEF Record

LEMMA ScannedAccounts ==
  ASSUME NEW n \in Names, NEW c \in FileContents[n]
  PROVE  /\ c \in Seq(Record)
         /\ Scanned(n[1], c) \in Seq(Account)
         /\ \A k \in 1 .. Len(Scanned(n[1], c)) : \E i \in 1 .. Len(c) :
               /\ Reached(c, i) /\ Parses(c[i])
               /\ Scanned(n[1], c)[k] = parse_account_record(n[1], Offset(c, i), c[i])
<1> DEFINE s == Scanned(n[1], c)
           T == Taken(n[1], c)
<1>1. n[1] \in Nat /\ c \in Seq(Record)
  BY ScanConstants
<1>2. Len(c) \in Nat
  BY <1>1
<1>3. s \in Seq(T)
  <2>1. PICK g : s = g[Len(c)] /\ \A k \in 0 .. Len(c) : g[k] \in Seq(T)
    BY <1>2, ScannedTaken
  <2>2. Len(c) \in 0 .. Len(c)
    BY <1>2
  <2>3. QED
    BY <2>1, <2>2
<1>4. T \subseteq Account
  <2> SUFFICES ASSUME NEW i \in 1 .. Len(c), Reached(c, i), Parses(c[i])
               PROVE  parse_account_record(n[1], Offset(c, i), c[i]) \in Account
    BY DEF Taken
  <2>1. QED
    BY <1>1, TakenRecord
<1> HIDE DEF s
<1>5. \A k \in 1 .. Len(s) : s[k] \in T
  BY <1>3
<1>6. s \in Seq(Account)
  BY <1>3, <1>4
<1>7. \A k \in 1 .. Len(s) : \E i \in 1 .. Len(c) :
         /\ Reached(c, i) /\ Parses(c[i])
         /\ s[k] = parse_account_record(n[1], Offset(c, i), c[i])
  BY <1>5 DEF Taken
<1>8. QED
  BY <1>1, <1>6, <1>7 DEF s

\* The accounts are those of the files, in the order of the listing.
LEMMA ListedAccounts ==
  ASSUME ScanTypes, Range(found) \subseteq DOMAIN results
  PROVE  /\ accounts \in Seq(Account)
         /\ \A n \in DOMAIN results : n \in Names /\ results[n] \in Seq(Account)
         /\ \A n \in DOMAIN results : \A i \in 1 .. Len(results[n]) :
               \E j \in 1 .. Len(accounts) : accounts[j] = results[n][i]
         /\ \A j \in 1 .. Len(accounts) : \E b \in DOMAIN found :
               \E i \in 1 .. Len(results[found[b]]) :
                  /\ accounts[j] = results[found[b]][i]
                  /\ LastAt(accounts, accounts[j].pubkey, j) =>
                       \A m \in DOMAIN found : b < m =>
                          \A e \in 1 .. Len(results[found[m]]) :
                             results[found[m]][e].pubkey # accounts[j].pubkey
<1> DEFINE n == Len(found)
           seqs == [i \in DOMAIN found |-> results[found[i]]]
<1>1. n \in Nat /\ DOMAIN found = 1 .. n /\ \A i \in 1 .. n : found[i] \in Names
  BY DEF ScanTypes
<1>2. \A m \in DOMAIN results : m \in Names
  BY <1>1 DEF ScanTypes, Range
<1>3. \A m \in DOMAIN results : results[m] \in Seq(Account)
  <2> SUFFICES ASSUME NEW m \in DOMAIN results
               PROVE  results[m] \in Seq(Account)
    OBVIOUS
  <2>1. <<>> \in Seq(Account)
    OBVIOUS
  <2>2. results[m] = <<>> \/ \E c \in FileContents[m] : results[m] = Scanned(m[1], c)
    BY DEF ScanTypes
  <2>3. QED
    BY <1>2, <2>1, <2>2, ScannedAccounts
<1>4. \A i \in 1 .. n : found[i] \in DOMAIN results
  BY <1>1 DEF Range
<1> HIDE DEF n
<1>5. seqs \in [1 .. n -> Seq(Account)]
  BY <1>1, <1>3, <1>4
<1>6. accounts = FlattenSeq(seqs)
  BY DEF accounts
<1>7. \A i \in 1 .. n : seqs[i] = results[found[i]]
  BY <1>1
<1> HIDE DEF seqs
<1>8. PICK g : Joined(g, seqs, Account) /\ FlattenSeq(seqs) = g[n]
  BY <1>1, <1>5, FlattenJoins
<1>9. /\ accounts \in Seq(Account)
      /\ \A b \in 1 .. n : \A i \in 1 .. Len(seqs[b]) :
            \E j \in 1 .. Len(accounts) : accounts[j] = seqs[b][i]
      /\ \A j \in 1 .. Len(accounts) : \E b \in 1 .. n : \E i \in 1 .. Len(seqs[b]) :
            /\ accounts[j] = seqs[b][i]
            /\ LastAt(accounts, accounts[j].pubkey, j) =>
                 \A m \in b + 1 .. n : \A e \in 1 .. Len(seqs[m]) :
                     seqs[m][e].pubkey # accounts[j].pubkey
  <2>1. g[n] = accounts
    BY <1>6, <1>8
  <2>2. ComesFrom(g[n], seqs, n)
    BY <1>1, <1>5, <1>8, JoinedFrom
  <2>3. QED
    BY <2>1, <2>2 DEF ComesFrom
<1>10. ASSUME NEW m \in DOMAIN results, NEW i \in 1 .. Len(results[m])
       PROVE  \E j \in 1 .. Len(accounts) : accounts[j] = results[m][i]
  <2>1. PICK b \in 1 .. n : found[b] = m
    BY <1>1 DEF ScanTypes, Range
  <2>2. seqs[b] = results[m]
    BY <1>7, <2>1
  <2>3. QED
    BY <1>9, <2>2
<1>11. ASSUME NEW j \in 1 .. Len(accounts)
       PROVE  \E b \in DOMAIN found : \E i \in 1 .. Len(results[found[b]]) :
                  /\ accounts[j] = results[found[b]][i]
                  /\ LastAt(accounts, accounts[j].pubkey, j) =>
                       \A m \in DOMAIN found : b < m =>
                          \A e \in 1 .. Len(results[found[m]]) :
                             results[found[m]][e].pubkey # accounts[j].pubkey
  <2>1. PICK b \in 1 .. n : \E i \in 1 .. Len(seqs[b]) :
            /\ accounts[j] = seqs[b][i]
            /\ LastAt(accounts, accounts[j].pubkey, j) =>
                 \A m \in b + 1 .. n : \A e \in 1 .. Len(seqs[m]) :
                     seqs[m][e].pubkey # accounts[j].pubkey
    BY <1>9
  <2>2. \A m \in 1 .. n : b < m => m \in b + 1 .. n
    BY <1>1
  <2>3. \A m \in DOMAIN found : b < m => m \in b + 1 .. n /\ seqs[m] = results[found[m]]
    BY <1>1, <1>7, <2>2
  <2>4. seqs[b] = results[found[b]] /\ b \in DOMAIN found
    BY <1>1, <1>7
  <2>5. QED
    BY <2>1, <2>3, <2>4
<1>12. QED
  BY <1>2, <1>3, <1>9, <1>10, <1>11

\* A listing is a sequence of names by file_id.
LEMMA ListingSorted ==
  ASSUME NEW s \in discover_account_files
  PROVE  s \in Seq(Names) /\ \A i, j \in DOMAIN s : i < j => s[i][1] <= s[j][1]
<1> DEFINE S == {n \in Names : files[n] # NoFile}
<1>1. Cardinality(S) \in Nat
  BY ScanConstants, FS_Subset, FS_CardinalityType
<1>2. s \in [1 .. Cardinality(S) -> S] /\ \A i, j \in DOMAIN s : i < j => s[i][1] <= s[j][1]
  BY DEF discover_account_files, SetToSeqs
<1>3. s \in [1 .. Cardinality(S) -> Names]
  BY <1>2
<1> HIDE DEF S
<1>4. s \in Seq(Names)
  BY <1>1, <1>3, SeqDef
<1>5. QED
  BY <1>2, <1>4

LEMMA ScanTypesInit == ScanInit => ScanTypes
<1> SUFFICES ASSUME ScanInit
             PROVE  ScanTypes
  OBVIOUS
<1>1. /\ pc = "down" /\ found = <<>> /\ results = EmptyMap
      /\ memory_cache = EmptyDictionary.cache /\ next_dict_id = 0 /\ lost = 0 /\ assigned = {}
      /\ DOMAIN files = Names /\ \A n \in Names : files[n] = NoFile
  BY DEF ScanInit, EmptyDictionary
<1>2. DOMAIN results = {}
  BY <1>1 DEF EmptyMap
<1>3. memory_cache \in Caches
  BY <1>1, EmptyCache
<1>4. locator \in [Pubkeys -> Bytes] /\ table \in [Pubkeys -> Ids]
  BY DEF ScanInit, Bytes, Ids
<1>5. found \in Seq(Names) /\ DOMAIN found = {}
  BY <1>1
<1>6. QED
  BY <1>1, <1>2, <1>3, <1>4, <1>5 DEF ScanTypes

\* What an exit leaves.
LEMMA ScanTypesExit ==
  ASSUME ScanTypes, Exit, UNCHANGED <<files, locator, table, lost, assigned>>
  PROVE  ScanTypes'
<1>1. /\ pc' = "down" /\ found' = <<>> /\ results' = EmptyMap
      /\ memory_cache' = EmptyDictionary.cache /\ next_dict_id' = 0
  BY DEF Exit, EmptyDictionary
<1>2. DOMAIN results' = {}
  BY <1>1 DEF EmptyMap
<1>3. memory_cache' \in Caches
  BY <1>1, EmptyCache
<1>4. found' \in Seq(Names) /\ DOMAIN found' = {}
  BY <1>1
<1>5. EmptyDictionary' = EmptyDictionary
  BY DEF EmptyDictionary
<1>6. QED
  BY <1>1, <1>2, <1>3, <1>4, <1>5 DEF ScanTypes

\* What one step of get_or_create_id() changes.
LEMMA CallStep ==
  ASSUME ScanTypes, CallTypes, NEW t \in Creators, get_or_create_id(t)
  PROVE  /\ pc = "done" /\ UNCHANGED <<files, pc, found, results, mmap_files, locator, scans>>
         /\ next_dict_id' = next_dict_id \/ next_dict_id' = next_dict_id + 1
         /\ lost' = lost \/ lost' = lost + 1
         /\ assigned' = assigned \/ \E p \in Pubkeys : assigned' = assigned \cup {p}
         /\ table' = table \/ \E p \in Pubkeys, id \in Nat : table' = [table EXCEPT ![p] = id]
         /\ memory_cache' = memory_cache \/ \E p \in Pubkeys : memory_cache' = CacheInsert(memory_cache, p)
<1>1. CASE \E p \in Pubkeys : MissCache(t, p)
  BY <1>1 DEF MissCache, scanState
<1>2. CASE ReadTable(t)
  BY <1>2 DEF ReadTable, Calling, scanState, CallTypes
<1>3. CASE TakeId(t)
  BY <1>3 DEF TakeId, Calling, scanState, CallTypes
<1>4. CASE CommitId(t)
  <2>1. creating[t].pubkey \in Pubkeys /\ creating[t].id \in Nat /\ pc = "done"
    BY <1>4 DEF CommitId, Calling, CallTypes
  <2>2. QED
    BY <1>4, <2>1 DEF CommitId, Lose, scanState
<1>5. CASE CacheId(t)
  <2>1. creating[t].pubkey \in Pubkeys /\ pc = "done"
    BY <1>5 DEF CacheId, Calling, CallTypes
  <2>2. QED
    BY <1>5, <2>1 DEF CacheId, scanState
<1>6. QED
  BY <1>1, <1>2, <1>3, <1>4, <1>5 DEF get_or_create_id

LEMMA CallTypesStep ==
  ASSUME ScanTypes, CallTypes, [ScanNext]_scanVars
  PROVE  CallTypes'
<1>1. CASE UNCHANGED <<creating, pc>>
  BY <1>1 DEF CallTypes
<1>2. CASE creating' = [t \in Creators |-> NoCall]
  BY <1>2 DEF CallTypes, NoCall, Steps
<1>3. ASSUME pc # "done", UNCHANGED creating
      PROVE  CallTypes'
  BY <1>3 DEF CallTypes
<1>4. CASE Validator
  BY <1>1, <1>4 DEF Validator, AddFile, DropFile, callState
<1>5. CASE Crash \/ LocatorFails
  BY <1>2, <1>5 DEF Crash, LocatorFails, Exit
<1>6. CASE Discover \/ InsertLocations \/ InsertPubkeys
  BY <1>3, <1>6 DEF Discover, InsertLocations, Collected, InsertPubkeys, callState
<1>7. ASSUME NEW b \in DOMAIN found, ScanFile(found[b])
      PROVE  CallTypes'
  BY <1>1, <1>7 DEF ScanFile, callState
<1>8. ASSUME NEW t \in Creators, get_or_create_id(t)
      PROVE  CallTypes'
  <2>1. pc = "done" /\ pc' = pc
    BY <1>8, CallStep
  <2>2. PICK c : /\ creating' = [creating EXCEPT ![t] = c]
                 /\ c.pc \in Steps
                 /\ c.pc # "idle" => c.pubkey \in Pubkeys
                 /\ c.pc = "commit" => c.id \in Nat
    <3> DEFINE Next(c) == /\ creating' = [creating EXCEPT ![t] = c]
                          /\ c.pc \in Steps
                          /\ c.pc # "idle" => c.pubkey \in Pubkeys
                          /\ c.pc = "commit" => c.id \in Nat
               table_(p) == [pc |-> "table", pubkey |-> p]
               take == [pc |-> "take", pubkey |-> creating[t].pubkey]
               commit == [pc |-> "commit", pubkey |-> creating[t].pubkey, id |-> next_dict_id]
               cached == [pc |-> "cache", pubkey |-> creating[t].pubkey]
    <3>1. creating[t].pc # "idle" => creating[t].pubkey \in Pubkeys
      BY DEF CallTypes
    <3>2. creating' = [creating EXCEPT ![t] = NoCall] => Next(NoCall)
      BY DEF NoCall, Steps
    <3>3. CASE \E p \in Pubkeys : MissCache(t, p)
      <4>1. PICK p \in Pubkeys : creating' = [creating EXCEPT ![t] = table_(p)]
        BY <3>3 DEF MissCache, GotoCall
      <4>2. Next(table_(p))
        BY <4>1 DEF Steps
      <4>3. QED
        BY <4>2
    <3>4. CASE ReadTable(t)
      <4>1. /\ creating[t].pubkey \in Pubkeys
            /\ creating' = [creating EXCEPT ![t] = NoCall] \/ creating' = [creating EXCEPT ![t] = take]
        BY <3>1, <3>4 DEF ReadTable, Calling, GotoCall
      <4>2. creating' = [creating EXCEPT ![t] = take] => Next(take)
        BY <4>1 DEF Steps
      <4> HIDE DEF Next, take
      <4>3. Next(NoCall) \/ Next(take)
        BY <3>2, <4>1, <4>2
      <4>4. QED
        BY <4>3 DEF Next
    <3>5. CASE TakeId(t)
      <4>1. creating[t].pubkey \in Pubkeys /\ creating' = [creating EXCEPT ![t] = commit] /\ next_dict_id \in Nat
        BY <3>1, <3>5 DEF TakeId, GotoCall, Calling, ScanTypes
      <4>2. Next(commit)
        BY <4>1 DEF Steps
      <4>3. QED
        BY <4>2
    <3>6. CASE CommitId(t)
      <4>1. /\ creating[t].pubkey \in Pubkeys
            /\ creating' = [creating EXCEPT ![t] = NoCall] \/ creating' = [creating EXCEPT ![t] = cached]
        BY <3>1, <3>6 DEF CommitId, Calling, GotoCall
      <4>2. creating' = [creating EXCEPT ![t] = cached] => Next(cached)
        BY <4>1 DEF Steps
      <4> HIDE DEF Next, cached
      <4>3. Next(NoCall) \/ Next(cached)
        BY <3>2, <4>1, <4>2
      <4>4. QED
        BY <4>3 DEF Next
    <3>7. CASE CacheId(t)
      <4>1. Next(NoCall)
        BY <3>2, <3>7 DEF CacheId, GotoCall
      <4>2. QED
        BY <4>1
    <3>8. QED
      BY <1>8, <3>3, <3>4, <3>5, <3>6, <3>7 DEF get_or_create_id
  <2>3. DOMAIN creating' = Creators /\ \A u \in Creators : creating'[u] = IF u = t THEN c ELSE creating[u]
    BY <2>2 DEF CallTypes
  <2>4. QED
    BY <2>1, <2>2, <2>3 DEF CallTypes
<1>9. CASE UNCHANGED scanVars
  BY <1>1, <1>9 DEF scanVars
<1>10. QED
  BY <1>4, <1>5, <1>6, <1>7, <1>8, <1>9 DEF ScanNext

LEMMA ScanTypesStep ==
  ASSUME ScanTypes, CallTypes, [ScanNext]_scanVars
  PROVE  ScanTypes'
<1>1. CASE Validator
  <2>1. PICK n \in Names : AddFile(n) \/ DropFile(n)
    BY <1>1 DEF Validator
  <2>2. PICK c : (c = NoFile \/ c \in FileContents[n]) /\ files' = [files EXCEPT ![n] = c]
    BY <2>1 DEF AddFile, DropFile
  <2>3. UNCHANGED <<pc, found, results, locator, table, memory_cache, next_dict_id, lost, assigned>>
    BY <2>1 DEF AddFile, DropFile
  <2>4. DOMAIN files' = Names /\ \A m \in Names : files'[m] = IF m = n THEN c ELSE files[m]
    BY <2>2 DEF ScanTypes
  <2>5. \A m \in Names : files'[m] = NoFile \/ files'[m] \in FileContents[m]
    BY <2>2, <2>4 DEF ScanTypes
  <2>6. QED
    BY <2>3, <2>4, <2>5 DEF ScanTypes
<1>2. CASE Crash
  BY <1>2, ScanTypesExit DEF Crash
<1>3. CASE Discover
  <2>1. pc = "down" /\ UNCHANGED <<files, results, locator, table, memory_cache, next_dict_id, lost, assigned>>
    BY <1>3 DEF Discover
  <2>2. PICK s \in discover_account_files :
           IF s = <<>> THEN UNCHANGED <<pc, found>> ELSE pc' = "scan" /\ found' = s
    BY <1>3 DEF Discover
  <2>3. s \in Seq(Names) /\ \A i, j \in DOMAIN s : i < j => s[i][1] <= s[j][1]
    BY ListingSorted
  <2>4. DOMAIN results' = {}
    BY <2>1 DEF ScanTypes, EmptyMap
  <2>5. CASE s = <<>>
    BY <2>1, <2>2, <2>5 DEF ScanTypes
  <2>6. CASE s # <<>>
    <3>1. pc' = "scan" /\ found' = s
      BY <2>2, <2>6
    <3>2. QED
      BY <2>1, <2>3, <2>4, <3>1 DEF ScanTypes
  <2>7. QED
    BY <2>5, <2>6
<1>4. ASSUME NEW b \in DOMAIN found, ScanFile(found[b])
      PROVE  ScanTypes'
  <2> DEFINE n == found[b]
  <2>1. n \in Range(found) /\ n \in Names
    BY DEF ScanTypes, Range
  <2>2. /\ pc = "scan" /\ n \notin DOMAIN results
        /\ UNCHANGED <<files, pc, found, locator, table, memory_cache, next_dict_id, lost, assigned>>
    BY <1>4 DEF ScanFile
  <2>3. PICK r : results' = Put(results, n, r) /\ (r = <<>> \/ \E c \in FileContents[n] : r = Scanned(n[1], c))
    <3>1. files[n] # NoFile => files[n] \in FileContents[n]
      BY <2>1 DEF ScanTypes
    <3>2. CASE files[n] = NoFile
      BY <1>4, <3>2 DEF ScanFile
    <3>3. CASE files[n] # NoFile
      BY <1>4, <3>1, <3>3 DEF ScanFile
    <3>4. QED
      BY <3>2, <3>3
  <2> HIDE DEF n
  <2>4. /\ DOMAIN results' = DOMAIN results \cup {n}
        /\ \A m \in DOMAIN results' : results'[m] = IF m = n THEN r ELSE results[m]
    BY <2>3 DEF Put
  <2>5. DOMAIN results' \subseteq Range(found)
    BY <2>1, <2>4 DEF ScanTypes
  <2>6. ASSUME NEW m \in DOMAIN results'
        PROVE  results'[m] = <<>> \/ \E c \in FileContents[m] : results'[m] = Scanned(m[1], c)
    <3>1. CASE m = n
      BY <2>3, <2>4, <3>1
    <3>2. CASE m # n
      <4>1. m \in DOMAIN results /\ results'[m] = results[m]
        BY <2>4, <3>2
      <4>2. QED
        BY <4>1 DEF ScanTypes
    <3>3. QED
      BY <3>1, <3>2
  <2>7. Range(found)' = Range(found)
    BY <2>2
  <2>8. QED
    BY <2>2, <2>5, <2>6, <2>7 DEF ScanTypes
<1>5. CASE InsertLocations
  <2>1. /\ pc = "scan" /\ Range(found) \subseteq DOMAIN results /\ pc' = "located"
        /\ UNCHANGED <<files, found, results, table, memory_cache, next_dict_id, assigned>>
    BY <1>5 DEF InsertLocations, Collected
  <2>2. PICK ok \in SUBSET DOMAIN accounts :
           Lose(Cardinality(DOMAIN accounts \ ok)) /\ locator' = Located(accounts, ok)
    BY <1>5 DEF InsertLocations
  <2>3. accounts \in Seq(Account)
    BY <2>1, ListedAccounts
  <2>4. locator' \in [Pubkeys -> Bytes]
    BY <2>2, <2>3, LocatedIsBuilt DEF ScanTypes
  <2>5. lost' \in Nat
    <3>1. IsFiniteSet(DOMAIN accounts)
      BY <2>3, FS_Interval
    <3>2. Cardinality(DOMAIN accounts \ ok) \in Nat
      BY <3>1, FS_Subset, FS_CardinalityType
    <3>3. QED
      BY <2>2, <3>2 DEF Lose, ScanTypes
  <2>6. Bytes' = Bytes
    BY DEF Bytes
  <2>7. QED
    BY <2>1, <2>4, <2>5, <2>6 DEF ScanTypes
<1>6. CASE LocatorFails
  BY <1>6, ScanTypesExit DEF LocatorFails
<1>7. CASE InsertPubkeys
  <2>1. /\ pc = "located" /\ pc' = "done"
        /\ UNCHANGED <<files, found, results, locator>>
    BY <1>7 DEF InsertPubkeys
  <2>2. PICK ok \in SUBSET DOMAIN accounts, commits \in BOOLEAN :
           /\ Lose(Cardinality(DOMAIN accounts \ ok) + IF commits THEN 0 ELSE 1)
           /\ memory_cache' = Assigned(accounts, ok).cache
           /\ next_dict_id' = Assigned(accounts, ok).next
           /\ table' = IF commits THEN Assigned(accounts, ok).table ELSE table
           /\ assigned' = IF commits THEN {p \in Pubkeys : Assigned(accounts, ok).cache[p] # NoId}
                                     ELSE assigned
    BY <1>7 DEF InsertPubkeys
  <2>3. accounts \in Seq(Account)
    BY <2>1, ListedAccounts DEF ScanTypes
  <2>4. Assigned(accounts, ok) \in Dictionaries
    <3>1. memory_cache = EmptyDictionary.cache /\ next_dict_id = 0 /\ table \in [Pubkeys -> Ids]
      BY <2>1 DEF ScanTypes
    <3>2. QED
      BY <2>3, <3>1, AssignedIsBuilt DEF AssignsBuilt
  <2>5. memory_cache' \in Caches /\ next_dict_id' \in Nat /\ table' \in [Pubkeys -> Ids]
    BY <2>2, <2>4 DEF Dictionaries, ScanTypes
  <2>6. lost' \in Nat
    <3>1. IsFiniteSet(DOMAIN accounts)
      BY <2>3, FS_Interval
    <3>2. Cardinality(DOMAIN accounts \ ok) \in Nat
      BY <3>1, FS_Subset, FS_CardinalityType
    <3>3. QED
      BY <2>2, <3>2 DEF Lose, ScanTypes
  <2>7. assigned' \subseteq Pubkeys
    BY <2>2 DEF ScanTypes
  <2>8. QED
    BY <2>1, <2>5, <2>6, <2>7 DEF ScanTypes
<1>8. ASSUME NEW t \in Creators, get_or_create_id(t)
      PROVE  ScanTypes'
  <2>1. /\ pc = "done" /\ UNCHANGED <<files, pc, found, results, locator>>
        /\ next_dict_id' = next_dict_id \/ next_dict_id' = next_dict_id + 1
        /\ lost' = lost \/ lost' = lost + 1
        /\ assigned' = assigned \/ \E p \in Pubkeys : assigned' = assigned \cup {p}
        /\ table' = table \/ \E p \in Pubkeys, id \in Nat : table' = [table EXCEPT ![p] = id]
        /\ memory_cache' = memory_cache \/ \E p \in Pubkeys : memory_cache' = CacheInsert(memory_cache, p)
    BY <1>8, CallStep
  <2>2. memory_cache' \in Caches
    BY <2>1, CacheInserted DEF ScanTypes
  <2>3. table' \in [Pubkeys -> Ids]
    BY <2>1 DEF ScanTypes, Ids
  <2>4. next_dict_id' \in Nat /\ lost' \in Nat /\ assigned' \subseteq Pubkeys
    BY <2>1 DEF ScanTypes
  <2>5. QED
    BY <2>1, <2>2, <2>3, <2>4 DEF ScanTypes
<1>9. CASE UNCHANGED scanVars
  BY <1>9 DEF scanVars, ScanTypes
<1>10. QED
  BY <1>1, <1>2, <1>3, <1>4, <1>5, <1>6, <1>7, <1>8, <1>9 DEF ScanNext

\* A mapping under a file_id that one scanned file has is not replaced.
LEMMA MapsKeptStep ==
  ASSUME ScanTypes, CallTypes, MapsKept, [ScanNext]_scanVars
  PROVE  MapsKept'
<1>1. CASE UNCHANGED <<results, mmap_files>>
  BY <1>1 DEF MapsKept
<1>2. CASE results' = EmptyMap
  <2>1. DOMAIN results' = {}
    BY <1>2 DEF EmptyMap
  <2>2. QED
    BY <2>1 DEF MapsKept
<1>3. ASSUME NEW b \in DOMAIN found, ScanFile(found[b])
      PROVE  MapsKept'
  <2> DEFINE n == found[b]
  <2>1. n \in Names
    BY DEF ScanTypes
  <2>2. n \notin DOMAIN results
    BY <1>3 DEF ScanFile
  <2>3. CASE files[n] = NoFile
    <3>1. results' = Put(results, n, <<>>) /\ mmap_files' = mmap_files
      BY <1>3, <2>3 DEF ScanFile
    <3> HIDE DEF n
    <3>2. /\ DOMAIN results' = DOMAIN results \cup {n}
          /\ \A m \in DOMAIN results' : results'[m] = IF m = n THEN <<>> ELSE results[m]
      BY <3>1 DEF Put
    <3>3. QED
      BY <3>1, <3>2 DEF MapsKept
  <2>4. CASE files[n] # NoFile
    <3>1. results' = Put(results, n, Scanned(n[1], files[n])) /\ mmap_files' = Put(mmap_files, n[1], files[n])
      BY <1>3, <2>4 DEF ScanFile
    <3>2. files[n] \in FileContents[n]
      BY <2>1, <2>4 DEF ScanTypes
    <3> HIDE DEF n
    <3>3. /\ DOMAIN results' = DOMAIN results \cup {n}
          /\ \A m \in DOMAIN results' :
                results'[m] = IF m = n THEN Scanned(n[1], files[n]) ELSE results[m]
      BY <3>1 DEF Put
    <3>4. /\ DOMAIN mmap_files' = DOMAIN mmap_files \cup {n[1]}
          /\ \A k \in DOMAIN mmap_files' :
                mmap_files'[k] = IF k = n[1] THEN files[n] ELSE mmap_files[k]
      BY <3>1 DEF Put
    <3> SUFFICES ASSUME NEW m \in DOMAIN results', results'[m] # <<>>,
                        \A k \in DOMAIN results' : k[1] = m[1] => k = m
                 PROVE  /\ m[1] \in DOMAIN mmap_files'
                        /\ mmap_files'[m[1]] \in FileContents[m]
                        /\ results'[m] = Scanned(m[1], mmap_files'[m[1]])
      BY DEF MapsKept
    <3>5. CASE m = n
      BY <3>2, <3>3, <3>4, <3>5
    <3>6. CASE m # n
      <4>1. m \in DOMAIN results /\ results'[m] = results[m] /\ m[1] # n[1]
        BY <3>3, <3>6
      <4>2. \A k \in DOMAIN results : k[1] = m[1] => k = m
        BY <3>3
      <4>3. /\ m[1] \in DOMAIN mmap_files
            /\ mmap_files[m[1]] \in FileContents[m]
            /\ results[m] = Scanned(m[1], mmap_files[m[1]])
        BY <4>1, <4>2 DEF MapsKept
      <4>4. m[1] \in DOMAIN mmap_files' /\ mmap_files'[m[1]] = mmap_files[m[1]]
        BY <3>4, <4>1, <4>3
      <4>5. QED
        BY <4>1, <4>3, <4>4
    <3>7. QED
      BY <3>5, <3>6
  <2>5. QED
    BY <2>3, <2>4
<1>4. CASE Validator
  BY <1>1, <1>4 DEF Validator, AddFile, DropFile
<1>5. CASE Crash \/ LocatorFails
  BY <1>2, <1>5 DEF Crash, LocatorFails, Exit
<1>6. CASE Discover \/ InsertLocations \/ InsertPubkeys
  BY <1>1, <1>6 DEF Discover, InsertLocations, InsertPubkeys
<1>7. CASE \E t \in Creators : get_or_create_id(t)
  BY <1>1, <1>7, CallStep
<1>8. CASE UNCHANGED scanVars
  BY <1>1, <1>8 DEF scanVars
<1>9. QED
  BY <1>3, <1>4, <1>5, <1>6, <1>7, <1>8 DEF ScanNext

\* A batch that loses nothing goes in as a whole.
LEMMA NothingLost ==
  ASSUME ScanTypes, Range(found) \subseteq DOMAIN results, NEW ok \in SUBSET DOMAIN accounts,
         NEW k \in Nat, Lose(Cardinality(DOMAIN accounts \ ok) + k), lost' = 0
  PROVE  lost = 0 /\ k = 0 /\ 1 .. Len(accounts) \subseteq ok
<1> DEFINE S == DOMAIN accounts \ ok
<1>1. accounts \in Seq(Account)
  BY ListedAccounts
<1>2. DOMAIN accounts = 1 .. Len(accounts) /\ Len(accounts) \in Nat
  BY <1>1
<1>3. IsFiniteSet(DOMAIN accounts)
  BY <1>2, FS_Interval
<1>4. IsFiniteSet(S) /\ Cardinality(S) \in Nat
  BY <1>3, FS_Subset, FS_CardinalityType
<1> HIDE DEF S
<1>5. lost' = lost + (Cardinality(S) + k) /\ lost \in Nat
  BY DEF Lose, S, ScanTypes
<1>6. lost = 0 /\ k = 0 /\ Cardinality(S) = 0
  BY <1>4, <1>5
<1>7. S = {}
  BY <1>4, <1>6, FS_EmptySet
<1>8. QED
  BY <1>2, <1>6, <1>7 DEF S

LEMMA LocatorBuiltStep ==
  ASSUME ScanTypes, CallTypes, LocatorBuilt, [ScanNext]_scanVars
  PROVE  LocatorBuilt'
<1>1. CASE pc' \in {"down", "scan"}
  BY <1>1 DEF LocatorBuilt
<1>2. ASSUME UNCHANGED <<found, results, locator>>, pc' \in {"located", "done"} => pc \in {"located", "done"},
             lost' = 0 => lost = 0
      PROVE  LocatorBuilt'
  <2>1. accounts' = accounts
    BY <1>2 DEF accounts
  <2>2. QED
    BY <1>2, <2>1 DEF LocatorBuilt
<1>3. CASE InsertLocations
  <2> SUFFICES ASSUME lost' = 0, NEW p \in Pubkeys \cap DOMAIN build_base_locator(accounts)'
               PROVE  locator'[p] = serialize_location(build_base_locator(accounts)'[p])
    BY DEF LocatorBuilt
  <2>1. /\ pc = "scan" /\ Range(found) \subseteq DOMAIN results
        /\ UNCHANGED <<found, results>>
    BY <1>3 DEF InsertLocations, Collected
  <2>2. PICK ok \in SUBSET DOMAIN accounts :
           Lose(Cardinality(DOMAIN accounts \ ok)) /\ locator' = Located(accounts, ok)
    BY <1>3 DEF InsertLocations
  <2>3. accounts \in Seq(Account) /\ accounts' = accounts
    BY <2>1, ListedAccounts DEF accounts
  <2>4. Lose(Cardinality(DOMAIN accounts \ ok) + 0)
    <3>1. IsFiniteSet(DOMAIN accounts)
      BY <2>3, FS_Interval
    <3>2. Cardinality(DOMAIN accounts \ ok) \in Nat
      BY <3>1, FS_Subset, FS_CardinalityType
    <3>3. QED
      BY <2>2, <3>2
  <2>5. 1 .. Len(accounts) \subseteq ok
    BY <2>1, <2>4, NothingLost
  <2>6. locator \in [Pubkeys -> Bytes]
    BY DEF ScanTypes
  <2>7. QED
    BY <2>2, <2>3, <2>5, <2>6, LocatedIsBuilt
<1>4. CASE Validator
  BY <1>2, <1>4 DEF Validator, AddFile, DropFile
<1>5. CASE Crash \/ LocatorFails
  BY <1>1, <1>5 DEF Crash, LocatorFails, Exit
<1>6. CASE Discover
  BY <1>1, <1>6 DEF Discover
<1>7. ASSUME NEW b \in DOMAIN found, ScanFile(found[b])
      PROVE  LocatorBuilt'
  BY <1>1, <1>7 DEF ScanFile
<1>8. CASE InsertPubkeys
  <2>1. UNCHANGED <<found, results, locator>> /\ pc = "located" /\ Range(found) \subseteq DOMAIN results
    BY <1>8 DEF InsertPubkeys, ScanTypes
  <2>2. PICK ok \in SUBSET DOMAIN accounts, commits \in BOOLEAN :
           Lose(Cardinality(DOMAIN accounts \ ok) + IF commits THEN 0 ELSE 1)
    BY <1>8 DEF InsertPubkeys
  <2>3. lost' = 0 => lost = 0
    <3> DEFINE k == IF commits THEN 0 ELSE 1
    <3>1. k \in Nat /\ Lose(Cardinality(DOMAIN accounts \ ok) + k)
      BY <2>2
    <3> HIDE DEF k
    <3>2. QED
      BY <2>1, <3>1, NothingLost
  <2>4. QED
    BY <1>2, <2>1, <2>3
<1>9. ASSUME NEW t \in Creators, get_or_create_id(t)
      PROVE  LocatorBuilt'
  <2>1. UNCHANGED <<pc, found, results, locator>> /\ (lost' = lost \/ lost' = lost + 1)
    BY <1>9, CallStep
  <2>2. QED
    BY <1>2, <2>1 DEF ScanTypes
<1>10. CASE UNCHANGED scanVars
  BY <1>2, <1>10 DEF scanVars
<1>11. QED
  BY <1>3, <1>4, <1>5, <1>6, <1>7, <1>8, <1>9, <1>10 DEF ScanNext

\* A step that keeps the dictionary, the table and the calls, and takes no location away.
LEMMA DictKept ==
  ASSUME DictBuilt,
         UNCHANGED <<memory_cache, next_dict_id, table, assigned, created, creating, overlapped>>,
         \A p \in Pubkeys : locator[p] # NoBytes => locator'[p] # NoBytes,
         lost' = 0 => lost = 0, pc' # "done" \/ UNCHANGED <<pc, found, results>>
  PROVE  DictBuilt'
<1> SUFFICES ASSUME lost' = 0
             PROVE  DictBuilt'
  BY DEF DictBuilt
<1>1. /\ CacheCounts(memory_cache) /\ \A p, q \in assigned : table[p] = table[q] => p = q
      /\ IdsTaken /\ OneByOne /\ FromScan
  BY DEF DictBuilt
<1>2. pc' = "done" => pc = "done" /\ accounts' = accounts
  BY DEF accounts
<1>3. CacheCounts(memory_cache')
  BY <1>1
<1>4. IdsTaken'
  BY <1>1, <1>2 DEF IdsTaken
<1>5. OneByOne'
  BY <1>1 DEF OneByOne, CallAgrees
<1>6. FromScan'
  BY <1>1, <1>2 DEF FromScan
<1>7. \A p, q \in assigned' : table'[p] = table'[q] => p = q
  BY <1>1
<1>8. QED
  BY <1>3, <1>4, <1>5, <1>6, <1>7 DEF DictBuilt

\* The process ends: its cache and calls are gone, the table stays.
LEMMA DictExit ==
  ASSUME DictBuilt, Exit, UNCHANGED <<locator, table, lost, assigned, created>>
  PROVE  DictBuilt'
<1>1. /\ memory_cache' = EmptyDictionary.cache /\ next_dict_id' = 0 /\ pc' = "down"
      /\ \A t \in Creators : creating'[t].pc = "idle"
  BY DEF Exit, EmptyDictionary, NoCall
<1>2. Known(memory_cache') = {}
  BY <1>1, EmptyCache
<1>3. Cardinality(Known(memory_cache')) = 0
  BY <1>2, FS_EmptySet
<1>4. CacheCounts(memory_cache') /\ IdsTaken' /\ OneByOne'
  BY <1>1, <1>2, <1>3 DEF CacheCounts, IdsTaken, OneByOne
<1>5. lost = 0 => FromScan'
  BY <1>1 DEF DictBuilt, FromScan
<1>6. QED
  BY <1>4, <1>5 DEF DictBuilt

LEMMA DictBatch ==
  ASSUME ScanTypes, CallTypes, LocatorBuilt, DictBuilt, InsertPubkeys
  PROVE  DictBuilt'
<1> SUFFICES ASSUME lost' = 0
             PROVE  DictBuilt'
  BY DEF DictBuilt
<1> DEFINE batch == accounts
<1>1. /\ UNCHANGED <<found, results, locator, created>> /\ pc = "located"
      /\ Range(found) \subseteq DOMAIN results
      /\ memory_cache = EmptyDictionary.cache /\ next_dict_id = 0 /\ table \in [Pubkeys -> Ids]
  BY DEF InsertPubkeys, ScanTypes
<1>2. batch \in Seq(Account) /\ accounts' = batch
  BY <1>1, ListedAccounts DEF accounts
<1>3. PICK ok \in SUBSET DOMAIN batch, commits \in BOOLEAN :
         /\ Lose(Cardinality(DOMAIN batch \ ok) + IF commits THEN 0 ELSE 1)
         /\ memory_cache' = Assigned(batch, ok).cache
         /\ next_dict_id' = Assigned(batch, ok).next
         /\ table' = IF commits THEN Assigned(batch, ok).table ELSE table
         /\ assigned' = IF commits THEN {p \in Pubkeys : Assigned(batch, ok).cache[p] # NoId}
                                   ELSE assigned
  BY DEF InsertPubkeys
<1>4. lost = 0 /\ commits /\ 1 .. Len(batch) \subseteq ok
  <2> DEFINE k == IF commits THEN 0 ELSE 1
  <2>1. k \in Nat /\ Lose(Cardinality(DOMAIN batch \ ok) + k)
    BY <1>3
  <2>2. k = 0 => commits
    OBVIOUS
  <2> HIDE DEF k
  <2>3. lost = 0 /\ k = 0 /\ 1 .. Len(batch) \subseteq ok
    BY <1>1, <2>1, NothingLost
  <2>4. QED
    BY <2>2, <2>3
<1> DEFINE d == Assigned(batch, ok)
<1>5. /\ d \in Dictionaries
      /\ d.cache = build_pubkey_dictionary(batch)
      /\ d.next = Cardinality(Known(d.cache))
      /\ \A p \in Known(d.cache) :
            /\ d.cache[p] < d.next
            /\ \E i \in 1 .. Len(batch) : batch[i].pubkey = p
            /\ \A q \in Known(d.cache) : d.cache[p] = d.cache[q] => p = q
      /\ \A p \in Pubkeys :
            d.table[p] = IF p \in Known(d.cache) THEN d.cache[p] ELSE table[p]
  <2>1. AssignsBuilt(d, batch, ok)
    BY <1>1, <1>2, AssignedIsBuilt
  <2>2. 1 .. Len(batch) \subseteq ok
    BY <1>4
  <2> HIDE DEF d, batch
  <2>3. QED
    BY <2>1, <2>2 DEF AssignsBuilt
<1>6. /\ memory_cache' = d.cache /\ next_dict_id' = d.next /\ table' = d.table
      /\ assigned' = Known(d.cache)
  BY <1>3, <1>4 DEF Known
<1> HIDE DEF d, batch
<1>7. Known(d.cache) \subseteq Pubkeys
  BY DEF Known
<1>8. ASSUME NEW p \in Pubkeys \ created', table'[p] # NoId
      PROVE  locator'[p] # NoBytes
  <2>1. CASE p \in Known(d.cache)
    <3>1. p \in DOMAIN build_base_locator(batch)
      BY <1>2, <1>5, <2>1, BuiltIsLast
    <3>2. locator[p] = serialize_location(build_base_locator(batch)[p])
      BY <1>1, <1>4, <3>1 DEF LocatorBuilt, batch
    <3>3. QED
      BY <1>1, <3>2 DEF serialize_location, NoBytes
  <2>2. CASE p \notin Known(d.cache)
    <3>1. table[p] # NoId /\ p \in Pubkeys \ created
      BY <1>1, <1>5, <1>6, <1>8, <2>2
    <3>2. QED
      BY <1>1, <1>4, <3>1 DEF DictBuilt, FromScan
  <2>3. QED
    BY <2>1, <2>2
<1>9. \A p \in Known(d.cache) : table'[p] = memory_cache'[p] /\ d.cache[p] \in Nat
  <2>1. d.cache \in [Pubkeys -> Ids]
    BY <1>5 DEF Dictionaries, Caches
  <2>2. QED
    BY <1>5, <1>6, <1>7, <2>1 DEF Known, Ids
<1>10. \A p, q \in assigned' : table'[p] = table'[q] => p = q
  BY <1>5, <1>6, <1>9
<1>11. \A t \in Creators : creating'[t].pc = "idle"
  BY <1>1 DEF InsertPubkeys, callState, CallTypes
<1>12. CacheCounts(memory_cache')
  BY <1>5, <1>6 DEF CacheCounts
<1>13. IdsTaken'
  BY <1>5, <1>6, <1>9, <1>11 DEF IdsTaken
<1>14. OneByOne'
  BY <1>5, <1>6, <1>9, <1>11 DEF OneByOne
<1>15. FromScan'
  BY <1>2, <1>5, <1>6, <1>8 DEF FromScan
<1>16. QED
  BY <1>10, <1>12, <1>13, <1>14, <1>15 DEF DictBuilt

\* What a step of get_or_create_id() needs of the state it begins in.
LEMMA DictNow ==
  ASSUME ScanTypes, DictBuilt, lost = 0, pc = "done"
  PROVE  /\ CacheCounts(memory_cache) /\ \A p, q \in assigned : table[p] = table[q] => p = q
         /\ IdsTaken /\ OneByOne /\ FromScan
         /\ memory_cache \in Caches /\ memory_cache \in [Pubkeys -> Ids]
         /\ table \in [Pubkeys -> Ids] /\ next_dict_id \in Nat /\ assigned \subseteq Pubkeys
         /\ Cardinality(Known(memory_cache)) \in Nat /\ Known(memory_cache) \subseteq Pubkeys
<1>1. memory_cache \in Caches
  BY DEF ScanTypes
<1>2. memory_cache \in [Pubkeys -> Ids] /\ Cardinality(Known(memory_cache)) \in Nat
  BY <1>1, FS_CardinalityType DEF Caches
<1>3. QED
  BY <1>1, <1>2 DEF DictBuilt, ScanTypes, Known

\* A call goes on: where it is changes, to what c says, and perhaps the counter.
LEMMA CallMoves ==
  ASSUME ScanTypes, CallTypes, DictBuilt, lost = 0, lost' = 0, pc = "done", NEW t \in Creators, NEW c,
         creating' = [creating EXCEPT ![t] = c],
         UNCHANGED <<found, results, pc, locator, table, memory_cache, created, assigned>>,
         \/ c.pc \in {"idle", "table", "take", "cache"} /\ next_dict_id' = next_dict_id
         \/ c.pc = "commit" /\ c.id = next_dict_id /\ next_dict_id' = next_dict_id + 1,
         OneByOne'
  PROVE  DictBuilt'
<1>1. /\ CacheCounts(memory_cache) /\ \A p, q \in assigned : table[p] = table[q] => p = q
      /\ IdsTaken /\ OneByOne /\ FromScan /\ next_dict_id \in Nat
  BY DictNow
<1>2. \A u \in Creators : creating'[u] = IF u = t THEN c ELSE creating[u]
  BY DEF CallTypes
<1>3. FromScan'
  <2>1. accounts' = accounts
    BY DEF accounts
  <2>2. QED
    BY <1>1, <2>1 DEF FromScan
<1>4. \A p \in assigned : table[p] \in Nat /\ table[p] < next_dict_id
  BY <1>1 DEF IdsTaken
<1>5. \A u \in Creators : creating[u].pc = "commit" => creating[u].id \in Nat /\ creating[u].id < next_dict_id
  BY <1>1 DEF IdsTaken, CallTypes
<1>6. IdsTaken'
  <2>1. \A p \in assigned : table[p] < next_dict_id'
    BY <1>1, <1>4
  <2> SUFFICES ASSUME NEW u \in Creators, creating'[u].pc = "commit"
               PROVE  /\ creating'[u].id < next_dict_id'
                      /\ \A p \in assigned : table[p] # creating'[u].id
                      /\ \A v \in Creators : creating'[v].pc = "commit" /\ creating'[v].id = creating'[u].id => v = u
    BY <1>4, <2>1 DEF IdsTaken
  <2>2. CASE u # t
    <3>1. creating'[u] = creating[u] /\ creating[u].pc = "commit"
      BY <1>2, <2>2
    <3>2. /\ creating[u].id < next_dict_id /\ creating[u].id \in Nat
          /\ \A p \in assigned : table[p] # creating[u].id
          /\ \A v \in Creators : creating[v].pc = "commit" /\ creating[v].id = creating[u].id => v = u
      BY <1>1, <1>5, <3>1 DEF IdsTaken
    <3>3. creating'[t].pc = "commit" => creating'[t].id # creating[u].id
      BY <1>1, <1>2, <3>2
    <3>4. QED
      BY <1>1, <1>2, <3>1, <3>2, <3>3
  <2>3. CASE u = t
    <3>1. creating'[u].id = next_dict_id /\ next_dict_id' = next_dict_id + 1
      BY <1>2, <2>3
    <3>2. \A v \in Creators : creating'[v].pc = "commit" /\ v # t => creating'[v].id # next_dict_id
      BY <1>1, <1>2, <1>5
    <3>3. QED
      BY <1>1, <1>4, <2>3, <3>1, <3>2
  <2>4. QED
    BY <2>2, <2>3
<1>7. CacheCounts(memory_cache') /\ \A p, q \in assigned' : table'[p] = table'[q] => p = q
  BY <1>1
<1>8. QED
  BY <1>3, <1>6, <1>7 DEF DictBuilt

\* Where other calls are idle, what is said of one call says it of all.
LEMMA OneCall ==
  ASSUME CallTypes, NEW t \in Creators, NEW c, creating' = [creating EXCEPT ![t] = c],
         ~ overlapped' => /\ \A u \in Creators : u # t => creating[u].pc = "idle"
                          /\ \A p \in Known(memory_cache') : table'[p] = memory_cache'[p]
                          /\ c.pc = "idle" => next_dict_id' = Cardinality(Known(memory_cache'))
                          /\ c.pc # "idle" => CallAgrees(t)'
  PROVE  OneByOne'
<1> SUFFICES ASSUME ~ overlapped'
             PROVE  /\ \A u, v \in Creators : creating'[u].pc # "idle" /\ creating'[v].pc # "idle" => u = v
                    /\ \A p \in Known(memory_cache') : table'[p] = memory_cache'[p]
                    /\ (\A u \in Creators : creating'[u].pc = "idle") =>
                          next_dict_id' = Cardinality(Known(memory_cache'))
                    /\ \A u \in Creators : creating'[u].pc # "idle" => CallAgrees(u)'
  BY DEF OneByOne
<1>1. creating'[t] = c /\ \A u \in Creators : u # t => creating'[u].pc = "idle"
  BY DEF CallTypes
<1>2. QED
  BY <1>1

LEMMA DictCalled ==
  ASSUME ScanTypes, CallTypes, DictBuilt, NEW t \in Creators, get_or_create_id(t), lost = 0, lost' = 0
  PROVE  DictBuilt'
<1>1. pc = "done" /\ UNCHANGED <<pc, found, results, locator>>
  BY CallStep
<1>2. /\ CacheCounts(memory_cache) /\ \A p, q \in assigned : table[p] = table[q] => p = q
      /\ IdsTaken /\ OneByOne /\ FromScan
      /\ memory_cache \in Caches /\ memory_cache \in [Pubkeys -> Ids]
      /\ table \in [Pubkeys -> Ids] /\ next_dict_id \in Nat /\ assigned \subseteq Pubkeys
      /\ Cardinality(Known(memory_cache)) \in Nat /\ Known(memory_cache) \subseteq Pubkeys
  BY <1>1, DictNow
<1> DEFINE n == Cardinality(Known(memory_cache))
           p == creating[t].pubkey
<1>3. ASSUME creating[t].pc # "idle"
      PROVE  /\ p \in Pubkeys
             /\ ~ overlapped => /\ \A u \in Creators : u # t => creating[u].pc = "idle"
                                /\ CallAgrees(t)
                                /\ \A q \in Known(memory_cache) : table[q] = memory_cache[q]
  BY <1>2, <1>3 DEF CallTypes, OneByOne
<1>4. CASE \E q \in Pubkeys : MissCache(t, q)
  <2>1. PICK q \in Pubkeys : MissCache(t, q)
    BY <1>4
  <2> DEFINE c == [pc |-> "table", pubkey |-> q]
  <2>2. /\ creating' = [creating EXCEPT ![t] = c] /\ creating[t].pc = "idle" /\ memory_cache[q] = NoId
        /\ UNCHANGED <<table, memory_cache, next_dict_id, created, assigned>>
        /\ overlapped' = (overlapped \/ \E u \in Creators : creating[u].pc # "idle")
    BY <2>1 DEF MissCache, GotoCall, Calling
  <2>3. creating'[t] = c /\ c.pc = "table" /\ c.pubkey = q
    BY <2>2 DEF CallTypes
  <2> HIDE DEF c
  <2>4. ~ overlapped' => /\ \A u \in Creators : creating[u].pc = "idle"
                         /\ \A r \in Known(memory_cache) : table[r] = memory_cache[r]
                         /\ next_dict_id = n
    BY <1>2, <2>2 DEF OneByOne
  <2>5. q \notin Known(memory_cache)
    BY <2>2 DEF Known
  <2>6. ~ overlapped' => CallAgrees(t)'
    BY <2>2, <2>3, <2>4, <2>5 DEF CallAgrees
  <2>7. OneByOne'
    BY <2>2, <2>3, <2>4, <2>6, OneCall
  <2>8. QED
    BY <1>1, <2>2, <2>3, <2>7, CallMoves
<1>5. CASE ReadTable(t)
  <2>1. /\ creating[t].pc = "table" /\ UNCHANGED <<table, memory_cache, next_dict_id, created, assigned, overlapped>>
    BY <1>5 DEF ReadTable, Calling
  <2>2. ~ overlapped => next_dict_id = n /\ p \notin Known(memory_cache)
    BY <1>3, <2>1 DEF CallAgrees
  <2>3. CASE creating' = [creating EXCEPT ![t] = NoCall]
    <3>1. NoCall.pc = "idle"
      BY DEF NoCall
    <3> HIDE DEF p
    <3>2. OneByOne'
      BY <1>3, <2>1, <2>2, <2>3, <3>1, OneCall
    <3>3. QED
      BY <1>1, <2>1, <2>3, <3>1, <3>2, CallMoves
  <2>4. CASE creating' = [creating EXCEPT ![t] = [pc |-> "take", pubkey |-> creating[t].pubkey]]
    <3> DEFINE c == [pc |-> "take", pubkey |-> creating[t].pubkey]
    <3>1. c.pc = "take" /\ c.pubkey = p
      OBVIOUS
    <3>2. creating' = [creating EXCEPT ![t] = c]
      BY <2>4
    <3> HIDE DEF c
    <3>3. creating'[t] = c
      BY <3>2 DEF CallTypes
    <3>4. ~ overlapped' => CallAgrees(t)'
      BY <2>1, <2>2, <3>1, <3>3 DEF CallAgrees
    <3> HIDE DEF p
    <3>5. OneByOne'
      BY <1>3, <2>1, <3>1, <3>2, <3>4, OneCall
    <3>6. QED
      BY <1>1, <2>1, <3>1, <3>2, <3>5, CallMoves
  <2>5. QED
    BY <1>5, <2>3, <2>4 DEF ReadTable, GotoCall
<1>6. CASE TakeId(t)
  <2> DEFINE c == [pc |-> "commit", pubkey |-> p, id |-> next_dict_id]
  <2>1. /\ creating[t].pc = "take" /\ creating' = [creating EXCEPT ![t] = c] /\ next_dict_id' = next_dict_id + 1
        /\ UNCHANGED <<table, memory_cache, created, assigned, overlapped>>
    BY <1>6 DEF TakeId, Calling, GotoCall
  <2>2. ~ overlapped => next_dict_id = n /\ p \notin Known(memory_cache)
    BY <1>3, <2>1 DEF CallAgrees
  <2>3. c.pc = "commit" /\ c.pubkey = p /\ c.id = next_dict_id
    OBVIOUS
  <2> HIDE DEF c
  <2>4. creating'[t] = c
    BY <2>1 DEF CallTypes
  <2>5. ~ overlapped' => CallAgrees(t)'
    BY <2>1, <2>2, <2>3, <2>4 DEF CallAgrees
  <2> HIDE DEF p
  <2>6. OneByOne'
    BY <1>3, <2>1, <2>3, <2>5, OneCall
  <2>7. QED
    BY <1>1, <2>1, <2>3, <2>6, CallMoves
<1>7. CASE CommitId(t)
  <2> DEFINE c == [pc |-> "cache", pubkey |-> p]
             id == creating[t].id
  <2>1. /\ creating[t].pc = "commit" /\ creating' = [creating EXCEPT ![t] = c]
        /\ table' = [table EXCEPT ![p] = id]
        /\ created' = created \cup {p} /\ assigned' = assigned \cup {p}
        /\ UNCHANGED <<memory_cache, next_dict_id, overlapped>>
    <3>1. ~ Lose(1)
      BY DEF Lose
    <3>2. QED
      BY <1>7, <3>1 DEF CommitId, Calling, GotoCall
  <2>2. c.pc = "cache" /\ c.pubkey = p
    OBVIOUS
  <2>3. creating'[t] = c /\ \A u \in Creators : u # t => creating'[u] = creating[u]
    BY <2>1 DEF CallTypes
  <2> HIDE DEF c
  <2>4. p \in Pubkeys /\ id \in Nat /\ id < next_dict_id
    BY <1>1, <1>2, <1>3, <2>1 DEF CallTypes, IdsTaken
  <2>5. /\ \A q \in assigned : table[q] \in Nat /\ table[q] < next_dict_id /\ table[q] # id
        /\ \A u \in Creators : creating[u].pc = "commit" =>
              /\ creating[u].id < next_dict_id
              /\ \A q \in assigned : table[q] # creating[u].id
              /\ \A v \in Creators : creating[v].pc = "commit" /\ creating[v].id = creating[u].id => v = u
    BY <1>1, <1>2, <2>1 DEF IdsTaken
  <2> HIDE DEF p, id
  <2>6. table'[p] = id /\ \A q \in Pubkeys : q # p => table'[q] = table[q]
    BY <1>2, <2>1, <2>4
  <2>7. \A q, r \in assigned' : table'[q] = table'[r] => q = r
    BY <1>2, <2>1, <2>5, <2>6
  <2>8. IdsTaken'
    <3>1. \A q \in assigned' : table'[q] \in Nat /\ table'[q] < next_dict_id'
      BY <1>2, <2>1, <2>4, <2>5, <2>6
    <3>2. ASSUME NEW u \in Creators, creating'[u].pc = "commit"
          PROVE  /\ creating'[u].id < next_dict_id'
                 /\ \A q \in assigned' : table'[q] # creating'[u].id
                 /\ \A v \in Creators : creating'[v].pc = "commit" /\ creating'[v].id = creating'[u].id => v = u
      <4>1. u # t /\ creating'[u] = creating[u] /\ creating[u].pc = "commit"
        BY <2>2, <2>3, <3>2
      <4>2. creating[u].id # id
        BY <2>1, <2>5, <4>1 DEF id
      <4>3. \A q \in assigned' : table'[q] # creating[u].id
        BY <1>2, <2>1, <2>5, <2>6, <4>1, <4>2
      <4>4. \A v \in Creators : creating'[v].pc = "commit" /\ creating'[v].id = creating[u].id => v = u
        BY <2>2, <2>3, <2>5, <4>1
      <4>5. QED
        BY <2>1, <2>5, <4>1, <4>3, <4>4
    <3>3. QED
      BY <3>1, <3>2 DEF IdsTaken
  <2>9. OneByOne'
    <3>1. ~ overlapped => next_dict_id = n + 1 /\ id = n /\ p \notin Known(memory_cache)
      BY <1>3, <2>1 DEF CallAgrees, p, id
    <3>2. ~ overlapped' => CallAgrees(t)'
      BY <2>1, <2>2, <2>3, <2>6, <3>1 DEF CallAgrees
    <3>3. ~ overlapped' => \A q \in Known(memory_cache') : table'[q] = memory_cache'[q]
      BY <1>2, <1>3, <2>1, <2>6, <3>1
    <3>4. QED
      BY <1>3, <2>1, <2>2, <3>2, <3>3, OneCall
  <2>10. FromScan'
    <3>1. accounts' = accounts
      BY <1>1 DEF accounts
    <3>2. QED
      BY <1>1, <1>2, <2>1, <2>6, <3>1 DEF FromScan
  <2>11. QED
    BY <1>2, <2>1, <2>7, <2>8, <2>9, <2>10 DEF DictBuilt
<1>8. CASE CacheId(t)
  <2>1. /\ creating[t].pc = "cache" /\ creating' = [creating EXCEPT ![t] = NoCall]
        /\ memory_cache' = CacheInsert(memory_cache, p)
        /\ UNCHANGED <<table, next_dict_id, overlapped, created, assigned>>
    BY <1>8 DEF CacheId, Calling, GotoCall
  <2>2. NoCall.pc = "idle"
    BY DEF NoCall
  <2>3. creating'[t].pc = "idle" /\ \A u \in Creators : u # t => creating'[u] = creating[u]
    BY <2>1, <2>2 DEF CallTypes
  <2>4. p \in Pubkeys
    BY <1>3, <2>1
  <2>5. ~ overlapped => next_dict_id = n + 1 /\ table[p] = n /\ p \notin Known(memory_cache)
    BY <1>3, <2>1 DEF CallAgrees
  <2> HIDE DEF p
  <2>6. CASE memory_cache[p] # NoId
    <3>1. memory_cache' = memory_cache
      BY <1>2, <2>1, <2>4, <2>6, CacheInserted
    <3>2. overlapped
      BY <2>4, <2>5, <2>6 DEF Known
    <3>3. OneByOne'
      BY <2>1, <3>2 DEF OneByOne
    <3>4. QED
      BY <1>1, <2>1, <2>2, <3>1, <3>3, CallMoves
  <2>7. CASE memory_cache[p] = NoId
    <3>1. /\ memory_cache' = [memory_cache EXCEPT ![p] = n]
          /\ Known(memory_cache') = Known(memory_cache) \cup {p}
          /\ Cardinality(Known(memory_cache')) = n + 1
      BY <1>2, <2>1, <2>4, <2>7, CacheInserted
    <3>2. p \notin Known(memory_cache) /\ \A q \in Known(memory_cache) : q # p /\ memory_cache[q] \in Nat
      BY <1>2, <2>7 DEF Known, Ids
    <3>3. /\ memory_cache'[p] = n
          /\ \A q \in Known(memory_cache) : memory_cache'[q] = memory_cache[q] /\ memory_cache[q] < n
      BY <1>2, <2>4, <3>1, <3>2 DEF CacheCounts
    <3>4. CacheCounts(memory_cache')
      <4> SUFFICES ASSUME NEW q \in Known(memory_cache')
                   PROVE  /\ memory_cache'[q] < Cardinality(Known(memory_cache'))
                          /\ \A r \in Known(memory_cache') : memory_cache'[q] = memory_cache'[r] => q = r
        BY DEF CacheCounts
      <4>1. \A r \in Known(memory_cache') :
               \/ r = p /\ memory_cache'[r] = n
               \/ r \in Known(memory_cache) /\ memory_cache'[r] = memory_cache[r]
                  /\ memory_cache[r] < n /\ memory_cache[r] \in Nat
        BY <3>1, <3>2, <3>3
      <4>2. memory_cache'[q] < Cardinality(Known(memory_cache'))
        <5> DEFINE x == memory_cache'[q]
                   y == Cardinality(Known(memory_cache'))
        <5>1. n \in Nat /\ y = n + 1
          BY <1>2, <3>1
        <5>2. x = n \/ (x < n /\ x \in Nat)
          BY <4>1
        <5> HIDE DEF n, x, y
        <5>3. x < y
          BY <5>1, <5>2
        <5>4. QED
          BY <5>3 DEF x, y
      <4>3. \A r \in Known(memory_cache') : memory_cache'[q] = memory_cache'[r] => q = r
        BY <1>2, <4>1 DEF CacheCounts
      <4>4. QED
        BY <4>2, <4>3
    <3>5. OneByOne'
      <4>1. ~ overlapped' => next_dict_id' = Cardinality(Known(memory_cache'))
        BY <2>1, <2>5, <3>1
      <4>2. ~ overlapped' => \A q \in Known(memory_cache') : table'[q] = memory_cache'[q]
        BY <1>3, <2>1, <2>5, <3>1, <3>3
      <4>3. QED
        BY <1>3, <2>1, <2>2, <4>1, <4>2, OneCall
    <3>6. IdsTaken'
      BY <1>1, <1>2, <2>1, <2>3 DEF IdsTaken
    <3>7. FromScan'
      <4>1. accounts' = accounts
        BY <1>1 DEF accounts
      <4>2. \A q \in Known(build_pubkey_dictionary(accounts)) :
               q # p /\ q \in Pubkeys /\ memory_cache[q] = build_pubkey_dictionary(accounts)[q]
        BY <1>1, <1>2, <2>7 DEF FromScan, Known
      <4>3. \A q \in Pubkeys : q # p => memory_cache'[q] = memory_cache[q]
        BY <1>2, <3>1
      <4>4. QED
        BY <1>1, <1>2, <2>1, <4>1, <4>2, <4>3 DEF FromScan
    <3>8. QED
      BY <1>2, <2>1, <3>4, <3>5, <3>6, <3>7 DEF DictBuilt
  <2>8. QED
    BY <2>6, <2>7
<1>9. QED
  BY <1>4, <1>5, <1>6, <1>7, <1>8 DEF get_or_create_id

LEMMA DictBuiltStep ==
  ASSUME ScanTypes, CallTypes, LocatorBuilt, DictBuilt, [ScanNext]_scanVars
  PROVE  DictBuilt'
<1>1. CASE Validator
  BY <1>1, DictKept DEF Validator, AddFile, DropFile, callState
<1>2. CASE Crash \/ LocatorFails
  BY <1>2, DictExit DEF Crash, LocatorFails
<1>3. CASE Discover
  <2>1. pc' # "done"
    BY <1>3 DEF Discover
  <2>2. QED
    BY <1>3, <2>1, DictKept DEF Discover, callState
<1>4. ASSUME NEW b \in DOMAIN found, ScanFile(found[b])
      PROVE  DictBuilt'
  BY <1>4, DictKept DEF ScanFile, callState
<1>5. CASE InsertLocations
  <2>1. /\ Range(found) \subseteq DOMAIN results /\ pc' = "located"
        /\ UNCHANGED <<memory_cache, next_dict_id, table, assigned, created, creating, overlapped>>
    BY <1>5 DEF InsertLocations, Collected, callState
  <2>2. PICK ok \in SUBSET DOMAIN accounts :
           Lose(Cardinality(DOMAIN accounts \ ok)) /\ locator' = Located(accounts, ok)
    BY <1>5 DEF InsertLocations
  <2>3. accounts \in Seq(Account) /\ locator \in [Pubkeys -> Bytes]
    BY <2>1, ListedAccounts DEF ScanTypes
  <2>4. \A p \in Pubkeys : locator[p] # NoBytes => locator'[p] # NoBytes
    BY <2>2, <2>3, LocatedIsBuilt
  <2>5. lost' = 0 => lost = 0
    <3>1. IsFiniteSet(DOMAIN accounts)
      BY <2>3, FS_Interval
    <3>2. Cardinality(DOMAIN accounts \ ok) \in Nat /\ lost \in Nat
      BY <3>1, FS_Subset, FS_CardinalityType DEF ScanTypes
    <3>3. QED
      BY <2>2, <3>2 DEF Lose
  <2>6. QED
    BY <2>1, <2>4, <2>5, DictKept
<1>6. CASE InsertPubkeys
  BY <1>6, DictBatch
<1>7. ASSUME NEW t \in Creators, get_or_create_id(t)
      PROVE  DictBuilt'
  <2>1. lost \in Nat /\ (lost' = lost \/ lost' = lost + 1)
    BY <1>7, CallStep DEF ScanTypes
  <2>2. CASE lost' = 0
    <3>1. lost = 0
      BY <2>1, <2>2
    <3>2. QED
      BY <1>7, <2>2, <3>1, DictCalled
  <2>3. CASE lost' # 0
    BY <2>3 DEF DictBuilt
  <2>4. QED
    BY <2>2, <2>3
<1>8. CASE UNCHANGED scanVars
  BY <1>8, DictKept DEF scanVars
<1>9. QED
  BY <1>1, <1>2, <1>3, <1>4, <1>5, <1>6, <1>7, <1>8 DEF ScanNext

\* Without an error the locator has the last location the scan found of a pubkey, in the
\* last listed file that holds the pubkey.
LEMMA LocatedLast ==
  ASSUME ScanTypes, LocatorBuilt, pc \in {"located", "done"}, lost = 0
  PROVE  LET built == build_base_locator(accounts)
         IN  /\ \A p \in DOMAIN built : get(p) = {built[p]}
             /\ \A p \in Pubkeys : Holding(p) # {} =>
                  \E b \in DOMAIN found : \E i \in 1 .. Len(results[found[b]]) :
                     /\ results[found[b]] \in Seq(Account)
                     /\ results[found[b]][i].pubkey = p
                     /\ get(p) = {results[found[b]][i].location}
                     /\ \A m \in DOMAIN found : b < m =>
                          \A e \in 1 .. Len(results[found[m]]) : results[found[m]][e].pubkey # p
<1> DEFINE built == build_base_locator(accounts)
<1>1. Range(found) \subseteq DOMAIN results
  BY DEF ScanTypes
<1>2. accounts \in Seq(Account)
  BY <1>1, ListedAccounts
<1>3. built \in Partial
  <2>1. PICK g : /\ built = g[Len(accounts)]
                 /\ \A k \in 0 .. Len(accounts) : g[k] \in Partial
    BY <1>2, BuiltSteps
  <2>2. Len(accounts) \in 0 .. Len(accounts)
    BY <1>2
  <2>3. QED
    BY <2>1, <2>2
<1>4. \A p \in DOMAIN built : p \in Pubkeys /\ built[p] \in Locations
  <2> HIDE DEF built
  <2>1. PICK S \in SUBSET Pubkeys : built \in [S -> Locations]
    BY <1>3 DEF Partial
  <2>2. QED
    BY <2>1
<1>5. ASSUME NEW p \in DOMAIN built
      PROVE  get(p) = {built[p]}
  <2>1. locator[p] = serialize_location(built[p])
    BY <1>4 DEF LocatorBuilt
  <2> HIDE DEF built
  <2>2. locator[p] # NoBytes
    BY <2>1 DEF serialize_location, NoBytes
  <2>3. deserialize_location(locator[p]) = built[p]
    BY <1>4, <2>1, RoundTrip
  <2>4. QED
    BY <2>2, <2>3 DEF get
<1>6. ASSUME NEW p \in Pubkeys, Holding(p) # {}
      PROVE  \E b \in DOMAIN found : \E i \in 1 .. Len(results[found[b]]) :
                     /\ results[found[b]] \in Seq(Account)
                     /\ results[found[b]][i].pubkey = p
                     /\ get(p) = {results[found[b]][i].location}
                     /\ \A m \in DOMAIN found : b < m =>
                          \A e \in 1 .. Len(results[found[m]]) : results[found[m]][e].pubkey # p
  <2>1. \A n \in DOMAIN results : n \in Names /\ results[n] \in Seq(Account)
    BY <1>1, ListedAccounts
  <2>2. PICK n \in DOMAIN results : \E i \in 1 .. Len(results[n]) : results[n][i].pubkey = p
    BY <1>6, <2>1 DEF Holding
  <2>3. \E k \in 1 .. Len(accounts) : accounts[k].pubkey = p
    BY <1>1, <2>2, ListedAccounts
  <2>4. p \in DOMAIN built /\ \E j : LastAt(accounts, p, j) /\ built[p] = accounts[j].location
    BY <1>2, <2>3, BuiltIsLast
  <2>5. PICK j : LastAt(accounts, p, j) /\ built[p] = accounts[j].location
    BY <2>4
  <2>6. j \in 1 .. Len(accounts) /\ accounts[j].pubkey = p
    BY <2>5 DEF LastAt
  <2>7. PICK b \in DOMAIN found : \E i \in 1 .. Len(results[found[b]]) :
                  /\ accounts[j] = results[found[b]][i]
                  /\ LastAt(accounts, accounts[j].pubkey, j) =>
                       \A m \in DOMAIN found : b < m =>
                          \A e \in 1 .. Len(results[found[m]]) :
                             results[found[m]][e].pubkey # accounts[j].pubkey
    BY <1>1, <2>6, ListedAccounts
  <2>8. results[found[b]] \in Seq(Account)
    BY <1>1, <2>1 DEF Range
  <2>9. get(p) = {accounts[j].location}
    BY <1>5, <2>4, <2>5
  <2> HIDE DEF built
  <2>10. QED
    BY <2>5, <2>6, <2>7, <2>8, <2>9
<1>7. QED
  BY <1>5, <1>6

LEMMA NewestFromLast ==
  ASSUME ScanTypes, LocatorBuilt
  PROVE  NewestLocated
<1> SUFFICES ASSUME pc \in {"located", "done"}, lost = 0
             PROVE  /\ \A p \in Pubkeys : InSlotOrder(p) =>
                          \A n \in Holding(p) : \A k \in LocationsIn(n, p) :
                              \E l \in get(p) : ~is_newer_than(k, l)
                    /\ LET built == build_base_locator(accounts)
                       IN  \A p \in DOMAIN built : get(p) = {built[p]}
  BY DEF NewestLocated
<1>1. ASSUME NEW p \in Pubkeys, InSlotOrder(p), NEW n \in Holding(p), NEW k \in LocationsIn(n, p)
      PROVE  \E l \in get(p) : ~is_newer_than(k, l)
  <2>1. PICK b \in DOMAIN found : \E i \in 1 .. Len(results[found[b]]) :
                     /\ results[found[b]] \in Seq(Account)
                     /\ results[found[b]][i].pubkey = p
                     /\ get(p) = {results[found[b]][i].location}
                     /\ \A m \in DOMAIN found : b < m =>
                          \A e \in 1 .. Len(results[found[m]]) : results[found[m]][e].pubkey # p
    BY <1>1, LocatedLast
  <2> DEFINE m == found[b]
  <2>2. PICK i \in 1 .. Len(results[m]) :
                     /\ results[m] \in Seq(Account)
                     /\ results[m][i].pubkey = p
                     /\ get(p) = {results[m][i].location}
    BY <2>1
  <2> DEFINE l == results[m][i].location
  <2>3. l \in get(p) /\ i \in DOMAIN results[m] /\ results[m][i] \in Account
    BY <2>2
  <2>4. l \in Locations
    BY <2>3 DEF Account
  <2>5. Range(found) \subseteq DOMAIN results /\ DOMAIN results \subseteq Range(found)
    BY DEF ScanTypes
  <2>6. m \in DOMAIN results
    BY <2>5 DEF Range
  <2>7. m \in Holding(p) /\ l \in LocationsIn(m, p)
    BY <2>2, <2>3, <2>6 DEF Holding, LocationsIn
  <2>8. CASE n = m
    <3>1. IsFiniteSet(LocationsIn(m, p)) /\ Cardinality(LocationsIn(m, p)) = 1
      <4>1. Cardinality(LocationsIn(m, p)) = 1
        BY <1>1, <2>7 DEF InSlotOrder
      <4>2. IsFiniteSet(1 .. Len(results[m]))
        <5> HIDE DEF m
        <5>1. Len(results[m]) \in Int
          BY <2>2
        <5>2. QED
          BY <5>1, FS_Interval
      <4> DEFINE I == {j \in DOMAIN results[m] : results[m][j].pubkey = p}
      <4>3. I \subseteq 1 .. Len(results[m])
        BY <2>2
      <4>4. IsFiniteSet(I)
        BY <4>2, <4>3, FS_Subset
      <4>5. LocationsIn(m, p) = {results[m][j].location : j \in I}
        BY DEF LocationsIn
      <4> HIDE DEF I, m
      <4>6. [j \in I |-> results[m][j].location] \in Surjection(I, LocationsIn(m, p))
        BY <4>5 DEF Surjection
      <4>7. QED
        BY <4>1, <4>4, <4>6, FS_Surjection DEF ExistsSurjection
    <3>2. PICK x : LocationsIn(m, p) = {x}
      BY <3>1, FS_Singleton
    <3>3. k = l
      BY <2>7, <2>8, <3>2
    <3> HIDE DEF l
    <3>4. ~ is_newer_than(k, l)
      BY <2>4, <3>3 DEF is_newer_than, Locations
    <3>5. QED
      BY <2>3, <3>4 DEF l
  <2>9. CASE n # m
    <3>1. n \in DOMAIN results /\ \E e \in DOMAIN results[n] : results[n][e].pubkey = p
      BY DEF Holding
    <3>2. PICK a \in DOMAIN found : found[a] = n
      BY <2>5, <3>1 DEF Range
    <3>3. results[n] \in Seq(Account)
      BY <2>5, <3>1, ListedAccounts
    <3>4. ~ (b < a)
      BY <2>1, <3>1, <3>2, <3>3
    <3>5. a < b
      <4>1. found \in Seq(Names)
        BY DEF ScanTypes
      <4>2. a \in Nat /\ b \in Nat /\ a # b
        BY <2>9, <3>2, <4>1
      <4>3. QED
        BY <3>4, <4>2
    <3>6. n[1] <= m[1]
      BY <3>2, <3>5 DEF ScanTypes
    <3>7. n[1] # m[1]
      BY <1>1, <2>7, <2>9 DEF InSlotOrder
    <3>8. n \in Names /\ m \in Names
      BY <2>5, <2>6, <3>1, ListedAccounts
    <3>9. n[1] < m[1]
      BY <3>6, <3>7, <3>8, ScanConstants
    <3> HIDE DEF l, m
    <3>10. ~ is_newer_than(k, l)
      BY <1>1, <2>7, <2>9, <3>9 DEF InSlotOrder
    <3>11. QED
      BY <2>3, <3>10
  <2>10. QED
    BY <2>8, <2>9
<1>2. QED
  BY <1>1, LocatedLast

LEMMA ReadsBackFromLast ==
  ASSUME ScanTypes, LocatorBuilt, MapsKept
  PROVE  LocatedReadsBack
<1> SUFFICES ASSUME pc \in {"located", "done"}, lost = 0, NEW p \in Pubkeys, Holding(p) # {}
             PROVE  \E l \in get(p) :
                LET c == get_mmap_file(l.file_id)
                    from == {n \in DOMAIN results : n[1] = l.file_id}
                    whole == \A k \in DOMAIN c : Offset(c, k) = l.offset => c[k].size < U32
                IN  Cardinality(from) = 1 /\ whole =>
                      /\ \E r \in read_batch(mmap_files, l) :
                            /\ r.pubkey = p /\ r.slot = l.slot
                            /\ get_account_pubkey(r) = {p} /\ get_account_data_size(r) = {l.data_len}
                            /\ validate_account_record(r, Length(c) - l.offset)
                            /\ align_to_8(r.size) = l.stored_size + padding_needed(r.size, 8)
                      /\ ~ panics_at_offset(l.offset, c)
                      /\ \E a \in get_account_at_offset(l.file_id, l.offset, c) :
                            a.pubkey = p /\ a.location = l
                      /\ \E s \in get_slice(c, l), d \in get_account_data(c, l) :
                            s[1] <= d[1] /\ d[2] <= s[2]
                      /\ \A n \in from : LocationsIn(n, p) = {l} => locate_account(l.file_id, c, p) = {l}
  BY DEF LocatedReadsBack
<1>1. PICK b \in DOMAIN found : \E i \in 1 .. Len(results[found[b]]) :
                 /\ results[found[b]] \in Seq(Account)
                 /\ results[found[b]][i].pubkey = p
                 /\ get(p) = {results[found[b]][i].location}
  BY LocatedLast
<1> DEFINE n == found[b]
<1>2. PICK i \in 1 .. Len(results[n]) :
                 /\ results[n] \in Seq(Account)
                 /\ results[n][i].pubkey = p
                 /\ get(p) = {results[n][i].location}
  BY <1>1
<1> DEFINE l == results[n][i].location
           c == get_mmap_file(l.file_id)
           from == {m \in DOMAIN results : m[1] = l.file_id}
<1>3. DOMAIN results \subseteq Names /\ n \in DOMAIN results
  BY DEF ScanTypes, Range
<1>4. results[n] # <<>> /\ i \in DOMAIN results[n]
  BY <1>2
<1>5. \E d \in FileContents[n] : results[n] = Scanned(n[1], d)
  BY <1>3, <1>4 DEF ScanTypes
<1>6. l.file_id = n[1]
  <2>1. PICK d \in FileContents[n] : results[n] = Scanned(n[1], d)
    BY <1>5
  <2>2. PICK j \in 1 .. Len(d) : /\ Reached(d, j) /\ Parses(d[j])
                                 /\ results[n][i] = parse_account_record(n[1], Offset(d, j), d[j])
    <3>1. n \in Names /\ i \in 1 .. Len(Scanned(n[1], d))
      BY <1>2, <1>3, <2>1
    <3>2. QED
      BY <2>1, <3>1, ScannedAccounts
  <2>3. QED
    BY <2>2 DEF parse_account_record
<1> HIDE DEF n
<1>7. ASSUME Cardinality(from) = 1,
             \A k \in DOMAIN c : Offset(c, k) = l.offset => c[k].size < U32
      PROVE  /\ \E r \in read_batch(mmap_files, l) :
                    /\ r.pubkey = p /\ r.slot = l.slot
                    /\ get_account_pubkey(r) = {p} /\ get_account_data_size(r) = {l.data_len}
                    /\ validate_account_record(r, Length(c) - l.offset)
                    /\ align_to_8(r.size) = l.stored_size + padding_needed(r.size, 8)
             /\ ~ panics_at_offset(l.offset, c)
             /\ \E a \in get_account_at_offset(l.file_id, l.offset, c) :
                    a.pubkey = p /\ a.location = l
             /\ \E s \in get_slice(c, l), d \in get_account_data(c, l) :
                    s[1] <= d[1] /\ d[2] <= s[2]
             /\ \A m \in from : LocationsIn(m, p) = {l} => locate_account(l.file_id, c, p) = {l}
  <2>1. n \in from /\ from \subseteq Names
    BY <1>3, <1>6
  <2>2. IsFiniteSet(from)
    BY <2>1, ScanConstants, FS_Subset
  <2> HIDE DEF from
  <2>3. PICK x : from = {x}
    BY <1>7, <2>2, FS_Singleton
  <2>4. from = {n}
    BY <2>1, <2>3
  <2>5. \A m \in DOMAIN results : m[1] = n[1] => m = n
    BY <1>6, <2>4 DEF from
  <2>6. /\ n[1] \in DOMAIN mmap_files
        /\ mmap_files[n[1]] \in FileContents[n]
        /\ results[n] = Scanned(n[1], mmap_files[n[1]])
    BY <1>3, <1>4, <2>5 DEF MapsKept
  <2>7. c = mmap_files[n[1]]
    BY <1>6, <2>6 DEF get_mmap_file
  <2> HIDE DEF c
  <2>8. n \in Names /\ n[1] \in Nat
    BY <1>3, ScanConstants
  <2>9. c \in Seq(Record) /\ Scanned(n[1], c) \in Seq(Account)
    BY <2>6, <2>7, <2>8, ScannedAccounts
  <2>10. PICK j \in 1 .. Len(c) : /\ Reached(c, j) /\ Parses(c[j])
                                  /\ results[n][i] = parse_account_record(n[1], Offset(c, j), c[j])
    BY <1>2, <2>6, <2>7, <2>8, ScannedAccounts
  <2> DEFINE a == parse_account_record(n[1], Offset(c, j), c[j])
  <2>11. l = a.location /\ p = a.pubkey
    BY <1>2, <2>10
  <2>12. ReadBack(mmap_files, a.location, a.pubkey, c)
    <3>1. Offset(c, j) = l.offset
      BY <2>10, <2>11 DEF parse_account_record
    <3>2. c[j].size < U32
      BY <1>7, <2>9, <3>1
    <3> HIDE DEF l, a
    <3>3. QED
      BY <2>6, <2>7, <2>8, <2>9, <2>10, <3>2, ReadsBack DEF a
  <2>13. ASSUME LocationsIn(n, p) = {l}
         PROVE  locate_account(l.file_id, c, p) = {l}
    <3>1. \A k \in DOMAIN results[n] : results[n][k].pubkey = p => results[n][k].location = l
      BY <2>13 DEF LocationsIn
    <3>2. results[n] = Scanned(n[1], c)
      BY <2>6, <2>7
    <3> HIDE DEF l
    <3>3. OnlyAt(Scanned(n[1], c), p, l)
      BY <1>2, <1>4, <2>9, <3>1, <3>2 DEF OnlyAt
    <3>4. locate_account(n[1], c, p) = {l}
      BY <3>3, LocatesOnly
    <3>5. QED
      BY <1>6, <3>4
  <2> HIDE DEF l, a
  <2>14. QED
    BY <2>4, <2>11, <2>12, <2>13 DEF a, ReadBack
<1>8. l \in get(p)
  BY <1>2
<1>9. QED
  BY <1>7, <1>8

LEMMA IdsFromDict ==
  ASSUME ScanTypes, DictBuilt
  PROVE  IdsAgree
<1> SUFFICES ASSUME lost = 0
             PROVE  /\ \A p \in Pubkeys : memory_cache[p] # NoId => get_pubkey(get_id(p)) = {p}
                    /\ ~overlapped => \A p \in Pubkeys :
                          memory_cache[p] # NoId => get_id(p) = table[p]
                    /\ \A p, q \in assigned : table[p] = table[q] => p = q
                    /\ \A p \in Pubkeys \ created : table[p] # NoId => locator[p] # NoBytes
                    /\ pc = "done" => LET dict == build_pubkey_dictionary(accounts) IN
                          \A p \in Pubkeys : dict[p] # NoId => get_id(p) = dict[p]
  BY DEF IdsAgree
<1>1. ASSUME NEW p \in Pubkeys, memory_cache[p] # NoId
      PROVE  get_pubkey(get_id(p)) = {p} /\ (~overlapped => get_id(p) = table[p])
  <2>1. p \in Known(memory_cache)
    BY <1>1 DEF Known
  <2>2. get_id(p) = memory_cache[p] /\ (~overlapped => memory_cache[p] = table[p])
    BY <1>1, <2>1 DEF get_id, DictBuilt, OneByOne
  <2>3. \A q \in Pubkeys : memory_cache[q] = memory_cache[p] => q = p
    BY <1>1, <2>1 DEF DictBuilt, CacheCounts, Known
  <2>4. QED
    BY <2>2, <2>3 DEF get_pubkey
<1>2. ASSUME pc = "done", NEW p \in Pubkeys, build_pubkey_dictionary(accounts)[p] # NoId
      PROVE  get_id(p) = build_pubkey_dictionary(accounts)[p]
  <2>1. p \in Known(build_pubkey_dictionary(accounts))
    BY <1>2 DEF Known
  <2>2. memory_cache[p] = build_pubkey_dictionary(accounts)[p]
    BY <1>2, <2>1 DEF DictBuilt, FromScan
  <2>3. QED
    BY <1>2, <2>2 DEF get_id
<1>3. QED
  BY <1>1, <1>2 DEF DictBuilt, FromScan

\* The invariant that the three properties rest on: what the results, mappings, locator and
\* dictionary are made of at each point of a scan (scan(), insert_batch(),
\* get_or_create_id(), and the kills in between).
ScanInv == ScanTypes /\ CallTypes /\ MapsKept /\ LocatorBuilt /\ DictBuilt

LEMMA ScanInvariant == ScanSpec => []ScanInv
<1>1. ScanInit => ScanInv
  <2> SUFFICES ASSUME ScanInit
               PROVE  ScanInv
    OBVIOUS
  <2>1. ScanTypes
    BY ScanTypesInit
  <2>2. pc = "down" /\ results = EmptyMap /\ next_dict_id = 0 /\ assigned = {}
        /\ memory_cache = EmptyDictionary.cache /\ \A p \in Pubkeys : table[p] = NoId
    BY DEF ScanInit, EmptyDictionary
  <2>3. DOMAIN results = {}
    BY <2>2 DEF EmptyMap
  <2>4. Known(memory_cache) = {}
    BY <2>2, EmptyCache
  <2>5. Cardinality(Known(memory_cache)) = 0
    BY <2>4, FS_EmptySet
  <2>6. CallTypes /\ \A t \in Creators : creating[t].pc = "idle"
    BY DEF ScanInit, NoCall, CallTypes, Steps
  <2>7. CacheCounts(memory_cache) /\ IdsTaken /\ OneByOne /\ FromScan
    BY <2>2, <2>4, <2>5, <2>6 DEF CacheCounts, IdsTaken, OneByOne, FromScan
  <2>8. MapsKept /\ LocatorBuilt /\ DictBuilt
    BY <2>2, <2>3, <2>7 DEF MapsKept, LocatorBuilt, DictBuilt
  <2>9. QED
    BY <2>1, <2>6, <2>8 DEF ScanInv
<1>2. ScanInv /\ [ScanNext]_scanVars => ScanInv'
  BY ScanTypesStep, CallTypesStep, MapsKeptStep, LocatorBuiltStep, DictBuiltStep DEF ScanInv
<1>3. QED
  BY <1>1, <1>2, PTL DEF ScanSpec

\* After insert_batch(), whatever order the threads of scan() took the files in, the locator
\* says of every scanned pubkey what build_base_locator() makes of the scan, and of a pubkey
\* whose files are in slot order no version older than any scanned one, as long as no
\* database error was dropped.
THEOREM ScanNewest == ScanSpec => []NewestLocated
<1>1. ScanInv => NewestLocated
  BY NewestFromLast DEF ScanInv
<1>2. QED
  BY <1>1, ScanInvariant, PTL

\* What RocksLocator::get() answers for a scanned pubkey whose record has a size that fits
\* a u32 leads read_batch(), get_account_at_offset(), which does not panic, the readers of
\* single fields and locate_account() back to that account in the mapping scan_file() kept,
\* whatever the validator did to its files since, if its file_id is that of one file.
THEOREM ScanReadsBack == ScanSpec => []LocatedReadsBack
<1>1. ScanInv => LocatedReadsBack
  BY ReadsBackFromLast DEF ScanInv
<1>2. QED
  BY <1>1, ScanInvariant, PTL

\* However the calls of get_or_create_id() interleave and wherever the process is killed:
\* the ids of the in-memory cache are distinct and begin with those of
\* build_pubkey_dictionary(), and the pubkeys a process gave ids share none in the table.
\* As long as no two calls overlapped, an id in the cache is the one in the table.
THEOREM ScanIds == ScanSpec => []IdsAgree
<1>1. ScanInv => IdsAgree
  BY IdsFromDict DEF ScanInv
<1>2. QED
  BY <1>1, ScanInvariant, PTL

----------------------------------------------------------------------------
(* The levels of the Merkle tree, and the place of an entry in each.        *)

\* s is a list of n entries.
Lists(s, n) == s = [i \in 1 .. n |-> s[i]]

LEMMA ListLength ==
  ASSUME NEW n \in Nat, NEW s, Lists(s, n)
  PROVE  Len(s) = n /\ DOMAIN s = 1 .. n
<1> DEFINE E == {s[i] : i \in 1 .. n}
<1>1. s \in [1 .. n -> E]
  BY DEF Lists
<1>2. s \in Seq(E)
  BY <1>1, SeqDef
<1>3. QED
  BY <1>1, <1>2, LenProperties

\* Different pairs have different hashes.
LEMMA NodeHashes ==
  ASSUME NEW a, NEW b, NEW c, NEW d, node_hash(a, b) = node_hash(c, d)
  PROVE  a = c /\ b = d
BY DEF node_hash, sha256

\* Two entries make one of the next level, and a last one without a partner goes up.
LEMMA NextLevelEntries ==
  ASSUME NEW n \in Nat, NEW s, Lists(s, n)
  PROVE  /\ Lists(NextLevel(s), (n + 1) \div 2)
         /\ \A i \in 1 .. (n + 1) \div 2 :
               NextLevel(s)[i] = IF 2 * i <= n THEN node_hash(s[2 * i - 1], s[2 * i]) ELSE s[2 * i - 1]
<1>1. Len(s) = n
  BY ListLength
<1>2. NextLevel(s) = [i \in 1 .. (n + 1) \div 2 |->
                        IF 2 * i <= n THEN node_hash(s[2 * i - 1], s[2 * i]) ELSE s[2 * i - 1]]
  BY <1>1 DEF NextLevel
<1>3. QED
  BY <1>2, Zenon DEF Lists

\* levels() obeys its equation.
LEMMA LevelsStep ==
  ASSUME NEW list, Len(list) \in Nat
  PROVE  /\ DOMAIN levels(list) = 0 .. Len(list)
         /\ levels(list)[0] = list
         /\ \A k \in 0 .. Len(list) - 1 : levels(list)[k + 1] = NextLevel(levels(list)[k])
<1> DEFINE n == Len(list)
           Rec(f, m) == f = [k \in 0 .. m |-> IF k = 0 THEN list ELSE NextLevel(f[k - 1])]
           S == {m \in 0 .. n : \E f : f = [k \in 0 .. m |-> IF k = 0 THEN list ELSE NextLevel(f[k - 1])]}
<1>1. 0 \in S
  <2> DEFINE f == [k \in 0 .. 0 |-> list]
  <2>1. f = [k \in 0 .. 0 |-> IF k = 0 THEN list ELSE NextLevel(f[k - 1])]
    OBVIOUS
  <2> HIDE DEF f
  <2>2. QED
    BY <2>1
<1>2. ASSUME NEW m \in 0 .. n - 1, m \in S
      PROVE  m + 1 \in S
  <2>1. PICK g : g = [k \in 0 .. m |-> IF k = 0 THEN list ELSE NextLevel(g[k - 1])]
    BY <1>2
  <2> DEFINE f == [k \in 0 .. m + 1 |-> IF k = m + 1 THEN NextLevel(g[m]) ELSE g[k]]
  <2>2. ASSUME NEW k \in 0 .. m + 1
        PROVE  f[k] = IF k = 0 THEN list ELSE NextLevel(f[k - 1])
    <3>1. CASE k = m + 1
      <4>1. f[k - 1] = g[m] /\ f[k] = NextLevel(g[m]) /\ k # 0
        BY <3>1
      <4>2. QED
        BY <4>1
    <3>2. CASE k # m + 1
      <4>1. k \in 0 .. m /\ (k # 0 => k - 1 \in 0 .. m /\ k - 1 # m + 1)
        BY <3>2
      <4>2. f[k] = g[k] /\ (k # 0 => f[k - 1] = g[k - 1])
        BY <3>2, <4>1
      <4>3. g[k] = IF k = 0 THEN list ELSE NextLevel(g[k - 1])
        BY <2>1, <4>1
      <4>4. QED
        BY <4>2, <4>3
    <3>3. QED
      BY <3>1, <3>2
  <2>3. DOMAIN f = 0 .. m + 1 /\ f = [k \in 0 .. m + 1 |-> f[k]]
    OBVIOUS
  <2> HIDE DEF f
  <2>4. f = [k \in 0 .. m + 1 |-> IF k = 0 THEN list ELSE NextLevel(f[k - 1])]
    BY <2>2, <2>3, Zenon
  <2>5. m + 1 \in 0 .. n
    OBVIOUS
  <2>6. QED
    BY <2>4, <2>5
<1>3. n \in S
  <2> HIDE DEF S
  <2>1. 0 .. n \subseteq S
    BY <1>1, <1>2, UpTo
  <2>2. QED
    BY <2>1
<1>4. PICK f : f = [k \in 0 .. n |-> IF k = 0 THEN list ELSE NextLevel(f[k - 1])]
  BY <1>3
<1>5. levels(list) = [k \in 0 .. n |-> IF k = 0 THEN list ELSE NextLevel(levels(list)[k - 1])]
  BY <1>4, Zenon DEF levels
<1>6. ASSUME NEW k \in 0 .. n - 1
      PROVE  levels(list)[k + 1] = NextLevel(levels(list)[k])
  <2>1. k + 1 \in 0 .. n /\ k + 1 # 0 /\ (k + 1) - 1 = k
    OBVIOUS
  <2>2. QED
    BY <1>5, <2>1
<1>7. QED
  <2> HIDE DEF n
  <2>1. QED
    BY <1>5, <1>6 DEF n

\* places() and sizes() are numbers, halved at each level.
LEMMA PlacesStep ==
  ASSUME NEW index \in Nat, NEW n \in Nat
  PROVE  /\ places(index, n) \in [0 .. n -> Nat]
         /\ places(index, n)[0] = index
         /\ \A k \in 0 .. n - 1 : places(index, n)[k + 1] = places(index, n)[k] \div 2
<1> DEFINE half == [p \in Nat |-> p \div 2]
           step == [k \in 1 .. n |-> half]
<1>1. StaysIn(Nat, n, step)
  BY DEF StaysIn
<1>2. PICK f \in [0 .. n -> Nat] : f[0] = index /\ \A k \in 1 .. n : f[k] = step[k][f[k - 1]]
  <2>1. \E f : Made(f, n, Nat, index, step)
    BY <1>1, Recursion
  <2>2. QED
    BY <2>1 DEF Made
<1>3. ASSUME NEW k \in 1 .. n
      PROVE  f[k] = f[k - 1] \div 2
  <2>1. f[k] = step[k][f[k - 1]] /\ f[k - 1] \in Nat
    BY <1>2
  <2>2. QED
    BY <2>1
<1>4. f = [k \in 0 .. n |-> IF k = 0 THEN index ELSE f[k - 1] \div 2]
  BY <1>2, <1>3
<1> HIDE DEF step
<1>5. places(index, n) = [k \in 0 .. n |-> IF k = 0 THEN index ELSE places(index, n)[k - 1] \div 2]
  BY <1>4, Zenon DEF places
<1> DEFINE P == places(index, n)
           S == {k \in 0 .. n : P[k] \in Nat}
<1>6. P[0] = index /\ \A k \in 0 .. n - 1 : P[k + 1] = P[k] \div 2
  <2>1. \A k \in 0 .. n - 1 : k + 1 \in 0 .. n /\ k + 1 # 0 /\ (k + 1) - 1 = k
    OBVIOUS
  <2>2. QED
    BY <1>5, <2>1
<1>7. 0 .. n \subseteq S
  <2> HIDE DEF P
  <2>1. 0 \in S
    BY <1>6
  <2>2. ASSUME NEW k \in 0 .. n - 1, k \in S
        PROVE  k + 1 \in S
    <3>1. P[k + 1] = P[k] \div 2 /\ P[k] \in Nat
      BY <1>6, <2>2
    <3>2. QED
      BY <3>1
  <2> HIDE DEF S
  <2>3. QED
    BY <2>1, <2>2, UpTo
<1>8. P \in [0 .. n -> Nat]
  BY <1>5, <1>7
<1>9. QED
  BY <1>6, <1>8

LEMMA SizesStep ==
  ASSUME NEW n \in Nat
  PROVE  /\ sizes(n) \in [0 .. n -> Nat]
         /\ sizes(n)[0] = n
         /\ \A k \in 0 .. n - 1 : sizes(n)[k + 1] = (sizes(n)[k] + 1) \div 2
<1> DEFINE half == [p \in Nat |-> (p + 1) \div 2]
           step == [k \in 1 .. n |-> half]
<1>1. StaysIn(Nat, n, step)
  BY DEF StaysIn
<1>2. PICK f \in [0 .. n -> Nat] : f[0] = n /\ \A k \in 1 .. n : f[k] = step[k][f[k - 1]]
  <2>1. \E f : Made(f, n, Nat, n, step)
    BY <1>1, Recursion
  <2>2. QED
    BY <2>1 DEF Made
<1>3. ASSUME NEW k \in 1 .. n
      PROVE  f[k] = (f[k - 1] + 1) \div 2
  <2>1. f[k] = step[k][f[k - 1]] /\ f[k - 1] \in Nat
    BY <1>2
  <2>2. QED
    BY <2>1
<1>4. f = [k \in 0 .. n |-> IF k = 0 THEN n ELSE (f[k - 1] + 1) \div 2]
  BY <1>2, <1>3
<1> HIDE DEF step
<1>5. sizes(n) = [k \in 0 .. n |-> IF k = 0 THEN n ELSE (sizes(n)[k - 1] + 1) \div 2]
  BY <1>4, Zenon DEF sizes
<1> DEFINE P == sizes(n)
           S == {k \in 0 .. n : P[k] \in Nat}
<1>6. P[0] = n /\ \A k \in 0 .. n - 1 : P[k + 1] = (P[k] + 1) \div 2
  <2>1. \A k \in 0 .. n - 1 : k + 1 \in 0 .. n /\ k + 1 # 0 /\ (k + 1) - 1 = k
    OBVIOUS
  <2>2. QED
    BY <1>5, <2>1
<1>7. 0 .. n \subseteq S
  <2> HIDE DEF P
  <2>1. 0 \in S
    BY <1>6
  <2>2. ASSUME NEW k \in 0 .. n - 1, k \in S
        PROVE  k + 1 \in S
    <3>1. P[k + 1] = (P[k] + 1) \div 2 /\ P[k] \in Nat
      BY <1>6, <2>2
    <3>2. QED
      BY <3>1
  <2> HIDE DEF S
  <2>3. QED
    BY <2>1, <2>2, UpTo
<1>8. P \in [0 .. n -> Nat]
  BY <1>5, <1>7
<1>9. QED
  BY <1>6, <1>8

\* Level k has as many entries as sizes() says, and down to one of them.
LEMMA LevelSizes ==
  ASSUME NEW n \in Nat, NEW list, Lists(list, n)
  PROVE  \A k \in 0 .. n : Lists(levels(list)[k], sizes(n)[k])
<1> DEFINE S == {k \in 0 .. n : Lists(levels(list)[k], sizes(n)[k])}
<1>1. Len(list) = n
  BY ListLength
<1>2. /\ levels(list)[0] = list /\ sizes(n)[0] = n /\ sizes(n) \in [0 .. n -> Nat]
      /\ \A k \in 0 .. n - 1 : /\ levels(list)[k + 1] = NextLevel(levels(list)[k])
                               /\ sizes(n)[k + 1] = (sizes(n)[k] + 1) \div 2
  BY <1>1, LevelsStep, SizesStep
<1>3. 0 \in S
  BY <1>2
<1>4. ASSUME NEW k \in 0 .. n - 1, k \in S
      PROVE  k + 1 \in S
  <2>1. /\ levels(list)[k + 1] = NextLevel(levels(list)[k])
        /\ sizes(n)[k + 1] = (sizes(n)[k] + 1) \div 2 /\ sizes(n)[k] \in Nat
    BY <1>2
  <2>2. Lists(levels(list)[k], sizes(n)[k])
    BY <1>4
  <2>3. QED
    BY <2>1, <2>2, NextLevelEntries
<1> HIDE DEF S
<1>5. 0 .. n \subseteq S
  BY <1>3, <1>4, UpTo
<1>6. QED
  BY <1>5 DEF S

LEMMA SizesShrink ==
  ASSUME NEW n \in Nat \ {0}
  PROVE  /\ \A k \in 0 .. n : sizes(n)[k] >= 1
         /\ sizes(n)[n] = 1
<1> DEFINE z == sizes(n)
           S == {k \in 0 .. n : z[k] >= 1 /\ (z[k] = 1 \/ z[k] <= n - k)}
<1>1. z[0] = n /\ z \in [0 .. n -> Nat] /\ \A k \in 0 .. n - 1 : z[k + 1] = (z[k] + 1) \div 2
  BY SizesStep
<1> HIDE DEF z
<1>2. 0 \in S
  BY <1>1
<1>3. ASSUME NEW k \in 0 .. n - 1, k \in S
      PROVE  k + 1 \in S
  <2>1. z[k + 1] = (z[k] + 1) \div 2 /\ z[k] \in Nat
    BY <1>1
  <2>2. QED
    BY <1>3, <2>1
<1> HIDE DEF S
<1>4. 0 .. n \subseteq S
  BY <1>2, <1>3, UpTo
<1>5. n \in 0 .. n /\ n - n = 0 /\ z[n] \in Nat
  BY <1>1
<1>6. QED
  BY <1>4, <1>5 DEF S, z

\* The loops end at the first level of one entry.
LEMMA TopLevel ==
  ASSUME NEW n \in Nat \ {0}, NEW list, Lists(list, n)
  PROVE  /\ Top(list) \in 0 .. n
         /\ sizes(n)[Top(list)] = 1
         /\ \A k \in 0 .. Top(list) - 1 : sizes(n)[k] > 1
<1> DEFINE Z == {k \in 0 .. n : sizes(n)[k] = 1}
<1>1. PICK h \in Z : \A k \in Z : h <= k
  <2>1. Z \in SUBSET Nat /\ n \in Z
    BY SizesShrink
  <2> HIDE DEF Z
  <2>2. QED
    BY <2>1, LeastNumber
<1>2. sizes(n) \in [0 .. n -> Nat] /\ \A k \in 0 .. n : sizes(n)[k] >= 1
  BY SizesStep, SizesShrink
<1>3. \A k \in 0 .. h - 1 : sizes(n)[k] > 1
  BY <1>1, <1>2
<1>4. DOMAIN levels(list) = 0 .. n
  BY ListLength, LevelsStep
<1>5. \A k \in 0 .. n : Len(levels(list)[k]) = sizes(n)[k]
  BY LevelSizes, ListLength, <1>2
<1> DEFINE Good(g) == Len(levels(list)[g]) = 1 /\ \A k \in 0 .. g - 1 : Len(levels(list)[k]) > 1
<1>6. h \in 0 .. n /\ Good(h)
  <2>1. h \in 0 .. n /\ sizes(n)[h] = 1 /\ \A k \in 0 .. h - 1 : k \in 0 .. n
    BY <1>1
  <2>2. QED
    BY <2>1, <1>3, <1>5
<1>7. Top(list) \in 0 .. n /\ Good(Top(list))
  <2>1. Top(list) = CHOOSE g \in 0 .. n : Good(g)
    BY <1>4 DEF Top
  <2> HIDE DEF Good
  <2>2. QED
    BY <1>6, <2>1
<1>8. \A k \in 0 .. Top(list) - 1 : k \in 0 .. n
  BY <1>7
<1>9. QED
  BY <1>5, <1>7, <1>8

\* The entry at an index has a place in every level, the only one in the top level.
LEMMA PlaceInLevel ==
  ASSUME NEW n \in Nat \ {0}, NEW index \in 0 .. n - 1
  PROVE  \A k \in 0 .. n : places(index, n)[k] < sizes(n)[k]
<1> DEFINE z == sizes(n)
           p == places(index, n)
           S == {k \in 0 .. n : p[k] < z[k]}
<1>1. /\ z[0] = n /\ z \in [0 .. n -> Nat] /\ \A k \in 0 .. n - 1 : z[k + 1] = (z[k] + 1) \div 2
      /\ p[0] = index /\ p \in [0 .. n -> Nat] /\ \A k \in 0 .. n - 1 : p[k + 1] = p[k] \div 2
  <2>1. n \in Nat /\ index \in Nat
    OBVIOUS
  <2>2. QED
    BY <2>1, SizesStep, PlacesStep
<1> HIDE DEF z, p
<1>2. 0 \in S
  BY <1>1
<1>3. ASSUME NEW k \in 0 .. n - 1, k \in S
      PROVE  k + 1 \in S
  <2>1. /\ z[k + 1] = (z[k] + 1) \div 2 /\ z[k] \in Nat
        /\ p[k + 1] = p[k] \div 2 /\ p[k] \in Nat /\ p[k] < z[k]
    BY <1>1, <1>3
  <2>2. p[k + 1] < z[k + 1]
    BY <2>1
  <2>3. QED
    BY <2>2
<1> HIDE DEF S
<1>4. 0 .. n \subseteq S
  BY <1>2, <1>3, UpTo
<1>5. QED
  BY <1>4 DEF S, z, p

----------------------------------------------------------------------------
(* The entry at place q of level k, and the way from a leaf to the top.      *)

Entry(list, k, q) == levels(list)[k][q + 1]

\* An entry above the leaves is made of the one or two below it.
LEMMA EntryMade ==
  ASSUME NEW n \in Nat \ {0}, NEW list, Lists(list, n),
         NEW k \in 0 .. n - 1, NEW q \in Nat, q < sizes(n)[k + 1]
  PROVE  /\ 2 * q + 1 < sizes(n)[k] =>
              Entry(list, k + 1, q) = node_hash(Entry(list, k, 2 * q), Entry(list, k, 2 * q + 1))
         /\ 2 * q + 1 >= sizes(n)[k] => Entry(list, k + 1, q) = Entry(list, k, 2 * q)
<1> DEFINE m == sizes(n)[k]
           s == levels(list)[k]
<1>1. m \in Nat /\ sizes(n)[k + 1] = (m + 1) \div 2
  <2>1. n \in Nat /\ k \in 0 .. n
    OBVIOUS
  <2>2. QED
    BY <2>1, SizesStep
<1>2. Lists(s, m)
  BY LevelSizes
<1>3. levels(list)[k + 1] = NextLevel(s)
  BY ListLength, LevelsStep
<1> HIDE DEF m, s
<1>4. \A i \in 1 .. (m + 1) \div 2 :
         NextLevel(s)[i] = IF 2 * i <= m THEN node_hash(s[2 * i - 1], s[2 * i]) ELSE s[2 * i - 1]
  BY <1>1, <1>2, NextLevelEntries
<1>5. q + 1 \in 1 .. (m + 1) \div 2
  BY <1>1
<1>6. 2 * (q + 1) - 1 = 2 * q + 1 /\ 2 * (q + 1) = 2 * q + 1 + 1
  OBVIOUS
<1>7. NextLevel(s)[q + 1] =
         IF 2 * (q + 1) <= m THEN node_hash(s[2 * q + 1], s[2 * q + 1 + 1]) ELSE s[2 * q + 1]
  BY <1>4, <1>5, <1>6
<1>8. QED
  BY <1>1, <1>3, <1>7 DEF Entry, m, s

\* The sibling of an entry.
LEMMA EntrySibling ==
  ASSUME NEW n \in Nat \ {0}, NEW list, Lists(list, n),
         NEW k \in 0 .. n, NEW q \in Nat, q < sizes(n)[k]
  PROVE  /\ q % 2 = 1 => Sibling(levels(list)[k], q) = <<Entry(list, k, q - 1)>>
         /\ q % 2 = 0 /\ q + 1 < sizes(n)[k] =>
              Sibling(levels(list)[k], q) = <<Entry(list, k, q + 1)>>
         /\ q % 2 = 0 /\ q + 1 >= sizes(n)[k] => Sibling(levels(list)[k], q) = <<>>
<1> DEFINE m == sizes(n)[k]
           s == levels(list)[k]
<1>1. m \in Nat
  BY SizesStep
<1>2. Len(s) = m
  BY <1>1, LevelSizes, ListLength
<1> HIDE DEF s
<1>3. CASE q % 2 = 1
  <2>1. q - 1 < m /\ q % 2 # 0
    BY <1>1, <1>3
  <2>2. QED
    BY <1>2, <1>3, <2>1 DEF Sibling, Entry, s
<1>4. CASE q % 2 = 0
  BY <1>1, <1>2, <1>4 DEF Sibling, Entry, s
<1>5. QED
  BY <1>3, <1>4

\* f gathers the siblings, which are in D, of place[k] in level[k] for the k up to m.
Gathers(f, D, level, place, m) ==
    /\ f \in [0 .. m -> Seq(D)]
    /\ f[0] = <<>>
    /\ \A k \in 0 .. m - 1 : /\ Sibling(level[k], place[k]) \in Seq(D)
                             /\ f[k + 1] = f[k] \o Sibling(level[k], place[k])

\* Siblings() does.
LEMMA SiblingsStep ==
  ASSUME NEW n \in Nat \ {0}, NEW list, Lists(list, n), NEW i \in 0 .. n - 1, NEW m \in 0 .. n
  PROVE  \E D : Gathers(Siblings(levels(list), places(i, n), m), D, levels(list), places(i, n), m)
<1> DEFINE L == levels(list)
           p == places(i, n)
           z == sizes(n)
           D == {Entry(list, k, q) : k \in 0 .. n, q \in 0 .. n}
           more == [k \in 1 .. m |-> [s \in Seq(D) |-> s \o Sibling(L[k - 1], p[k - 1])]]
<1>1. /\ i \in Nat
      /\ p \in [0 .. n -> Nat]
      /\ z \in [0 .. n -> Nat]
      /\ \A k \in 0 .. n : p[k] < z[k]
  <2>1. i \in Nat
    OBVIOUS
  <2>2. QED
    BY <2>1, PlacesStep, SizesStep, PlaceInLevel
<1>2. \A k \in 0 .. n : z[k] <= n
  <2> DEFINE S == {k \in 0 .. n : z[k] <= n}
  <2>1. 0 \in S
    <3>1. n \in Nat /\ 0 \in 0 .. n /\ n <= n
      OBVIOUS
    <3>2. sizes(n)[0] = n
      BY <3>1, SizesStep
    <3>3. QED
      BY <3>1, <3>2
  <2>2. ASSUME NEW k \in 0 .. n - 1, k \in S
        PROVE  k + 1 \in S
    <3>1. z[k + 1] = (z[k] + 1) \div 2 /\ z[k] \in Nat /\ z[k] <= n
      BY <2>2, SizesStep
    <3> HIDE DEF z
    <3>2. QED
      BY <3>1
  <2> HIDE DEF S
  <2>3. 0 .. n \subseteq S
    BY <2>1, <2>2, UpTo
  <2>4. QED
    BY <2>3 DEF S
<1>3. ASSUME NEW k \in 0 .. n
      PROVE  Sibling(L[k], p[k]) \in Seq(D)
  <2>1. p[k] \in Nat /\ p[k] < z[k] /\ z[k] <= n /\ z[k] \in Nat
    BY <1>1, <1>2
  <2>2. /\ p[k] % 2 = 1 => Sibling(L[k], p[k]) = <<Entry(list, k, p[k] - 1)>>
        /\ p[k] % 2 = 0 /\ p[k] + 1 < z[k] => Sibling(L[k], p[k]) = <<Entry(list, k, p[k] + 1)>>
        /\ p[k] % 2 = 0 /\ p[k] + 1 >= z[k] => Sibling(L[k], p[k]) = <<>>
    BY <2>1, EntrySibling
  <2>3. \A q \in 0 .. n : Entry(list, k, q) \in D
    OBVIOUS
  <2> HIDE DEF D, p, z, L
  <2>4. CASE p[k] % 2 = 1
    <3>1. p[k] - 1 \in 0 .. n
      BY <2>1, <2>4
    <3>2. QED
      BY <2>2, <2>3, <2>4, <3>1
  <2>5. CASE p[k] % 2 = 0 /\ p[k] + 1 < z[k]
    <3>1. p[k] + 1 \in 0 .. n
      BY <2>1, <2>5
    <3>2. QED
      BY <2>2, <2>3, <2>5, <3>1
  <2>6. CASE p[k] % 2 = 0 /\ p[k] + 1 >= z[k]
    <3>1. <<>> \in Seq(D)
      OBVIOUS
    <3>2. QED
      BY <2>2, <2>6, <3>1
  <2>7. p[k] % 2 = 1 \/ (p[k] % 2 = 0 /\ p[k] + 1 < z[k]) \/ (p[k] % 2 = 0 /\ p[k] + 1 >= z[k])
    BY <2>1
  <2>8. QED
    BY <2>4, <2>5, <2>6, <2>7
<1> HIDE DEF L, p, D
<1>4. StaysIn(Seq(D), m, more)
  <2> SUFFICES ASSUME NEW k \in 1 .. m, NEW s \in Seq(D)
               PROVE  more[k][s] \in Seq(D)
    BY DEF StaysIn
  <2>1. k - 1 \in 0 .. n
    OBVIOUS
  <2>2. Sibling(L[k - 1], p[k - 1]) \in Seq(D)
    BY <1>3, <2>1
  <2>3. s \o Sibling(L[k - 1], p[k - 1]) \in Seq(D)
    BY <2>2
  <2>4. QED
    BY <2>3
<1>5. PICK f : Made(f, m, Seq(D), <<>>, more)
  <2>1. <<>> \in Seq(D) /\ m \in Nat
    OBVIOUS
  <2> HIDE DEF more
  <2>2. QED
    BY <1>4, <2>1, Recursion
<1>6. f \in [0 .. m -> Seq(D)] /\ f[0] = <<>>
  BY <1>5 DEF Made
<1>7. ASSUME NEW k \in 0 .. m
      PROVE  f[k] = IF k = 0 THEN <<>> ELSE f[k - 1] \o Sibling(L[k - 1], p[k - 1])
  <2>1. CASE k = 0
    BY <1>6, <2>1
  <2>2. CASE k # 0
    <3>1. k \in 1 .. m /\ k - 1 \in 0 .. m
      BY <2>2
    <3>2. f[k] = more[k][f[k - 1]] /\ f[k - 1] \in Seq(D)
      BY <1>5, <1>6, <3>1 DEF Made
    <3>3. more[k][f[k - 1]] = f[k - 1] \o Sibling(L[k - 1], p[k - 1])
      BY <3>1, <3>2
    <3> HIDE DEF more
    <3>4. QED
      BY <2>2, <3>2, <3>3
  <2>3. QED
    BY <2>1, <2>2
<1>8. f = [k \in 0 .. m |-> IF k = 0 THEN <<>> ELSE f[k - 1] \o Sibling(L[k - 1], p[k - 1])]
  BY <1>6, <1>7
<1> DEFINE P == Siblings(L, p, m)
<1>9. P = [k \in 0 .. m |-> IF k = 0 THEN <<>> ELSE P[k - 1] \o Sibling(L[k - 1], p[k - 1])]
  BY <1>8, Zenon DEF Siblings
<1> HIDE DEF P
<1>10. P[0] = <<>>
  BY <1>9
<1>11. ASSUME NEW k \in 0 .. m - 1
       PROVE  P[k + 1] = P[k] \o Sibling(L[k], p[k])
  <2>1. k + 1 \in 0 .. m /\ k + 1 # 0 /\ (k + 1) - 1 = k
    OBVIOUS
  <2>2. QED
    BY <1>9, <2>1
<1>12. 0 .. m \subseteq {k \in 0 .. m : P[k] \in Seq(D)}
  <2> DEFINE S == {k \in 0 .. m : P[k] \in Seq(D)}
  <2>1. 0 \in S
    <3>1. 0 \in 0 .. m /\ <<>> \in Seq(D)
      OBVIOUS
    <3>2. QED
      BY <1>10, <3>1
  <2>2. ASSUME NEW k \in 0 .. m - 1, k \in S
        PROVE  k + 1 \in S
    <3>1. P[k] \in Seq(D) /\ Sibling(L[k], p[k]) \in Seq(D) /\ k + 1 \in 0 .. m
      BY <1>3, <2>2
    <3>2. P[k] \o Sibling(L[k], p[k]) \in Seq(D)
      BY <3>1
    <3>3. QED
      BY <1>11, <3>1, <3>2
  <2>3. m \in Nat
    OBVIOUS
  <2> HIDE DEF S
  <2>4. 0 .. m \subseteq S
    BY <2>1, <2>2, <2>3, UpTo
  <2>5. QED
    BY <2>4 DEF S
<1>13. P \in [0 .. m -> Seq(D)]
  BY <1>9, <1>12
<1>14. \A k \in 0 .. m - 1 : Sibling(L[k], p[k]) \in Seq(D) /\ P[k + 1] = P[k] \o Sibling(L[k], p[k])
  <2>1. \A k \in 0 .. m - 1 : k \in 0 .. n
    OBVIOUS
  <2>2. QED
    BY <1>3, <1>11, <2>1
<1>15. Gathers(P, D, L, p, m)
  BY <1>10, <1>13, <1>14 DEF Gathers
<1>16. QED
  BY <1>15 DEF P, L, p

\* u[k] siblings of the proof for index i are below level k, and the next one is that of
\* the place in level k.
OnRoute(list, n, i, u) ==
    /\ u \in [0 .. Top(list) -> Nat]
    /\ u[0] = 0
    /\ Len(generate_proof(list, i)) = u[Top(list)]
    /\ \A k \in 0 .. Top(list) - 1 :
          LET q == places(i, n)[k]
              proof == generate_proof(list, i)
          IN  /\ q % 2 = 1 => u[k + 1] = u[k] + 1 /\ proof[u[k] + 1] = Entry(list, k, q - 1)
              /\ q % 2 = 0 /\ q + 1 < sizes(n)[k] =>
                    u[k + 1] = u[k] + 1 /\ proof[u[k] + 1] = Entry(list, k, q + 1)
              /\ q % 2 = 0 /\ q + 1 >= sizes(n)[k] => u[k + 1] = u[k]
              /\ u[k + 1] <= Len(proof)

LEMMA ProofRoute ==
  ASSUME NEW n \in Nat \ {0}, NEW list, Lists(list, n), NEW i \in 0 .. n - 1
  PROVE  \E u : OnRoute(list, n, i, u)
<1> DEFINE m == Top(list)
           L == levels(list)
           p == places(i, n)
           z == sizes(n)
           P == Siblings(L, p, m)
           u == [k \in 0 .. m |-> Len(P[k])]
<1>1. m \in 0 .. n /\ m \in Nat
  BY TopLevel
<1>2. generate_proof(list, i) = P[m]
  <2>1. Len(list) = n
    BY ListLength
  <2>2. QED
    BY <2>1 DEF generate_proof
<1>3. PICK D : /\ P \in [0 .. m -> Seq(D)]
               /\ P[0] = <<>>
               /\ \A k \in 0 .. m - 1 : /\ Sibling(L[k], p[k]) \in Seq(D)
                                        /\ P[k + 1] = P[k] \o Sibling(L[k], p[k])
  <2> HIDE DEF m
  <2>1. PICK D : Gathers(P, D, L, p, m)
    BY <1>1, SiblingsStep
  <2> HIDE DEF P, L, p
  <2>2. QED
    BY <2>1 DEF Gathers
<1> HIDE DEF m, P
<1>4. ASSUME NEW k \in 0 .. m - 1
      PROVE  /\ k \in 0 .. n /\ p[k] \in Nat /\ p[k] < z[k] /\ z[k] \in Nat
             /\ p[k] % 2 = 1 => Sibling(L[k], p[k]) = <<Entry(list, k, p[k] - 1)>>
             /\ p[k] % 2 = 0 /\ p[k] + 1 < z[k] => Sibling(L[k], p[k]) = <<Entry(list, k, p[k] + 1)>>
             /\ p[k] % 2 = 0 /\ p[k] + 1 >= z[k] => Sibling(L[k], p[k]) = <<>>
  <2>1. k \in 0 .. n /\ n \in Nat /\ i \in Nat
    BY <1>1
  <2>2. p[k] \in Nat /\ p[k] < z[k] /\ z[k] \in Nat
    <3>1. p \in [0 .. n -> Nat] /\ z \in [0 .. n -> Nat]
      BY <2>1, PlacesStep, SizesStep
    <3>2. \A j \in 0 .. n : p[j] < z[j]
      BY PlaceInLevel
    <3> HIDE DEF p, z
    <3>3. QED
      BY <2>1, <3>1, <3>2
  <2> HIDE DEF p, z, L
  <2>3. QED
    BY <2>1, <2>2, EntrySibling DEF p, z, L
<1> DEFINE S == {k \in 0 .. m : /\ Len(P[k]) <= Len(P[m])
                                /\ \A j \in 1 .. Len(P[k]) : P[m][j] = P[k][j]}
<1> HIDE DEF L, p, z
<1>5. m \in S
  BY <1>1, <1>3
<1>6. ASSUME NEW k \in 1 .. m, k \in S
      PROVE  k - 1 \in S
  <2>1. k - 1 \in 0 .. m - 1 /\ k - 1 \in 0 .. m /\ (k - 1) + 1 = k /\ k \in 0 .. m /\ m \in 0 .. m
    BY <1>1
  <2> DEFINE s == Sibling(L[k - 1], p[k - 1])
  <2>2. P[k - 1] \in Seq(D) /\ s \in Seq(D) /\ P[k] = P[k - 1] \o s
    BY <1>3, <2>1
  <2>3. Len(P[k]) = Len(P[k - 1]) + Len(s) /\ Len(s) \in Nat /\ Len(P[k - 1]) \in Nat
    BY <2>2
  <2>4. \A j \in 1 .. Len(P[k - 1]) : P[k][j] = P[k - 1][j]
    <3> HIDE DEF s
    <3>1. QED
      BY <2>2, <2>3, ConcatProperties
  <2>5. Len(P[k]) <= Len(P[m]) /\ \A j \in 1 .. Len(P[k]) : P[m][j] = P[k][j]
    BY <1>6
  <2>6. P[m] \in Seq(D)
    BY <1>3, <2>1
  <2>7. Len(P[m]) \in Nat
    BY <2>6
  <2> HIDE DEF s
  <2>8. Len(P[k - 1]) <= Len(P[m]) /\ \A j \in 1 .. Len(P[k - 1]) : j \in 1 .. Len(P[k])
    BY <2>3, <2>5, <2>7
  <2>9. QED
    BY <2>1, <2>4, <2>5, <2>8
<1> HIDE DEF S
<1>7. 0 .. m \subseteq S
  BY <1>1, <1>5, <1>6, DownFrom
<1>8. /\ u \in [0 .. m -> Nat] /\ u[0] = 0 /\ Len(P[m]) = u[m]
  BY <1>1, <1>3
<1>9. ASSUME NEW k \in 0 .. m - 1
      PROVE  LET q == p[k]
             IN  /\ q % 2 = 1 => u[k + 1] = u[k] + 1 /\ P[m][u[k] + 1] = Entry(list, k, q - 1)
                 /\ q % 2 = 0 /\ q + 1 < z[k] =>
                       u[k + 1] = u[k] + 1 /\ P[m][u[k] + 1] = Entry(list, k, q + 1)
                 /\ q % 2 = 0 /\ q + 1 >= z[k] => u[k + 1] = u[k]
                 /\ u[k + 1] <= Len(P[m])
  <2> DEFINE s == Sibling(L[k], p[k])
  <2>1. k \in 0 .. m /\ k + 1 \in 0 .. m
    BY <1>1
  <2>2. u[k] = Len(P[k]) /\ u[k + 1] = Len(P[k + 1])
    BY <2>1
  <2>3. P[k] \in Seq(D) /\ s \in Seq(D) /\ P[k + 1] = P[k] \o s
    BY <1>3, <2>1
  <2>4. Len(P[k + 1]) <= Len(P[m]) /\ \A j \in 1 .. Len(P[k + 1]) : P[m][j] = P[k + 1][j]
    BY <1>7, <2>1 DEF S
  <2> HIDE DEF u
  <2>5. ASSUME NEW e, s = <<e>>
        PROVE  u[k + 1] = u[k] + 1 /\ P[m][u[k] + 1] = e
    <3>1. Len(s) = 1 /\ s[1] = e
      BY <2>5
    <3> HIDE DEF s
    <3>2. Len(P[k]) \in Nat /\ Len(P[k + 1]) = Len(P[k]) + 1 /\ P[k + 1][Len(P[k]) + 1] = s[1]
      <4>1. Len(P[k]) \in Nat /\ Len(P[k + 1]) = Len(P[k]) + Len(s)
        BY <2>3
      <4>2. \A j \in 1 .. Len(P[k]) + Len(s) :
               P[k + 1][j] = IF j <= Len(P[k]) THEN P[k][j] ELSE s[j - Len(P[k])]
        BY <2>3, ConcatProperties
      <4> DEFINE j == Len(P[k]) + 1
      <4>3. j \in 1 .. Len(P[k]) + Len(s) /\ ~(j <= Len(P[k])) /\ j - Len(P[k]) = 1
        BY <3>1, <4>1
      <4>4. P[k + 1][j] = s[1]
        <5> HIDE DEF j
        <5>1. QED
          BY <4>2, <4>3
      <4>5. QED
        BY <3>1, <4>1, <4>4
    <3>3. Len(P[k]) + 1 \in 1 .. Len(P[k + 1])
      BY <3>2
    <3>4. QED
      BY <2>2, <2>4, <3>1, <3>2, <3>3
  <2>6. ASSUME s = <<>>
        PROVE  u[k + 1] = u[k]
    <3>1. P[k + 1] = P[k]
      BY <2>3, <2>6
    <3>2. QED
      BY <2>2, <3>1
  <2>7. u[k + 1] <= Len(P[m])
    BY <2>2, <2>4
  <2>8. QED
    BY <1>4, <2>5, <2>6, <2>7
<1>10. OnRoute(list, n, i, u)
  <2> HIDE DEF u
  <2>1. QED
    BY <1>2, <1>8, <1>9 DEF OnRoute, m, p, z
<1> HIDE DEF u
<1>11. QED
  BY <1>10

----------------------------------------------------------------------------
(* The climb of verify_proof().                                              *)

\* Climb() obeys its equation.
LEMMA ClimbStep ==
  ASSUME NEW leaf, NEW proof, Len(proof) \in Nat
  PROVE  /\ DOMAIN Climb(leaf, proof) = 0 .. Len(proof)
         /\ Climb(leaf, proof)[0] = leaf
         /\ \A k \in 0 .. Len(proof) - 1 : Climb(leaf, proof)[k + 1] = node_hash(Climb(leaf, proof)[k], proof[k + 1])
<1> DEFINE n == Len(proof)
           Rec(f, m) == f = [k \in 0 .. m |-> IF k = 0 THEN leaf ELSE node_hash(f[k - 1], proof[k])]
           S == {m \in 0 .. n : \E f : f = [k \in 0 .. m |-> IF k = 0 THEN leaf ELSE node_hash(f[k - 1], proof[k])]}
<1>1. 0 \in S
  <2> DEFINE f == [k \in 0 .. 0 |-> leaf]
  <2>1. f = [k \in 0 .. 0 |-> IF k = 0 THEN leaf ELSE node_hash(f[k - 1], proof[k])]
    OBVIOUS
  <2> HIDE DEF f
  <2>2. QED
    BY <2>1
<1>2. ASSUME NEW m \in 0 .. n - 1, m \in S
      PROVE  m + 1 \in S
  <2>1. PICK g : g = [k \in 0 .. m |-> IF k = 0 THEN leaf ELSE node_hash(g[k - 1], proof[k])]
    BY <1>2
  <2> DEFINE f == [k \in 0 .. m + 1 |-> IF k = m + 1 THEN node_hash(g[m], proof[m + 1]) ELSE g[k]]
  <2>2. ASSUME NEW k \in 0 .. m + 1
        PROVE  f[k] = IF k = 0 THEN leaf ELSE node_hash(f[k - 1], proof[k])
    <3>1. CASE k = m + 1
      <4>1. f[k - 1] = g[m] /\ f[k] = node_hash(g[m], proof[m + 1]) /\ k # 0
        BY <3>1
      <4>2. QED
        BY <4>1
    <3>2. CASE k # m + 1
      <4>1. k \in 0 .. m /\ (k # 0 => k - 1 \in 0 .. m /\ k - 1 # m + 1)
        BY <3>2
      <4>2. f[k] = g[k] /\ (k # 0 => f[k - 1] = g[k - 1])
        BY <3>2, <4>1
      <4>3. g[k] = IF k = 0 THEN leaf ELSE node_hash(g[k - 1], proof[k])
        BY <2>1, <4>1
      <4>4. QED
        BY <4>2, <4>3
    <3>3. QED
      BY <3>1, <3>2
  <2>3. DOMAIN f = 0 .. m + 1 /\ f = [k \in 0 .. m + 1 |-> f[k]]
    OBVIOUS
  <2> HIDE DEF f
  <2>4. f = [k \in 0 .. m + 1 |-> IF k = 0 THEN leaf ELSE node_hash(f[k - 1], proof[k])]
    BY <2>2, <2>3, Zenon
  <2>5. m + 1 \in 0 .. n
    OBVIOUS
  <2>6. QED
    BY <2>4, <2>5
<1>3. n \in S
  <2> HIDE DEF S
  <2>1. 0 .. n \subseteq S
    BY <1>1, <1>2, UpTo
  <2>2. QED
    BY <2>1
<1>4. PICK f : f = [k \in 0 .. n |-> IF k = 0 THEN leaf ELSE node_hash(f[k - 1], proof[k])]
  BY <1>3
<1>5. Climb(leaf, proof) = [k \in 0 .. n |-> IF k = 0 THEN leaf ELSE node_hash(Climb(leaf, proof)[k - 1], proof[k])]
  BY <1>4, Zenon DEF Climb
<1>6. ASSUME NEW k \in 0 .. n - 1
      PROVE  Climb(leaf, proof)[k + 1] = node_hash(Climb(leaf, proof)[k], proof[k + 1])
  <2>1. k + 1 \in 0 .. n /\ k + 1 # 0 /\ (k + 1) - 1 = k
    OBVIOUS
  <2>2. QED
    BY <1>5, <2>1
<1>7. QED
  <2> HIDE DEF n
  <2>1. QED
    BY <1>5, <1>6 DEF n

\* b[k] is what verify_proof() reaches for level k of the tree.
Reaches(b, list, i, u, leaf) ==
    b = [k \in 0 .. Top(list) |-> Climb(leaf, generate_proof(list, i))[u[k]]]

LEMMA ClimbRoute ==
  ASSUME NEW n \in Nat \ {0}, NEW list, Lists(list, n), NEW i \in 0 .. n - 1,
         NEW u, OnRoute(list, n, i, u), NEW leaf, NEW b,
         Reaches(b, list, i, u, leaf)
  PROVE  /\ b[0] = leaf
         /\ verify_proof(leaf, generate_proof(list, i), compute_root(list))
              <=> b[Top(list)] = Entry(list, Top(list), 0)
         /\ \A k \in 0 .. Top(list) - 1 :
               LET q == places(i, n)[k]
               IN  /\ q % 2 = 1 => b[k + 1] = node_hash(b[k], Entry(list, k, q - 1))
                   /\ q % 2 = 0 /\ q + 1 < sizes(n)[k] => b[k + 1] = node_hash(b[k], Entry(list, k, q + 1))
                   /\ q % 2 = 0 /\ q + 1 >= sizes(n)[k] => b[k + 1] = b[k]
<1> DEFINE proof == generate_proof(list, i)
           c == Climb(leaf, proof)
           m == Top(list)
           z == sizes(n)
<1>1. m \in Nat
  BY TopLevel
<1>2. /\ u \in [0 .. m -> Nat] /\ u[0] = 0 /\ Len(proof) = u[m]
  BY DEF OnRoute
<1>3. Len(proof) \in Nat
  BY <1>1, <1>2
<1>4. c[0] = leaf /\ \A j \in 0 .. Len(proof) - 1 : c[j + 1] = node_hash(c[j], proof[j + 1])
  <2> HIDE DEF proof
  <2>1. QED
    BY <1>3, ClimbStep
<1> HIDE DEF c, m, z
<1>5. \A k \in 0 .. m : b[k] = c[u[k]]
  BY DEF Reaches, c, m
<1>6. b[0] = leaf
  <2>1. 0 \in 0 .. m
    BY <1>1
  <2>2. b[0] = c[u[0]] /\ u[0] = 0 /\ c[0] = leaf
    BY <1>2, <1>4, <1>5, <2>1
  <2>3. QED
    BY <2>2
<1>7. verify_proof(leaf, proof, compute_root(list)) <=> b[m] = Entry(list, m, 0)
  <2>1. m \in 0 .. m /\ 0 + 1 = 1
    BY <1>1
  <2>2. b[m] = c[Len(proof)]
    BY <1>2, <1>5, <2>1
  <2>3. QED
    BY <2>1, <2>2 DEF verify_proof, compute_root, Entry, c, m
<1>8. ASSUME NEW k \in 0 .. m - 1
      PROVE  LET q == places(i, n)[k]
             IN  /\ q % 2 = 1 => b[k + 1] = node_hash(b[k], Entry(list, k, q - 1))
                 /\ q % 2 = 0 /\ q + 1 < z[k] => b[k + 1] = node_hash(b[k], Entry(list, k, q + 1))
                 /\ q % 2 = 0 /\ q + 1 >= z[k] => b[k + 1] = b[k]
  <2> DEFINE q == places(i, n)[k]
  <2>1. k \in 0 .. m /\ k + 1 \in 0 .. m
    BY <1>1
  <2>2. u[k] \in Nat /\ u[k + 1] \in Nat
    BY <1>2, <2>1
  <2>3. /\ q % 2 = 1 => u[k + 1] = u[k] + 1 /\ proof[u[k] + 1] = Entry(list, k, q - 1)
        /\ q % 2 = 0 /\ q + 1 < z[k] => u[k + 1] = u[k] + 1 /\ proof[u[k] + 1] = Entry(list, k, q + 1)
        /\ q % 2 = 0 /\ q + 1 >= z[k] => u[k + 1] = u[k]
        /\ u[k + 1] <= Len(proof)
    BY DEF OnRoute, m, z
  <2> HIDE DEF q, proof
  <2>4. u[k + 1] = u[k] + 1 => c[u[k + 1]] = node_hash(c[u[k]], proof[u[k] + 1])
    BY <1>3, <1>4, <2>2, <2>3
  <2>5. b[k] = c[u[k]] /\ b[k + 1] = c[u[k + 1]]
    BY <1>5, <2>1
  <2>6. QED
    BY <2>3, <2>4, <2>5 DEF q
<1>9. QED
  BY <1>6, <1>7, <1>8 DEF m, z

\* Where the entry of a place, and the places of its chunk, are in the next level.
LEMMA EntryUp ==
  ASSUME NEW n \in Nat \ {0}, NEW list, Lists(list, n), NEW i \in 0 .. n - 1,
         NEW k \in 0 .. n - 1
  PROVE  LET q == places(i, n)[k]
             e == Entry(list, k + 1, places(i, n)[k + 1])
         IN  /\ q \in Nat /\ q < sizes(n)[k] /\ sizes(n)[k] \in Nat
             /\ q % 2 = 1 => e = node_hash(Entry(list, k, q - 1), Entry(list, k, q))
             /\ q % 2 = 0 /\ q + 1 < sizes(n)[k] => e = node_hash(Entry(list, k, q), Entry(list, k, q + 1))
             /\ q % 2 = 0 /\ q + 1 >= sizes(n)[k] => e = Entry(list, k, q)
<1> DEFINE p == places(i, n)
           z == sizes(n)
           q == p[k]
           r == p[k + 1]
<1>1. n \in Nat /\ i \in Nat /\ k \in 0 .. n /\ k + 1 \in 0 .. n
  OBVIOUS
<1>2. p \in [0 .. n -> Nat] /\ z \in [0 .. n -> Nat] /\ r = q \div 2
  <2>1. p \in [0 .. n -> Nat] /\ z \in [0 .. n -> Nat]
    BY <1>1, PlacesStep, SizesStep
  <2>2. r = q \div 2
    BY <1>1, PlacesStep
  <2>3. QED
    BY <2>1, <2>2
<1>3. \A j \in 0 .. n : p[j] < z[j]
  BY PlaceInLevel
<1> HIDE DEF p, z
<1>4. q \in Nat /\ r \in Nat /\ q < z[k] /\ r < z[k + 1] /\ z[k] \in Nat
  BY <1>1, <1>2, <1>3
<1>5. /\ 2 * r + 1 < z[k] => Entry(list, k + 1, r) = node_hash(Entry(list, k, 2 * r), Entry(list, k, 2 * r + 1))
      /\ 2 * r + 1 >= z[k] => Entry(list, k + 1, r) = Entry(list, k, 2 * r)
  BY <1>4, EntryMade DEF z
<1> HIDE DEF q, r
<1>6. ASSUME q % 2 = 1
      PROVE  Entry(list, k + 1, r) = node_hash(Entry(list, k, q - 1), Entry(list, k, q))
  <2>1. 2 * r = q - 1 /\ 2 * r + 1 = q
    BY <1>2, <1>4, <1>6
  <2>2. QED
    BY <1>4, <1>5, <2>1
<1>7. ASSUME q % 2 = 0
      PROVE  /\ q + 1 < z[k] => Entry(list, k + 1, r) = node_hash(Entry(list, k, q), Entry(list, k, q + 1))
             /\ q + 1 >= z[k] => Entry(list, k + 1, r) = Entry(list, k, q)
  <2>1. 2 * r = q
    BY <1>2, <1>4, <1>7
  <2>2. QED
    BY <1>4, <1>5, <2>1
<1>8. QED
  BY <1>4, <1>6, <1>7 DEF q, r, p, z

\* In the top level the place is the only one.
LEMMA TopPlace ==
  ASSUME NEW n \in Nat \ {0}, NEW list, Lists(list, n), NEW i \in 0 .. n - 1
  PROVE  /\ Top(list) \in Nat /\ Top(list) \in 0 .. n
         /\ \A k \in 0 .. Top(list) - 1 : k \in 0 .. n - 1
         /\ places(i, n)[Top(list)] = 0
         /\ places(i, n)[0] = i
<1>1. Top(list) \in 0 .. n /\ n \in Nat /\ i \in Nat
  BY TopLevel
<1>2. places(i, n) \in [0 .. n -> Nat] /\ places(i, n)[0] = i
  BY <1>1, PlacesStep
<1>3. places(i, n)[Top(list)] < sizes(n)[Top(list)]
  BY <1>1, PlaceInLevel
<1>4. sizes(n)[Top(list)] = 1
  BY TopLevel
<1>5. places(i, n)[Top(list)] \in Nat
  BY <1>1, <1>2
<1> DEFINE t == Top(list)
<1> HIDE DEF t
<1>6. \A k \in 0 .. t - 1 : t \in 0 .. n => k \in 0 .. n - 1
  BY <1>1
<1>7. QED
  BY <1>1, <1>2, <1>3, <1>4, <1>5, <1>6 DEF t

\* A leaf that verify_proof() accepts is the one at the index, and every entry that the
\* way passes on the right of a chunk is equal to the one on the left.
LEMMA ClimbsBack ==
  ASSUME NEW n \in Nat \ {0}, NEW list, Lists(list, n), NEW i \in 0 .. n - 1,
         NEW leaf, verify_proof(leaf, generate_proof(list, i), compute_root(list))
  PROVE  /\ leaf = Entry(list, 0, i)
         /\ \A k \in 0 .. Top(list) - 1 : places(i, n)[k] % 2 = 1 =>
               Entry(list, k, places(i, n)[k] - 1) = Entry(list, k, places(i, n)[k])
<1>1. PICK u : OnRoute(list, n, i, u)
  BY ProofRoute
<1> DEFINE m == Top(list)
           p == places(i, n)
<1> PICK b : Reaches(b, list, i, u, leaf)
  BY DEF Reaches
<1>2. /\ b[0] = leaf
      /\ b[m] = Entry(list, m, 0)
      /\ \A k \in 0 .. m - 1 :
            LET q == p[k]
            IN  /\ q % 2 = 1 => b[k + 1] = node_hash(b[k], Entry(list, k, q - 1))
                /\ q % 2 = 0 /\ q + 1 < sizes(n)[k] => b[k + 1] = node_hash(b[k], Entry(list, k, q + 1))
                /\ q % 2 = 0 /\ q + 1 >= sizes(n)[k] => b[k + 1] = b[k]
  BY <1>1, ClimbRoute
<1>3. /\ m \in Nat /\ m \in 0 .. n /\ \A k \in 0 .. m - 1 : k \in 0 .. n - 1
      /\ p[m] = 0 /\ p[0] = i
  BY TopPlace
<1> HIDE DEF m
<1>4. ASSUME NEW k \in 0 .. m - 1, b[k + 1] = Entry(list, k + 1, p[k + 1])
      PROVE  /\ b[k] = Entry(list, k, p[k])
             /\ p[k] % 2 = 1 => Entry(list, k, p[k] - 1) = Entry(list, k, p[k])
  <2> DEFINE q == p[k]
             e == Entry(list, k + 1, p[k + 1])
  <2>1. k \in 0 .. n - 1
    BY <1>3
  <2>2. /\ q \in Nat /\ q < sizes(n)[k] /\ sizes(n)[k] \in Nat
        /\ q % 2 = 1 => e = node_hash(Entry(list, k, q - 1), Entry(list, k, q))
        /\ q % 2 = 0 /\ q + 1 < sizes(n)[k] => e = node_hash(Entry(list, k, q), Entry(list, k, q + 1))
        /\ q % 2 = 0 /\ q + 1 >= sizes(n)[k] => e = Entry(list, k, q)
    BY <2>1, EntryUp
  <2>3. /\ q % 2 = 1 => b[k + 1] = node_hash(b[k], Entry(list, k, q - 1))
        /\ q % 2 = 0 /\ q + 1 < sizes(n)[k] => b[k + 1] = node_hash(b[k], Entry(list, k, q + 1))
        /\ q % 2 = 0 /\ q + 1 >= sizes(n)[k] => b[k + 1] = b[k]
    BY <1>2
  <2>4. b[k + 1] = e
    BY <1>4
  <2> HIDE DEF q, e
  <2>5. q % 2 = 1 \/ (q % 2 = 0 /\ q + 1 < sizes(n)[k]) \/ (q % 2 = 0 /\ q + 1 >= sizes(n)[k])
    BY <2>2
  <2>6. b[k] = Entry(list, k, q) /\ (q % 2 = 1 => Entry(list, k, q - 1) = Entry(list, k, q))
    BY <2>2, <2>3, <2>4, <2>5, NodeHashes
  <2>7. QED
    BY <2>6 DEF q
<1> DEFINE S == {k \in 0 .. m : b[k] = Entry(list, k, p[k])}
<1>5. m \in S
  BY <1>2, <1>3
<1>6. ASSUME NEW k \in 1 .. m, k \in S
      PROVE  k - 1 \in S
  <2>1. k - 1 \in 0 .. m - 1 /\ (k - 1) + 1 = k /\ k - 1 \in 0 .. m
    BY <1>3
  <2>2. b[k] = Entry(list, k, p[k])
    BY <1>6
  <2>3. QED
    BY <1>4, <2>1, <2>2
<1> HIDE DEF S
<1>7. 0 .. m \subseteq S
  BY <1>3, <1>5, <1>6, DownFrom
<1>8. \A k \in 0 .. m : b[k] = Entry(list, k, p[k])
  BY <1>7 DEF S
<1>9. ASSUME NEW k \in 0 .. m - 1, p[k] % 2 = 1
      PROVE  Entry(list, k, p[k] - 1) = Entry(list, k, p[k])
  <2>1. k + 1 \in 0 .. m
    BY <1>3
  <2>2. QED
    BY <1>4, <1>8, <1>9, <2>1
<1>10. leaf = Entry(list, 0, i)
  <2>1. 0 \in 0 .. m
    BY <1>3
  <2>2. QED
    BY <1>2, <1>3, <1>8, <2>1
<1>11. QED
  BY <1>9, <1>10 DEF m

\* The way from the first leaf stays on the left, where verify_proof() expects it.
LEMMA FirstAccepted ==
  ASSUME NEW n \in Nat \ {0}, NEW list, Lists(list, n)
  PROVE  verify_proof(list[1], generate_proof(list, 0), compute_root(list))
<1>1. 0 \in 0 .. n - 1
  OBVIOUS
<1>2. PICK u : OnRoute(list, n, 0, u)
  BY <1>1, ProofRoute
<1> DEFINE m == Top(list)
           p == places(0, n)
<1>3. PICK b : Reaches(b, list, 0, u, list[1])
  BY DEF Reaches
<1>4. /\ b[0] = list[1]
      /\ verify_proof(list[1], generate_proof(list, 0), compute_root(list)) <=> b[m] = Entry(list, m, 0)
      /\ \A k \in 0 .. m - 1 :
            LET q == p[k]
            IN  /\ q % 2 = 1 => b[k + 1] = node_hash(b[k], Entry(list, k, q - 1))
                /\ q % 2 = 0 /\ q + 1 < sizes(n)[k] => b[k + 1] = node_hash(b[k], Entry(list, k, q + 1))
                /\ q % 2 = 0 /\ q + 1 >= sizes(n)[k] => b[k + 1] = b[k]
  BY <1>1, <1>2, <1>3, ClimbRoute
<1>5. /\ m \in Nat /\ m \in 0 .. n /\ \A k \in 0 .. m - 1 : k \in 0 .. n - 1
      /\ p[0] = 0
  BY <1>1, TopPlace
<1>6. \A k \in 0 .. n - 1 : p[k + 1] = p[k] \div 2
  <2>1. n \in Nat /\ 0 \in Nat
    OBVIOUS
  <2>2. QED
    BY <2>1, PlacesStep
<1> HIDE DEF m
<1> DEFINE S == {k \in 0 .. m : p[k] = 0 /\ b[k] = Entry(list, k, 0)}
<1>7. 0 \in S
  <2>1. levels(list)[0] = list
    BY ListLength, LevelsStep
  <2>2. Entry(list, 0, 0) = list[1]
    BY <2>1 DEF Entry
  <2>3. QED
    BY <1>4, <1>5, <2>2
<1>8. ASSUME NEW k \in 0 .. m - 1, k \in S
      PROVE  k + 1 \in S
  <2>1. k \in 0 .. n - 1 /\ p[k] = 0 /\ b[k] = Entry(list, k, 0) /\ k + 1 \in 0 .. m
    BY <1>5, <1>8
  <2>2. p[k + 1] = 0
    BY <1>6, <2>1
  <2> DEFINE e == Entry(list, k + 1, p[k + 1])
  <2>3. /\ p[k] % 2 = 0 /\ p[k] + 1 < sizes(n)[k] => e = node_hash(Entry(list, k, p[k]), Entry(list, k, p[k] + 1))
        /\ p[k] % 2 = 0 /\ p[k] + 1 >= sizes(n)[k] => e = Entry(list, k, p[k])
        /\ sizes(n)[k] \in Nat
    BY <1>1, <2>1, EntryUp
  <2>4. /\ p[k] % 2 = 0 /\ p[k] + 1 < sizes(n)[k] => b[k + 1] = node_hash(b[k], Entry(list, k, p[k] + 1))
        /\ p[k] % 2 = 0 /\ p[k] + 1 >= sizes(n)[k] => b[k + 1] = b[k]
    BY <1>4
  <2> HIDE DEF p
  <2>5. b[k + 1] = e
    BY <2>1, <2>3, <2>4
  <2>6. QED
    BY <2>1, <2>2, <2>5
<1> HIDE DEF S
<1>9. 0 .. m \subseteq S
  BY <1>5, <1>7, <1>8, UpTo
<1>10. m \in S
  BY <1>5, <1>9
<1>11. QED
  BY <1>4, <1>10 DEF S

\* w is the way up from leaf: what WayUp() is chosen to be.
Way(w, leaf, proof, n, i) ==
    w = [k \in 0 .. n |->
            IF k = 0 THEN [hash |-> leaf, used |-> 0]
            ELSE IF places(i, n)[k - 1] % 2 = 1
            THEN [hash |-> node_hash(proof[w[k - 1].used + 1], w[k - 1].hash),
                  used |-> w[k - 1].used + 1]
            ELSE IF places(i, n)[k - 1] + 1 < sizes(n)[k - 1]
            THEN [hash |-> node_hash(w[k - 1].hash, proof[w[k - 1].used + 1]),
                  used |-> w[k - 1].used + 1]
            ELSE w[k - 1]]

\* With every sibling on its own side the proof leads to the root.
LEMMA RebuiltRoot ==
  ASSUME NEW n \in Nat \ {0}, NEW list, Lists(list, n), NEW i \in 0 .. n - 1
  PROVE  Rebuilt(list[i + 1], generate_proof(list, i), n, i) = compute_root(list)
<1> DEFINE m == Top(list)
           p == places(i, n)
           z == sizes(n)
           proof == generate_proof(list, i)
           leaf == list[i + 1]
           E(k, q) == Entry(list, k, q)
<1>1. n \in Nat /\ i \in Nat
  OBVIOUS
<1>2. /\ m \in Nat /\ m \in 0 .. n /\ \A k \in 0 .. m - 1 : k \in 0 .. n - 1
      /\ p[m] = 0 /\ p[0] = i
  BY <1>1, TopPlace
<1>3. PICK u : OnRoute(list, n, i, u)
  BY ProofRoute
<1>4. /\ p \in [0 .. n -> Nat] /\ \A k \in 0 .. n - 1 : p[k + 1] = p[k] \div 2
  BY <1>1, PlacesStep
<1>5. /\ z \in [0 .. n -> Nat] /\ \A k \in 0 .. n - 1 : z[k + 1] = (z[k] + 1) \div 2
  BY <1>1, SizesStep
<1>6. z[m] = 1
  BY TopLevel
<1>7. ASSUME NEW k \in 0 .. n - 1
      PROVE  LET q == p[k]
                 e == E(k + 1, p[k + 1])
             IN  /\ q \in Nat /\ q < z[k] /\ z[k] \in Nat
                 /\ q % 2 = 1 => e = node_hash(E(k, q - 1), E(k, q))
                 /\ q % 2 = 0 /\ q + 1 < z[k] => e = node_hash(E(k, q), E(k, q + 1))
                 /\ q % 2 = 0 /\ q + 1 >= z[k] => e = E(k, q)
  BY <1>1, EntryUp
<1>8. /\ u \in [0 .. m -> Nat] /\ u[0] = 0
      /\ \A k \in 0 .. m - 1 :
          LET q == p[k]
          IN  /\ q % 2 = 1 => u[k + 1] = u[k] + 1 /\ proof[u[k] + 1] = E(k, q - 1)
              /\ q % 2 = 0 /\ q + 1 < z[k] => u[k + 1] = u[k] + 1 /\ proof[u[k] + 1] = E(k, q + 1)
              /\ q % 2 = 0 /\ q + 1 >= z[k] => u[k + 1] = u[k]
  BY <1>3 DEF OnRoute
<1>9. E(0, i) = leaf
  <2>1. levels(list)[0] = list
    BY ListLength, LevelsStep
  <2>2. QED
    BY <2>1 DEF Entry
<1>10. E(m, 0) = compute_root(list)
  BY DEF Entry, compute_root
<1> HIDE DEF m, p, z, proof, leaf, E
\* Above the top the levels stay as they are.
<1>11. \A k \in 0 .. n : k >= m => z[k] = 1 /\ p[k] = 0
  <2> DEFINE S == {k \in 0 .. n : k >= m => z[k] = 1 /\ p[k] = 0}
  <2>1. 0 \in S
    <3>1. 0 \in 0 .. n /\ (0 >= m => m = 0)
      BY <1>2
    <3>2. QED
      BY <1>2, <1>6, <3>1
  <2>2. ASSUME NEW k \in 0 .. n - 1, k \in S
        PROVE  k + 1 \in S
    <3>1. k + 1 \in 0 .. n /\ (k + 1 >= m => k + 1 = m \/ k >= m)
      BY <1>2
    <3>2. k >= m => z[k] = 1 /\ p[k] = 0
      BY <2>2
    <3>3. k >= m => z[k + 1] = 1 /\ p[k + 1] = 0
      BY <1>4, <1>5, <3>2
    <3>4. QED
      BY <1>2, <1>6, <3>1, <3>3
  <2> HIDE DEF S
  <2>3. 0 .. n \subseteq S
    BY <2>1, <2>2, UpTo
  <2>4. QED
    BY <2>3 DEF S
<1> DEFINE v == [k \in 0 .. n |-> IF k <= m THEN u[k] ELSE u[m]]
           f == [k \in 0 .. n |-> [hash |-> E(k, p[k]), used |-> v[k]]]
\* What the step from level k to the next one makes of the entry there.
<1>12. ASSUME NEW k \in 0 .. n - 1
       PROVE  LET q == p[k]
              IN  f[k + 1] = IF q % 2 = 1
                             THEN [hash |-> node_hash(proof[v[k] + 1], E(k, q)), used |-> v[k] + 1]
                             ELSE IF q + 1 < z[k]
                             THEN [hash |-> node_hash(E(k, q), proof[v[k] + 1]), used |-> v[k] + 1]
                             ELSE [hash |-> E(k, q), used |-> v[k]]
  <2> DEFINE q == p[k]
             e == E(k + 1, p[k + 1])
  <2>1. k \in 0 .. n /\ k + 1 \in 0 .. n
    OBVIOUS
  <2>2. f[k + 1] = [hash |-> e, used |-> v[k + 1]]
    BY <2>1
  <2>3. /\ q \in Nat /\ q < z[k] /\ z[k] \in Nat
        /\ q % 2 = 1 => e = node_hash(E(k, q - 1), E(k, q))
        /\ q % 2 = 0 /\ q + 1 < z[k] => e = node_hash(E(k, q), E(k, q + 1))
        /\ q % 2 = 0 /\ q + 1 >= z[k] => e = E(k, q)
    BY <1>7
  <2>4. CASE k < m
    <3>1. k \in 0 .. m - 1 /\ v[k] = u[k] /\ v[k + 1] = u[k + 1]
      BY <1>2, <2>1, <2>4
    <3>2. /\ q % 2 = 1 => u[k + 1] = u[k] + 1 /\ proof[u[k] + 1] = E(k, q - 1)
          /\ q % 2 = 0 /\ q + 1 < z[k] => u[k + 1] = u[k] + 1 /\ proof[u[k] + 1] = E(k, q + 1)
          /\ q % 2 = 0 /\ q + 1 >= z[k] => u[k + 1] = u[k]
      BY <1>8, <3>1
    <3> HIDE DEF q, e, f, v
    <3>3. q % 2 = 1 \/ (q % 2 = 0 /\ q % 2 # 1 /\ q + 1 < z[k])
                    \/ (q % 2 = 0 /\ q % 2 # 1 /\ q + 1 >= z[k] /\ ~(q + 1 < z[k]))
      BY <2>3
    <3>4. f[k + 1] = IF q % 2 = 1
                     THEN [hash |-> node_hash(proof[v[k] + 1], E(k, q)), used |-> v[k] + 1]
                     ELSE IF q + 1 < z[k]
                     THEN [hash |-> node_hash(E(k, q), proof[v[k] + 1]), used |-> v[k] + 1]
                     ELSE [hash |-> E(k, q), used |-> v[k]]
      BY <2>2, <2>3, <3>1, <3>2, <3>3
    <3>5. QED
      BY <3>4 DEF q
  <2>5. CASE k >= m
    <3>1. v[k] = u[m] /\ v[k + 1] = u[m]
      BY <1>2, <2>1, <2>5
    <3>2. z[k] = 1 /\ q = 0
      BY <1>11, <2>1, <2>5
    <3> HIDE DEF q, e, f, v
    <3>3. q % 2 = 0 /\ q % 2 # 1 /\ q + 1 >= z[k] /\ ~(q + 1 < z[k])
      BY <3>2
    <3>4. f[k + 1] = [hash |-> E(k, q), used |-> v[k]]
      BY <2>2, <2>3, <3>1, <3>3
    <3>5. QED
      BY <3>3, <3>4 DEF q
  <2>6. k < m \/ k >= m
    BY <1>2
  <2>7. QED
    BY <2>4, <2>5, <2>6
<1>13. f[0] = [hash |-> leaf, used |-> 0]
  <2>1. 0 \in 0 .. n /\ 0 <= m /\ 0 \in 0 .. m
    BY <1>2
  <2>2. QED
    BY <1>2, <1>8, <1>9, <2>1
<1>14. \A k \in 0 .. n : f[k].hash = E(k, p[k]) /\ f[k].used = v[k]
  OBVIOUS
<1>15. DOMAIN f = 0 .. n /\ f = [k \in 0 .. n |-> f[k]]
  OBVIOUS
<1> HIDE DEF f, v
<1>16. Way(f, leaf, proof, n, i)
  <2>1. ASSUME NEW k \in 0 .. n
        PROVE  f[k] =
            IF k = 0 THEN [hash |-> leaf, used |-> 0]
            ELSE IF places(i, n)[k - 1] % 2 = 1
            THEN [hash |-> node_hash(proof[f[k - 1].used + 1], f[k - 1].hash),
                  used |-> f[k - 1].used + 1]
            ELSE IF places(i, n)[k - 1] + 1 < sizes(n)[k - 1]
            THEN [hash |-> node_hash(f[k - 1].hash, proof[f[k - 1].used + 1]),
                  used |-> f[k - 1].used + 1]
            ELSE f[k - 1]
    <3>1. CASE k = 0
      BY <1>13, <3>1
    <3>2. CASE k # 0
      <4> DEFINE j == k - 1
      <4>1. j \in 0 .. n - 1 /\ j \in 0 .. n /\ j + 1 = k
        BY <3>2
      <4> HIDE DEF j
      <4>2. f[j] = [hash |-> E(j, p[j]), used |-> v[j]]
        BY <1>15, <4>1 DEF f
      <4>3. f[k] = IF p[j] % 2 = 1
                   THEN [hash |-> node_hash(proof[v[j] + 1], E(j, p[j])), used |-> v[j] + 1]
                   ELSE IF p[j] + 1 < z[j]
                   THEN [hash |-> node_hash(E(j, p[j]), proof[v[j] + 1]), used |-> v[j] + 1]
                   ELSE [hash |-> E(j, p[j]), used |-> v[j]]
        BY <1>12, <4>1
      <4>4. f[j].hash = E(j, p[j]) /\ f[j].used = v[j]
        BY <1>14, <4>1
      <4>5. f[k] = IF p[j] % 2 = 1
                   THEN [hash |-> node_hash(proof[f[j].used + 1], f[j].hash), used |-> f[j].used + 1]
                   ELSE IF p[j] + 1 < z[j]
                   THEN [hash |-> node_hash(f[j].hash, proof[f[j].used + 1]), used |-> f[j].used + 1]
                   ELSE f[j]
        BY <4>2, <4>3, <4>4
      <4>6. QED
        BY <3>2, <4>5 DEF p, z, j
    <3>3. QED
      BY <3>1, <3>2
  <2>2. QED
    BY <1>15, <2>1, Zenon DEF Way
<1> DEFINE w == WayUp(leaf, proof, n, i)
<1>17. Way(w, leaf, proof, n, i)
  <2>1. w = CHOOSE g : Way(g, leaf, proof, n, i)
    BY DEF WayUp, Way
  <2> HIDE DEF w
  <2>2. QED
    BY <1>16, <2>1
<1> HIDE DEF w
<1>18. \A k \in 0 .. n : w[k] = f[k]
  <2> DEFINE S == {k \in 0 .. n : w[k] = f[k]}
  <2>1. 0 \in S
    <3>1. 0 \in 0 .. n
      OBVIOUS
    <3>2. w[0] = [hash |-> leaf, used |-> 0]
      BY <1>17, <3>1 DEF Way
    <3>3. QED
      BY <1>13, <3>1, <3>2
  <2>2. ASSUME NEW k \in 0 .. n - 1, k \in S
        PROVE  k + 1 \in S
    <3>1. k + 1 \in 0 .. n /\ k + 1 # 0 /\ (k + 1) - 1 = k /\ w[k] = f[k]
      BY <2>2
    <3> DEFINE Up(g) == IF places(i, n)[k] % 2 = 1
                        THEN [hash |-> node_hash(proof[g.used + 1], g.hash), used |-> g.used + 1]
                        ELSE IF places(i, n)[k] + 1 < sizes(n)[k]
                        THEN [hash |-> node_hash(g.hash, proof[g.used + 1]), used |-> g.used + 1]
                        ELSE g
    <3>2. w[k + 1] = Up(w[k])
      BY <1>17, <3>1 DEF Way
    <3>3. f[k + 1] = Up(f[k])
      BY <1>16, <3>1 DEF Way
    <3> HIDE DEF Up
    <3>4. QED
      BY <3>1, <3>2, <3>3
  <2> HIDE DEF S
  <2>3. 0 .. n \subseteq S
    BY <2>1, <2>2, UpTo
  <2>4. QED
    BY <2>3 DEF S
<1>19. w[n].hash = E(n, p[n]) /\ n \in 0 .. n /\ m \in 0 .. n /\ n >= m /\ m >= m
  BY <1>2, <1>14, <1>18
\* The entries above the top are the top.
<1>20. \A k \in 0 .. n : k >= m => E(k, 0) = E(m, 0)
  <2> DEFINE S == {k \in 0 .. n : k >= m => E(k, 0) = E(m, 0)}
  <2>1. 0 \in S
    <3>1. 0 \in 0 .. n /\ (0 >= m => m = 0)
      BY <1>2
    <3>2. QED
      BY <3>1
  <2>2. ASSUME NEW k \in 0 .. n - 1, k \in S
        PROVE  k + 1 \in S
    <3>1. k \in 0 .. n /\ k + 1 \in 0 .. n /\ (k + 1 >= m => k + 1 = m \/ k >= m)
      BY <1>2
    <3>2. k >= m => z[k] = 1 /\ p[k] = 0 /\ p[k + 1] = 0 /\ k + 1 >= m
      BY <1>2, <1>11, <3>1
    <3>3. k >= m => E(k + 1, 0) = E(k, 0)
      BY <1>7, <3>2
    <3>4. QED
      BY <2>2, <3>1, <3>3
  <2> HIDE DEF S
  <2>3. 0 .. n \subseteq S
    BY <2>1, <2>2, UpTo
  <2>4. QED
    BY <2>3 DEF S
<1>21. w[n].hash = compute_root(list)
  BY <1>10, <1>11, <1>19, <1>20
<1>22. QED
  BY <1>21 DEF Rebuilt, w, leaf, proof

----------------------------------------------------------------------------
(* The proofs of a list of leaf hashes.                                      *)

LEMMA BottomEntry ==
  ASSUME NEW n \in Nat \ {0}, NEW list, Lists(list, n), NEW q
  PROVE  Entry(list, 0, q) = list[q + 1]
<1>1. levels(list)[0] = list
  BY ListLength, LevelsStep
<1>2. QED
  BY <1>1 DEF Entry

\* The list is only ever extended by leaf hashes.
LeafHashes == leaves \in Seq({leaf_hash(d) : d \in LeafData})

LEMMA LeafHashesKept == MerkleSpec => []LeafHashes
<1>1. MerkleInit => LeafHashes
  BY DEF MerkleInit, LeafHashes
<1>2. LeafHashes /\ [MerkleNext]_leaves => LeafHashes'
  <2> SUFFICES ASSUME LeafHashes, [MerkleNext]_leaves
               PROVE  LeafHashes'
    OBVIOUS
  <2>1. CASE MerkleNext
    <3>1. PICK d \in LeafData : leaves' = Append(leaves, leaf_hash(d))
      BY <2>1 DEF MerkleNext, AddLeaf
    <3> DEFINE H == {leaf_hash(e) : e \in LeafData}
    <3>2. leaf_hash(d) \in H /\ leaves \in Seq(H)
      BY DEF LeafHashes
    <3> HIDE DEF H
    <3>3. Append(leaves, leaf_hash(d)) \in Seq(H)
      BY <3>2, AppendProperties
    <3>4. QED
      BY <3>1, <3>3 DEF LeafHashes, H
  <2>2. CASE UNCHANGED leaves
    BY <2>2 DEF LeafHashes
  <2>3. QED
    BY <2>1, <2>2
<1>3. QED
  BY <1>1, <1>2, PTL DEF MerkleSpec

LEMMA HashesProved == LeafHashes => ProofsVerify
<1> SUFFICES ASSUME LeafHashes, NEW i \in 0 .. Len(leaves) - 1
             PROVE  LET proof == generate_proof(leaves, i)
                        root == compute_root(leaves)
                    IN  /\ Rebuilt(leaves[i + 1], proof, Len(leaves), i) = root
                        /\ i = 0 => verify_proof(leaves[1], proof, root)
                        /\ \A d \in LeafData : verify_proof(leaf_hash(d), proof, root) =>
                             leaves[i + 1] = leaf_hash(d)
  BY DEF ProofsVerify
<1> DEFINE n == Len(leaves)
           H == {leaf_hash(d) : d \in LeafData}
<1>1. leaves \in Seq(H)
  BY DEF LeafHashes
<1>2. n \in Nat /\ DOMAIN leaves = 1 .. n /\ \A j \in 1 .. n : leaves[j] \in H
  <2> HIDE DEF H
  <2>1. QED
    BY <1>1
<1>3. leaves = [j \in 1 .. n |-> leaves[j]]
  <2> HIDE DEF H
  <2>1. QED
    BY <1>1
<1> HIDE DEF n
<1>4. n \in Nat \ {0} /\ i \in 0 .. n - 1
  BY <1>2 DEF n
<1>5. Lists(leaves, n)
  BY <1>3 DEF Lists
<1>7. Rebuilt(leaves[i + 1], generate_proof(leaves, i), n, i) = compute_root(leaves)
  BY <1>4, <1>5, RebuiltRoot
<1>8. i = 0 => verify_proof(leaves[1], generate_proof(leaves, i), compute_root(leaves))
  BY <1>4, <1>5, FirstAccepted
<1>10. ASSUME NEW d \in LeafData,
              verify_proof(leaf_hash(d), generate_proof(leaves, i), compute_root(leaves))
       PROVE  leaves[i + 1] = leaf_hash(d)
  <2>1. leaf_hash(d) = Entry(leaves, 0, i)
    BY <1>4, <1>5, <1>10, ClimbsBack
  <2>2. QED
    BY <1>4, <1>5, <2>1, BottomEntry
<1>11. QED
  BY <1>7, <1>8, <1>10 DEF n

\* For lists of any length: the proof generated for a leaf leads to the root with the
\* siblings on their sides; verify_proof() accepts it for the first leaf, and never for a
\* leaf that is not the one at the index.
THEOREM MerkleProofs == MerkleSpec => []ProofsVerify
<1>1. MerkleSpec => []LeafHashes
  BY LeafHashesKept
<1>2. LeafHashes => ProofsVerify
  BY HashesProved
<1>3. QED
  BY <1>1, <1>2, PTL

=============================================================================
