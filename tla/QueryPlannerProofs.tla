------------------------- MODULE QueryPlannerProofs -------------------------
(* QueryPlanner and the index fabric it runs over, for any accounts,        *)
(* contents, callers, enabled indexes, queries and threads: ids identify     *)
(* accounts, what the reverse map of an index says the bitmaps confirm, and  *)
(* an account is listed where its contents put it; what updates do between   *)
(* the lookups of a query costs it no account that stayed as it was, and     *)
(* what they do between pages costs a walk none.                             *)
EXTENDS QueryPlanner, FiniteSetTheorems, TLAPS

----------------------------------------------------------------------------
(* The index fabric.                                                         *)

\* The account being added keeps its pubkey_id or gets the next one: afterwards the
\* dictionary of the index has it, still names every account by one id of its own,
\* and all other dictionaries are as before (add_account() up to the bitmap).
LEMMA AddKeepsIds ==
  ASSUME FabricInv, NEW k \in Kinds, NEW a,
         dict' = [dict EXCEPT ![k] = Put(@, a, IdFor(k, a))],
         next_id' = [next_id EXCEPT ![k] = IF a \in DOMAIN dict[k] THEN @ ELSE @ + 1]
  PROVE  /\ DOMAIN dict' = Kinds
         /\ next_id' \in [Kinds -> Nat]
         /\ \A j \in Kinds : \A b \in DOMAIN dict'[j] : dict'[j][b] \in Nat
         /\ IdsIdentify'
         /\ dict'[k][a] = IdFor(k, a)
         /\ \A j \in Kinds : \A b \in DOMAIN dict[j] :
               b \in DOMAIN dict'[j] /\ dict'[j][b] = dict[j][b]
<1>1. DOMAIN dict = Kinds /\ next_id \in [Kinds -> Nat]
  BY DEF FabricInv
<1>2. IdFor(k, a) \in Nat
  BY <1>1 DEF FabricInv, IdFor
<1>3. /\ DOMAIN dict' = Kinds
      /\ dict'[k] = Put(dict[k], a, IdFor(k, a))
      /\ \A j \in Kinds : j # k => dict'[j] = dict[j]
  BY <1>1
<1>4. /\ next_id' \in [Kinds -> Nat]
      /\ next_id'[k] = IF a \in DOMAIN dict[k] THEN next_id[k] ELSE next_id[k] + 1
      /\ \A j \in Kinds : j # k => next_id'[j] = next_id[j]
  BY <1>1
<1>5. /\ DOMAIN dict'[k] = DOMAIN dict[k] \cup {a}
      /\ dict'[k][a] = IdFor(k, a)
      /\ \A b \in DOMAIN dict[k] : b # a => dict'[k][b] = dict[k][b]
  BY <1>3 DEF Put
<1>6. \A b \in DOMAIN dict[k] : dict'[k][b] = dict[k][b]
  BY <1>5 DEF IdFor
<1>7. \A b \in DOMAIN dict'[k] :
         /\ dict'[k][b] \in Nat
         /\ dict'[k][b] < next_id'[k]
  <2> SUFFICES ASSUME NEW b \in DOMAIN dict'[k]
               PROVE  dict'[k][b] \in Nat /\ dict'[k][b] < next_id'[k]
    OBVIOUS
  <2>1. next_id[k] \in Nat
    BY <1>1
  <2>2. CASE b \in DOMAIN dict[k]
    <3>1. dict[k][b] \in Nat /\ dict[k][b] < next_id[k]
      BY <2>2 DEF FabricInv, IdsIdentify
    <3>2. QED
      BY <1>4, <1>6, <2>1, <2>2, <3>1
  <2>3. CASE b \notin DOMAIN dict[k]
    <3>1. b = a /\ dict'[k][b] = next_id[k] /\ next_id'[k] = next_id[k] + 1
      BY <1>4, <1>5, <2>3 DEF IdFor
    <3>2. QED
      BY <2>1, <3>1
  <2>4. QED
    BY <2>2, <2>3
<1>8. ASSUME NEW b \in DOMAIN dict'[k], NEW c \in DOMAIN dict'[k], dict'[k][b] = dict'[k][c]
      PROVE  b = c
  <2>1. \A d \in DOMAIN dict[k] : dict[k][d] \in Nat /\ dict[k][d] < next_id[k]
    BY DEF FabricInv, IdsIdentify
  <2>2. \A d \in DOMAIN dict[k] : dict[k][d] # next_id[k]
    BY <1>1, <2>1
  <2>3. CASE a \in DOMAIN dict[k]
    BY <1>5, <1>6, <1>8, <2>3 DEF FabricInv, IdsIdentify
  <2>4. CASE a \notin DOMAIN dict[k]
    <3>1. dict'[k][a] = next_id[k]
      BY <1>5, <2>4 DEF IdFor
    <3>2. CASE b \in DOMAIN dict[k] /\ c \in DOMAIN dict[k]
      BY <1>6, <1>8, <3>2 DEF FabricInv, IdsIdentify
    <3>3. CASE b = a \/ c = a
      BY <1>5, <1>6, <1>8, <2>2, <3>1, <3>3
    <3>4. QED
      BY <1>5, <3>2, <3>3
  <2>5. QED
    BY <2>3, <2>4
<1>9. ASSUME NEW j \in Kinds, NEW b \in DOMAIN dict'[j]
      PROVE  /\ dict'[j][b] \in Nat
             /\ dict'[j][b] < next_id'[j]
             /\ \A c \in DOMAIN dict'[j] : dict'[j][b] = dict'[j][c] => b = c
  <2>1. CASE j = k
    BY <1>7, <1>8, <2>1
  <2>2. CASE j # k
    BY <1>3, <1>4, <2>2 DEF FabricInv, IdsIdentify
  <2>3. QED
    BY <2>1, <2>2
<1>10. IdsIdentify'
  BY <1>9 DEF IdsIdentify
<1>11. \A j \in Kinds : \A b \in DOMAIN dict[j] :
          b \in DOMAIN dict'[j] /\ dict'[j][b] = dict[j][b]
  BY <1>3, <1>5, <1>6
<1>12. QED
  BY <1>3, <1>4, <1>5, <1>9, <1>10, <1>11

\* A step that adds an id to one bitmap of an index takes nobody out of a bitmap.
LEMMA InsertGrows ==
  ASSUME FabricInv, NEW k \in Kinds, NEW key, NEW id,
         bitmaps' = [bitmaps EXCEPT ![k] = Put(@, key, BitmapInsert(Bitmap(k, key), id))]
  PROVE  /\ DOMAIN bitmaps' = Kinds
         /\ key \in DOMAIN bitmaps'[k] /\ id \in bitmaps'[k][key]
         /\ \A j \in Kinds : \A x \in DOMAIN bitmaps[j] :
               x \in DOMAIN bitmaps'[j] /\ bitmaps[j][x] \subseteq bitmaps'[j][x]
<1>1. DOMAIN bitmaps = Kinds
  BY DEF FabricInv
<1>2. /\ DOMAIN bitmaps' = Kinds
      /\ bitmaps'[k] = Put(bitmaps[k], key, BitmapInsert(Bitmap(k, key), id))
      /\ \A j \in Kinds : j # k => bitmaps'[j] = bitmaps[j]
  BY <1>1
<1>3. /\ DOMAIN bitmaps'[k] = DOMAIN bitmaps[k] \cup {key}
      /\ bitmaps'[k][key] = Bitmap(k, key) \cup {id}
      /\ \A x \in DOMAIN bitmaps[k] : x # key => bitmaps'[k][x] = bitmaps[k][x]
  BY <1>2 DEF BitmapInsert, Put
<1>4. key \in DOMAIN bitmaps[k] => Bitmap(k, key) = bitmaps[k][key]
  BY DEF Bitmap
<1>5. \A x \in DOMAIN bitmaps[k] :
         x \in DOMAIN bitmaps'[k] /\ bitmaps[k][x] \subseteq bitmaps'[k][x]
  BY <1>3, <1>4
<1>6. QED
  BY <1>2, <1>3, <1>5

\* add_account() of an index with a reverse map.
LEMMA AddAccountKeepsInv ==
  ASSUME FabricInv, NEW k \in Kinds, NEW a, NEW key, AddAccount(k, a, key)
  PROVE  FabricInv'
<1>1. /\ dict' = [dict EXCEPT ![k] = Put(@, a, IdFor(k, a))]
      /\ next_id' = [next_id EXCEPT ![k] = IF a \in DOMAIN dict[k] THEN @ ELSE @ + 1]
      /\ bitmaps' = [bitmaps EXCEPT ![k] =
                        Put(@, key, BitmapInsert(Bitmap(k, key), IdFor(k, a)))]
      /\ reverse' = [reverse EXCEPT ![k] = Put(@, a, key)]
  BY DEF AddAccount
<1>2. /\ DOMAIN reverse' = Kinds
      /\ reverse'[k] = Put(reverse[k], a, key)
      /\ \A j \in Kinds : j # k => reverse'[j] = reverse[j]
  BY <1>1 DEF FabricInv
<1>3. /\ DOMAIN reverse'[k] = DOMAIN reverse[k] \cup {a}
      /\ reverse'[k][a] = key
      /\ \A b \in DOMAIN reverse[k] : b # a => reverse'[k][b] = reverse[k][b]
  BY <1>2 DEF Put
<1>4. /\ DOMAIN dict' = Kinds /\ next_id' \in [Kinds -> Nat]
      /\ \A j \in Kinds : \A b \in DOMAIN dict'[j] : dict'[j][b] \in Nat
      /\ IdsIdentify'
      /\ dict'[k][a] = IdFor(k, a)
      /\ \A j \in Kinds : \A b \in DOMAIN dict[j] :
            b \in DOMAIN dict'[j] /\ dict'[j][b] = dict[j][b]
  BY <1>1, AddKeepsIds
<1>5. /\ DOMAIN bitmaps' = Kinds
      /\ key \in DOMAIN bitmaps'[k] /\ IdFor(k, a) \in bitmaps'[k][key]
      /\ \A j \in Kinds : \A x \in DOMAIN bitmaps[j] :
            x \in DOMAIN bitmaps'[j] /\ bitmaps[j][x] \subseteq bitmaps'[j][x]
  BY <1>1, InsertGrows
<1>6. a \in DOMAIN dict'[k]
  BY <1>1 DEF FabricInv, Put
<1>7. ASSUME NEW j \in Kinds, NEW b \in DOMAIN reverse'[j]
      PROVE  reverse'[j][b] \in ListedUnder(j, b)'
  <2>1. CASE j = k /\ b = a
    BY <1>3, <1>4, <1>5, <1>6, <2>1 DEF ListedUnder
  <2>2. CASE ~(j = k /\ b = a)
    <3>1. b \in DOMAIN reverse[j] /\ reverse'[j][b] = reverse[j][b]
      BY <1>2, <1>3, <2>2
    <3>2. /\ reverse[j][b] \in DOMAIN bitmaps[j]
          /\ b \in DOMAIN dict[j] /\ dict[j][b] \in bitmaps[j][reverse[j][b]]
      BY <3>1 DEF FabricInv, ReverseIsListed, ListedUnder
    <3>3. QED
      BY <1>4, <1>5, <3>1, <3>2 DEF ListedUnder
  <2>3. QED
    BY <2>1, <2>2
<1>8. ReverseIsListed'
  BY <1>7 DEF ReverseIsListed
<1>9. QED
  BY <1>2, <1>4, <1>5, <1>8 DEF FabricInv

\* add_account_memcmp(), which leaves the reverse map alone.
LEMMA AddMemcmpKeepsInv ==
  ASSUME FabricInv, NEW a, NEW bytes, AddMemcmp(a, bytes)
  PROVE  FabricInv'
<1>0. "memcmp" \in Kinds
  BY DEF Kinds
<1>1. /\ dict' = [dict EXCEPT !["memcmp"] = Put(@, a, IdFor("memcmp", a))]
      /\ next_id' = [next_id EXCEPT !["memcmp"] =
                        IF a \in DOMAIN dict["memcmp"] THEN @ ELSE @ + 1]
      /\ bitmaps' = [bitmaps EXCEPT !["memcmp"] =
                        Put(@, bytes, BitmapInsert(Bitmap("memcmp", bytes),
                                                   IdFor("memcmp", a)))]
      /\ reverse' = reverse
  BY DEF AddMemcmp
<1>2. /\ DOMAIN dict' = Kinds /\ next_id' \in [Kinds -> Nat]
      /\ \A j \in Kinds : \A b \in DOMAIN dict'[j] : dict'[j][b] \in Nat
      /\ IdsIdentify'
      /\ \A j \in Kinds : \A b \in DOMAIN dict[j] :
            b \in DOMAIN dict'[j] /\ dict'[j][b] = dict[j][b]
  BY <1>0, <1>1, AddKeepsIds
<1>3. /\ DOMAIN bitmaps' = Kinds
      /\ \A j \in Kinds : \A x \in DOMAIN bitmaps[j] :
            x \in DOMAIN bitmaps'[j] /\ bitmaps[j][x] \subseteq bitmaps'[j][x]
  BY <1>0, <1>1, InsertGrows
<1>4. ASSUME NEW j \in Kinds, NEW b \in DOMAIN reverse[j]
      PROVE  reverse[j][b] \in ListedUnder(j, b)'
  <2>1. /\ reverse[j][b] \in DOMAIN bitmaps[j]
        /\ b \in DOMAIN dict[j] /\ dict[j][b] \in bitmaps[j][reverse[j][b]]
    BY <1>4 DEF FabricInv, ReverseIsListed, ListedUnder
  <2>2. QED
    BY <1>2, <1>3, <2>1 DEF ListedUnder
<1>5. ReverseIsListed'
  BY <1>1, <1>4 DEF ReverseIsListed
<1>6. QED
  BY <1>1, <1>2, <1>3, <1>5 DEF FabricInv

\* remove_account(): whoever else is listed under the key has another id and stays.
LEMMA RemoveKeepsInv ==
  ASSUME FabricInv, NEW k \in Kinds, NEW a, RemoveAccount(k, a)
  PROVE  FabricInv'
<1>1. CASE a \notin DOMAIN reverse[k]
  <2>1. UNCHANGED <<bitmaps, reverse, dict, next_id>>
    BY <1>1 DEF RemoveAccount, indexes
  <2>2. QED
    BY <2>1 DEF FabricInv, IdsIdentify, ReverseIsListed, ListedUnder
<1>2. CASE a \in DOMAIN reverse[k]
  <2> DEFINE key == reverse[k][a]
  <2>1. /\ bitmaps' = [bitmaps EXCEPT ![k][key] = BitmapRemove(@, dict[k][a])]
        /\ reverse' = [reverse EXCEPT ![k] = Drop(@, a)]
        /\ dict' = dict /\ next_id' = next_id
    BY <1>2 DEF RemoveAccount
  <2>2. /\ DOMAIN reverse' = Kinds
        /\ reverse'[k] = Drop(reverse[k], a)
        /\ \A j \in Kinds : j # k => reverse'[j] = reverse[j]
    BY <2>1 DEF FabricInv
  <2>3. /\ DOMAIN reverse'[k] = DOMAIN reverse[k] \ {a}
        /\ \A b \in DOMAIN reverse[k] \ {a} : reverse'[k][b] = reverse[k][b]
    BY <2>2 DEF Drop
  <2>4. /\ DOMAIN bitmaps' = Kinds
        /\ \A j \in Kinds : j # k => bitmaps'[j] = bitmaps[j]
        /\ DOMAIN bitmaps'[k] = DOMAIN bitmaps[k]
        /\ \A x \in DOMAIN bitmaps[k] : x # key => bitmaps'[k][x] = bitmaps[k][x]
    BY <2>1 DEF FabricInv
  <2>5. key \in DOMAIN bitmaps[k] => bitmaps'[k][key] = bitmaps[k][key] \ {dict[k][a]}
    BY <2>1 DEF FabricInv, BitmapRemove
  <2>6. a \in DOMAIN dict[k]
    BY <1>2 DEF FabricInv, ReverseIsListed, ListedUnder
  <2>7. ASSUME NEW j \in Kinds, NEW b \in DOMAIN reverse'[j]
        PROVE  reverse'[j][b] \in ListedUnder(j, b)'
    <3>1. /\ b \in DOMAIN reverse[j] /\ reverse'[j][b] = reverse[j][b]
          /\ j = k => b # a
      BY <2>2, <2>3
    <3>2. /\ reverse[j][b] \in DOMAIN bitmaps[j]
          /\ b \in DOMAIN dict[j] /\ dict[j][b] \in bitmaps[j][reverse[j][b]]
      BY <3>1 DEF FabricInv, ReverseIsListed, ListedUnder
    <3>3. CASE j # k
      BY <2>1, <2>4, <3>1, <3>2, <3>3 DEF ListedUnder
    <3>4. CASE j = k
      <4>1. dict[k][b] # dict[k][a]
        BY <2>6, <3>1, <3>2, <3>4 DEF FabricInv, IdsIdentify
      <4>2. dict[k][b] \in bitmaps'[k][reverse[k][b]]
        BY <2>4, <2>5, <3>2, <3>4, <4>1
      <4>3. QED
        BY <2>1, <2>4, <3>1, <3>2, <3>4, <4>2 DEF ListedUnder
    <3>5. QED
      BY <3>3, <3>4
  <2>8. ReverseIsListed'
    BY <2>7 DEF ReverseIsListed
  <2>9. IdsIdentify'
    BY <2>1 DEF FabricInv, IdsIdentify
  <2>10. QED
    BY <2>1, <2>2, <2>4, <2>8, <2>9 DEF FabricInv
<1>3. QED
  BY <1>1, <1>2

\* A step that leaves the indexes alone.
LEMMA FabricKept ==
  ASSUME FabricInv, UNCHANGED <<bitmaps, reverse, dict, next_id>>
  PROVE  FabricInv'
BY DEF FabricInv, IdsIdentify, ReverseIsListed, ListedUnder

\* The inductive step: one critical section of an index at a time.
LEMMA FabricStep ==
  ASSUME FabricInv, [FabricNext]_fabricVars
  PROVE  FabricInv'
<1>1. ASSUME NEW t \in Callers, NEW a \in Accounts, NEW c \in Contents, UpdateAccount(t, a, c)
      PROVE  FabricInv'
  BY <1>1, FabricKept DEF UpdateAccount, Start, indexes
<1>2. ASSUME NEW t \in Callers, NEW a \in Accounts, RemoveCall(t, a)
      PROVE  FabricInv'
  BY <1>2, FabricKept DEF RemoveCall, Start, indexes
<1>3. ASSUME NEW t \in Callers, IndexStep(t)
      PROVE  FabricInv'
  <2> DEFINE e == Head(call[t].todo)
  <2>1. \/ AddTo(e.index, call[t].account, e.key)
        \/ RemoveFrom(e.index, call[t].account)
    BY <1>3 DEF IndexStep
  <2>2. CASE AddTo(e.index, call[t].account, e.key)
    <3>1. \/ \E k \in Kinds : AddAccount(k, call[t].account, e.key)
          \/ AddMemcmp(call[t].account, e.key)
      BY <2>2 DEF AddTo, AddTokenOwner, AddTokenMint, AddDataSize, AddDiscriminator, Kinds
    <3>2. QED
      BY <3>1, AddAccountKeepsInv, AddMemcmpKeepsInv
  <2>3. CASE RemoveFrom(e.index, call[t].account)
    <3>1. \E k \in Kinds : RemoveAccount(k, call[t].account)
      BY <2>3 DEF RemoveFrom, RemoveTokenOwner, RemoveTokenMint, RemoveDataSize, Kinds
    <3>2. QED
      BY <3>1, RemoveKeepsInv
  <2>4. QED
    BY <2>1, <2>2, <2>3
<1>4. ASSUME NEW t \in Callers, Return(t)
      PROVE  FabricInv'
  BY <1>4, FabricKept DEF Return
<1>5. CASE UNCHANGED fabricVars
  BY <1>5, FabricKept DEF fabricVars
<1>6. QED
  BY <1>1, <1>2, <1>3, <1>4, <1>5 DEF FabricNext

LEMMA FabricInitially == FabricInit => FabricInv
BY DEF FabricInit, FabricInv, IdsIdentify, ReverseIsListed, EmptyMap

\* Whatever calls of update_account() and remove_account() interleave, no two accounts
\* of an index ever share a pubkey_id, so that a bitmap that holds one account is never
\* read back as another.
THEOREM FabricIds == FabricSpec => []IdsIdentify
<1>1. FabricInit => FabricInv
  BY FabricInitially
<1>2. FabricInv /\ [FabricNext]_fabricVars => FabricInv'
  BY FabricStep
<1>3. FabricInv => IdsIdentify
  BY DEF FabricInv
<1>4. QED
  BY <1>1, <1>2, <1>3, PTL DEF FabricSpec

\* Whatever calls interleave, an account that the reverse map of an index names is in
\* the bitmap of the key that remove_account() would take it out of.
THEOREM FabricReverse == FabricSpec => []ReverseIsListed
<1>1. FabricInit => FabricInv
  BY FabricInitially
<1>2. FabricInv /\ [FabricNext]_fabricVars => FabricInv'
  BY FabricStep
<1>3. FabricInv => ReverseIsListed
  BY DEF FabricInv
<1>4. QED
  BY <1>1, <1>2, <1>3, PTL DEF FabricSpec

----------------------------------------------------------------------------
(* The entries a call makes. *)

Members(s) == {s[i] : i \in DOMAIN s}

LEMMA ConcatMembers ==
  ASSUME NEW S, NEW s \in Seq(S), NEW u \in Seq(S)
  PROVE  s \o u \in Seq(S) /\ Members(s \o u) = Members(s) \cup Members(u)
<1>1. s \o u \in Seq(S) /\ Len(s \o u) = Len(s) + Len(u) /\ Len(s) \in Nat /\ Len(u) \in Nat
  OBVIOUS
<1>2. DOMAIN s = 1 .. Len(s) /\ DOMAIN u = 1 .. Len(u) /\ DOMAIN (s \o u) = 1 .. Len(s) + Len(u)
  BY <1>1
<1>3. \A i \in 1 .. Len(s) : (s \o u)[i] = s[i]
  OBVIOUS
<1>4. \A i \in 1 .. Len(u) : (s \o u)[Len(s) + i] = u[i]
  OBVIOUS
<1>5. \A i \in 1 .. Len(s) + Len(u) : i \in 1 .. Len(s) \/ i - Len(s) \in 1 .. Len(u)
  BY <1>1
<1>6. Members(s \o u) \subseteq Members(s) \cup Members(u)
  <2> SUFFICES ASSUME NEW i \in 1 .. Len(s) + Len(u)
               PROVE  (s \o u)[i] \in Members(s) \cup Members(u)
    BY <1>2 DEF Members
  <2>1. CASE i \in 1 .. Len(s)
    BY <1>2, <1>3, <2>1 DEF Members
  <2>2. CASE i - Len(s) \in 1 .. Len(u)
    <3>1. (s \o u)[Len(s) + (i - Len(s))] = u[i - Len(s)]
      BY <1>4, <2>2
    <3>2. Len(s) + (i - Len(s)) = i
      BY <1>1
    <3>3. QED
      BY <1>2, <2>2, <3>1, <3>2 DEF Members
  <2>3. QED
    BY <1>5, <2>1, <2>2
<1>7. Members(s) \cup Members(u) \subseteq Members(s \o u)
  <2>1. \A i \in 1 .. Len(s) : i \in 1 .. Len(s) + Len(u)
    BY <1>1
  <2>2. \A i \in 1 .. Len(u) : Len(s) + i \in 1 .. Len(s) + Len(u)
    BY <1>1
  <2>3. Members(s) \subseteq Members(s \o u)
    BY <1>2, <1>3, <2>1 DEF Members
  <2>4. Members(u) \subseteq Members(s \o u)
    BY <1>2, <1>4, <2>2 DEF Members
  <2>5. QED
    BY <2>3, <2>4
<1>8. QED
  BY <1>1, <1>6, <1>7

LEMMA HeadTailMembers ==
  ASSUME NEW S, NEW s \in Seq(S), s # <<>>
  PROVE  /\ Head(s) \in S /\ Tail(s) \in Seq(S)
         /\ Members(s) = {Head(s)} \cup Members(Tail(s))
<1>1. /\ Len(s) \in Nat \ {0} /\ Tail(s) \in Seq(S) /\ Len(Tail(s)) = Len(s) - 1
      /\ Head(s) = s[1] /\ s[1] \in S
      /\ \A i \in 1 .. Len(s) - 1 : Tail(s)[i] = s[i + 1]
  OBVIOUS
<1>2. DOMAIN s = 1 .. Len(s) /\ DOMAIN Tail(s) = 1 .. Len(s) - 1
  BY <1>1
<1>3. Members(Tail(s)) \subseteq Members(s) /\ Head(s) \in Members(s)
  BY <1>1, <1>2 DEF Members
<1>4. Members(s) \subseteq {Head(s)} \cup Members(Tail(s))
  <2> SUFFICES ASSUME NEW i \in 1 .. Len(s), i # 1
               PROVE  s[i] \in Members(Tail(s))
    BY <1>1, <1>2 DEF Members
  <2>1. i - 1 \in 1 .. Len(s) - 1 /\ (i - 1) + 1 = i
    BY <1>1
  <2>2. Tail(s)[i - 1] = s[i]
    BY <1>1, <2>1
  <2>3. QED
    BY <1>2, <2>1, <2>2 DEF Members
<1>5. QED
  BY <1>1, <1>3, <1>4

\* The keys an account of content c can be listed under.
KeySet(c) == {c.owner, c.holder, c.first32, c.len, c.first8}

EntriesOf(K) == [index : Enabled, key : K]
OneOrNone(applies, k, key) == {e \in {Entry(k, key)} : applies /\ k \in Enabled}

\* `if let Some(ref idx)`: one entry or none.
LEMMA EntryIfMembers ==
  ASSUME NEW applies \in BOOLEAN, NEW k, NEW K, NEW key \in K
  PROVE  /\ EntryIf(applies, k, key) \in Seq(EntriesOf(K))
         /\ Members(EntryIf(applies, k, key)) = OneOrNone(applies, k, key)
<1>1. CASE applies /\ k \in Enabled
  <2>1. EntryIf(applies, k, key) = <<Entry(k, key)>>
    BY <1>1 DEF EntryIf
  <2>2. Entry(k, key) \in EntriesOf(K)
    BY <1>1 DEF Entry, EntriesOf
  <2>3. <<Entry(k, key)>> \in Seq(EntriesOf(K))
    BY <2>2
  <2>4. Members(<<Entry(k, key)>>) = {Entry(k, key)}
    BY DEF Members
  <2>5. OneOrNone(applies, k, key) = {Entry(k, key)}
    BY <1>1 DEF OneOrNone
  <2>6. QED
    BY <2>1, <2>3, <2>4, <2>5
<1>2. CASE ~(applies /\ k \in Enabled)
  <2>1. EntryIf(applies, k, key) = <<>>
    BY <1>2 DEF EntryIf
  <2>2. Members(<<>>) = {}
    BY DEF Members
  <2>3. OneOrNone(applies, k, key) = {}
    BY <1>2 DEF OneOrNone
  <2>4. QED
    BY <2>1, <2>2, <2>3
<1>3. QED
  BY <1>1, <1>2

\* The entries of a content as a set: at most one per index, but for the memcmp index.
EntrySet(c) ==
    OneOrNone(TRUE, "program", c.owner)
    \cup OneOrNone(IsToken(c), "token_owner", c.holder)
    \cup OneOrNone(IsToken(c), "token_mint", c.first32)
    \cup OneOrNone(TRUE, "data_size", c.len)
    \cup OneOrNone(c.len >= 8, "memcmp", c.first8)
    \cup OneOrNone(c.len >= 32, "memcmp", c.first32)
    \cup OneOrNone(c.len >= 8, "discriminator", c.first8)

LEMMA EntriesMembers ==
  ASSUME NEW c
  PROVE  /\ Entries(c) \in Seq(EntriesOf(KeySet(c)))
         /\ Members(Entries(c)) = EntrySet(c)
<1> DEFINE S == EntriesOf(KeySet(c))
           p1 == EntryIf(TRUE, "program", c.owner)
           p2 == EntryIf(IsToken(c), "token_owner", c.holder)
           p3 == EntryIf(IsToken(c), "token_mint", c.first32)
           p4 == EntryIf(TRUE, "data_size", c.len)
           p5 == EntryIf(c.len >= 8, "memcmp", c.first8)
           p6 == EntryIf(c.len >= 32, "memcmp", c.first32)
           p7 == EntryIf(c.len >= 8, "discriminator", c.first8)
           q2 == p1 \o p2
           q3 == q2 \o p3
           q4 == q3 \o p4
           q5 == q4 \o p5
           q6 == q5 \o p6
           q7 == q6 \o p7
<1>1. /\ c.owner \in KeySet(c) /\ c.holder \in KeySet(c) /\ c.first32 \in KeySet(c)
      /\ c.len \in KeySet(c) /\ c.first8 \in KeySet(c)
      /\ IsToken(c) \in BOOLEAN /\ (c.len >= 8) \in BOOLEAN /\ (c.len >= 32) \in BOOLEAN
  BY DEF KeySet, IsToken
<1>2. p1 \in Seq(S) /\ Members(p1) = OneOrNone(TRUE, "program", c.owner)
  BY <1>1, EntryIfMembers
<1>3. p2 \in Seq(S) /\ Members(p2) = OneOrNone(IsToken(c), "token_owner", c.holder)
  BY <1>1, EntryIfMembers
<1>4. p3 \in Seq(S) /\ Members(p3) = OneOrNone(IsToken(c), "token_mint", c.first32)
  BY <1>1, EntryIfMembers
<1>5. p4 \in Seq(S) /\ Members(p4) = OneOrNone(TRUE, "data_size", c.len)
  BY <1>1, EntryIfMembers
<1>6. p5 \in Seq(S) /\ Members(p5) = OneOrNone(c.len >= 8, "memcmp", c.first8)
  BY <1>1, EntryIfMembers
<1>7. p6 \in Seq(S) /\ Members(p6) = OneOrNone(c.len >= 32, "memcmp", c.first32)
  BY <1>1, EntryIfMembers
<1>8. p7 \in Seq(S) /\ Members(p7) = OneOrNone(c.len >= 8, "discriminator", c.first8)
  BY <1>1, EntryIfMembers
<1>9. p1 \in Seq(S) /\ p2 \in Seq(S) /\ p3 \in Seq(S) /\ p4 \in Seq(S) /\ p5 \in Seq(S) /\ p6 \in Seq(S) /\ p7 \in Seq(S)
  BY <1>2, <1>3, <1>4, <1>5, <1>6, <1>7, <1>8
<1> HIDE DEF S, p1, p2, p3, p4, p5, p6, p7
<1>10. q2 \in Seq(S) /\ Members(q2) = Members(p1) \cup Members(p2)
  BY <1>9, ConcatMembers
<1> HIDE DEF q2
<1>11. q3 \in Seq(S) /\ Members(q3) = Members(q2) \cup Members(p3)
  BY <1>9, <1>10, ConcatMembers
<1> HIDE DEF q3
<1>12. q4 \in Seq(S) /\ Members(q4) = Members(q3) \cup Members(p4)
  BY <1>9, <1>11, ConcatMembers
<1> HIDE DEF q4
<1>13. q5 \in Seq(S) /\ Members(q5) = Members(q4) \cup Members(p5)
  BY <1>9, <1>12, ConcatMembers
<1> HIDE DEF q5
<1>14. q6 \in Seq(S) /\ Members(q6) = Members(q5) \cup Members(p6)
  BY <1>9, <1>13, ConcatMembers
<1> HIDE DEF q6
<1>15. q7 \in Seq(S) /\ Members(q7) = Members(q6) \cup Members(p7)
  BY <1>9, <1>14, ConcatMembers
<1> HIDE DEF q7
<1>16. Entries(c) = q7
  BY DEF Entries, p1, p2, p3, p4, p5, p6, p7, q2, q3, q4, q5, q6, q7
<1>17. QED
  BY <1>16, <1>2, <1>3, <1>4, <1>5, <1>6, <1>7, <1>8, <1>10, <1>11, <1>12, <1>13, <1>14, <1>15 DEF EntrySet, S

LEMMA RemovalsMembers ==
  /\ Removals \in Seq(EntriesOf({None}))
  /\ \A k \in Removable \cap Enabled : Entry(k, None) \in Members(Removals)
<1> DEFINE S == EntriesOf({None})
           p1 == EntryIf(TRUE, "program", None)
           p2 == EntryIf(TRUE, "token_owner", None)
           p3 == EntryIf(TRUE, "token_mint", None)
           p4 == EntryIf(TRUE, "data_size", None)
           q2 == p1 \o p2
           q3 == q2 \o p3
           q4 == q3 \o p4
<1>1. None \in {None}
  OBVIOUS
<1>2. p1 \in Seq(S) /\ Members(p1) = OneOrNone(TRUE, "program", None)
  BY <1>1, EntryIfMembers
<1>3. p2 \in Seq(S) /\ Members(p2) = OneOrNone(TRUE, "token_owner", None)
  BY <1>1, EntryIfMembers
<1>4. p3 \in Seq(S) /\ Members(p3) = OneOrNone(TRUE, "token_mint", None)
  BY <1>1, EntryIfMembers
<1>5. p4 \in Seq(S) /\ Members(p4) = OneOrNone(TRUE, "data_size", None)
  BY <1>1, EntryIfMembers
<1>6. p1 \in Seq(S) /\ p2 \in Seq(S) /\ p3 \in Seq(S) /\ p4 \in Seq(S)
  BY <1>2, <1>3, <1>4, <1>5
<1> HIDE DEF S, p1, p2, p3, p4
<1>7. q2 \in Seq(S) /\ Members(q2) = Members(p1) \cup Members(p2)
  BY <1>6, ConcatMembers
<1> HIDE DEF q2
<1>8. q3 \in Seq(S) /\ Members(q3) = Members(q2) \cup Members(p3)
  BY <1>6, <1>7, ConcatMembers
<1> HIDE DEF q3
<1>9. q4 \in Seq(S) /\ Members(q4) = Members(q3) \cup Members(p4)
  BY <1>6, <1>8, ConcatMembers
<1> HIDE DEF q4
<1>10. Removals = q4
  BY DEF Removals, p1, p2, p3, p4, q2, q3, q4
<1>11. /\ Removals \in Seq(S)
      /\ Members(Removals) = OneOrNone(TRUE, "program", None) \cup OneOrNone(TRUE, "token_owner", None)
           \cup OneOrNone(TRUE, "token_mint", None) \cup OneOrNone(TRUE, "data_size", None)
  BY <1>10, <1>2, <1>3, <1>4, <1>5, <1>7, <1>8, <1>9
<1>12. \A k \in Enabled : Entry(k, None) \in OneOrNone(TRUE, k, None)
  BY DEF OneOrNone
<1>13. QED
  BY <1>11, <1>12 DEF S, Removable
----------------------------------------------------------------------------
(* What the calls owe an account and what the indexes hold of it. *)

\* What a call can still have to do: entries of enabled indexes.
CallKeys == {None} \cup UNION {KeySet(c) : c \in Contents}
CallType ==
    /\ call \in [Callers -> [op : {"idle", "update", "remove"}, account : Accounts \cup {None},
                             todo : Seq(EntriesOf(CallKeys))]]
    /\ \A t \in Callers : /\ call[t].op = "idle" => call[t].todo = <<>>
                          /\ call[t].op # "idle" => call[t].account \in Accounts
    /\ latest \in [Accounts -> Contents \cup {None}]
    /\ past \in [Accounts -> SUBSET Contents]
    /\ \A a \in Accounts : IsFiniteSet(past[a])

\* Every id in a bitmap has been handed out.
BitmapBound ==
    \A k \in Kinds : \A key \in DOMAIN bitmaps[k] : \A id \in bitmaps[k][key] :
        id \in Nat /\ id < next_id[k]

\* The one call at work on an account without a race does what its latest content asks for.
AloneInv ==
    \A a \in Accounts : a \notin raced =>
        \A t \in Working(a) :
            /\ \A u \in Working(a) : t = u
            /\ call[t].op = "update" => /\ latest[a] # None
                                        /\ Members(call[t].todo) \subseteq EntrySet(latest[a])
            /\ call[t].op = "remove" => latest[a] = None

\* An entry of the latest content is made or still to be made.
DueInv ==
    \A a \in Accounts : a \notin raced /\ latest[a] # None =>
        \A e \in EntrySet(latest[a]) :
            \/ e.key \in ListedUnder(e.index, a)
            \/ \E t \in Working(a) : e \in Members(call[t].todo)

\* The entries that any content of account a asked for.
Seen(a) == UNION {EntrySet(c) : c \in past[a]}

\* Calls make, and indexes hold, entries of contents the account had.
SeenInv ==
    /\ \A t \in Callers : call[t].op = "update" =>
          Members(call[t].todo) \subseteq Seen(call[t].account)
    /\ \A a \in Accounts, k \in Kinds : \A key \in ListedUnder(k, a) : Entry(k, key) \in Seen(a)

\* Only an enabled index has a reverse map; an account that never moved and that an index
\* with removal lists is in that map, and leaves it with the removal.
ReverseInv ==
    /\ \A k \in Kinds : DOMAIN reverse[k] # {} => k \in Enabled
    /\ \A a \in Accounts, k \in Removable :
          Unmoved(k, a) /\ ListedUnder(k, a) # {} => a \in DOMAIN reverse[k]
    /\ \A a \in Accounts, k \in Removable :
          a \notin raced /\ latest[a] = None /\ a \in DOMAIN reverse[k] =>
            \E t \in Working(a) : call[t].op = "remove" /\ Entry(k, None) \in Members(call[t].todo)

EntryInv == /\ CallType /\ BitmapBound /\ AloneInv
            /\ DueInv /\ SeenInv /\ ReverseInv

\* What a step does to the keys under which an account is listed.
SameLists(k, a) ==
    \A j \in Kinds : \A b : ~(j = k /\ b = a) => ListedUnder(j, b)' = ListedUnder(j, b)

\* The bitmap of one key gets the id of one account: only that account is listed anew.
LEMMA AddLists ==
  ASSUME FabricInv, BitmapBound, NEW k \in Kinds, NEW a, NEW key,
         dict' = [dict EXCEPT ![k] = Put(@, a, IdFor(k, a))],
         next_id' = [next_id EXCEPT ![k] = IF a \in DOMAIN dict[k] THEN @ ELSE @ + 1],
         bitmaps' = [bitmaps EXCEPT ![k] = Put(@, key, BitmapInsert(Bitmap(k, key), IdFor(k, a)))]
  PROVE  /\ SameLists(k, a)
         /\ ListedUnder(k, a)' = ListedUnder(k, a) \cup {key}
         /\ BitmapBound'
<1>1. /\ DOMAIN bitmaps = Kinds /\ DOMAIN dict = Kinds /\ next_id \in [Kinds -> Nat]
      /\ next_id[k] \in Nat
  BY DEF FabricInv
<1>2. /\ \A j \in Kinds : j # k => /\ bitmaps'[j] = bitmaps[j] /\ dict'[j] = dict[j]
                                  /\ next_id'[j] = next_id[j]
      /\ bitmaps'[k] = Put(bitmaps[k], key, BitmapInsert(Bitmap(k, key), IdFor(k, a)))
      /\ dict'[k] = Put(dict[k], a, IdFor(k, a))
      /\ next_id'[k] = IF a \in DOMAIN dict[k] THEN next_id[k] ELSE next_id[k] + 1
  BY <1>1
<1>3. /\ DOMAIN bitmaps'[k] = DOMAIN bitmaps[k] \cup {key}
      /\ bitmaps'[k][key] = Bitmap(k, key) \cup {IdFor(k, a)}
      /\ \A x \in DOMAIN bitmaps[k] : x # key => bitmaps'[k][x] = bitmaps[k][x]
  BY <1>2 DEF BitmapInsert, Put
<1>4. /\ DOMAIN dict'[k] = DOMAIN dict[k] \cup {a}
      /\ dict'[k][a] = IdFor(k, a)
      /\ \A b \in DOMAIN dict[k] : b # a => dict'[k][b] = dict[k][b]
  BY <1>2 DEF Put
<1>5. /\ key \in DOMAIN bitmaps[k] => Bitmap(k, key) = bitmaps[k][key]
      /\ key \notin DOMAIN bitmaps[k] => Bitmap(k, key) = {}
  BY DEF Bitmap
<1>6. \A b \in DOMAIN dict[k] : dict[k][b] \in Nat /\ dict[k][b] < next_id[k]
  BY DEF FabricInv, IdsIdentify
<1>7. \A b \in DOMAIN dict[k] : b # a => dict[k][b] # IdFor(k, a)
  <2>1. CASE a \in DOMAIN dict[k]
    BY <2>1 DEF FabricInv, IdsIdentify, IdFor
  <2>2. CASE a \notin DOMAIN dict[k]
    BY <1>1, <1>6, <2>2 DEF IdFor
  <2>3. QED
    BY <2>1, <2>2
<1>8. IdFor(k, a) \in Nat /\ IdFor(k, a) < next_id'[k] /\ next_id[k] =< next_id'[k]
      /\ next_id'[k] \in Nat
  <2>1. CASE a \in DOMAIN dict[k]
    BY <1>1, <1>2, <1>6, <2>1 DEF IdFor
  <2>2. CASE a \notin DOMAIN dict[k]
    BY <1>1, <1>2, <2>2 DEF IdFor
  <2>3. QED
    BY <2>1, <2>2
<1>9. SameLists(k, a)
  <2> SUFFICES ASSUME NEW j \in Kinds, NEW b, ~(j = k /\ b = a)
               PROVE  ListedUnder(j, b)' = ListedUnder(j, b)
    BY DEF SameLists
  <2>1. CASE j # k
    BY <1>2, <2>1 DEF ListedUnder
  <2>2. CASE j = k
    <3>1. b # a /\ (b \in DOMAIN dict'[k] <=> b \in DOMAIN dict[k])
      BY <1>4, <2>2
    <3>2. b \in DOMAIN dict[k] => dict'[k][b] = dict[k][b] /\ dict[k][b] # IdFor(k, a)
      BY <1>4, <1>7, <3>1
    <3>3. ASSUME b \in DOMAIN dict[k], NEW x \in DOMAIN bitmaps'[k]
          PROVE  dict[k][b] \in bitmaps'[k][x] <=> x \in DOMAIN bitmaps[k] /\ dict[k][b] \in bitmaps[k][x]
      BY <1>3, <1>5, <3>2, <3>3
    <3>4. QED
      BY <1>3, <2>2, <3>1, <3>2, <3>3 DEF ListedUnder
  <2>3. QED
    BY <2>1, <2>2
<1>10. ListedUnder(k, a)' = ListedUnder(k, a) \cup {key}
  <2>1. CASE a \in DOMAIN dict[k]
    <3>1. dict'[k][a] = dict[k][a] /\ IdFor(k, a) = dict[k][a] /\ a \in DOMAIN dict'[k]
      BY <1>4, <2>1 DEF IdFor
    <3>2. QED
      BY <1>3, <1>5, <2>1, <3>1 DEF ListedUnder
  <2>2. CASE a \notin DOMAIN dict[k]
    <3>1. dict'[k][a] = next_id[k] /\ IdFor(k, a) = next_id[k] /\ a \in DOMAIN dict'[k]
      BY <1>4, <2>2 DEF IdFor
    <3>2. \A x \in DOMAIN bitmaps[k] : next_id[k] \notin bitmaps[k][x]
      BY <1>1 DEF BitmapBound
    <3>3. ListedUnder(k, a) = {}
      BY <2>2 DEF ListedUnder
    <3>4. key \in ListedUnder(k, a)'
      BY <1>3, <3>1 DEF ListedUnder
    <3>5. \A x \in ListedUnder(k, a)' : x = key
      BY <1>3, <3>1, <3>2 DEF ListedUnder
    <3>6. QED
      BY <3>3, <3>4, <3>5
  <2>3. QED
    BY <2>1, <2>2
<1>11. BitmapBound'
  <2> SUFFICES ASSUME NEW j \in Kinds, NEW x \in DOMAIN bitmaps'[j], NEW id \in bitmaps'[j][x]
               PROVE  id \in Nat /\ id < next_id'[j]
    BY DEF BitmapBound
  <2>1. CASE j # k
    BY <1>2, <2>1 DEF BitmapBound
  <2>2. CASE j = k
    <3>1. id = IdFor(k, a) \/ (x \in DOMAIN bitmaps[k] /\ id \in bitmaps[k][x])
      BY <1>3, <1>5, <2>2
    <3>2. (x \in DOMAIN bitmaps[k] /\ id \in bitmaps[k][x]) => id \in Nat /\ id < next_id[k]
      BY DEF BitmapBound
    <3>3. QED
      BY <1>1, <1>8, <2>2, <3>1, <3>2
  <2>3. QED
    BY <2>1, <2>2
<1>12. QED
  BY <1>9, <1>10, <1>11

\* What AddTo leaves: the account is listed under the key, nothing else has moved, and
\* an index with removal has it in its reverse map.
LEMMA AddToEffect ==
  ASSUME FabricInv, BitmapBound, NEW k \in Kinds, NEW a, NEW key, AddTo(k, a, key)
  PROVE  /\ SameLists(k, a)
         /\ ListedUnder(k, a)' = ListedUnder(k, a) \cup {key}
         /\ BitmapBound'
         /\ \A j \in Kinds : j # k => reverse'[j] = reverse[j]
         /\ k \in Removable => DOMAIN reverse'[k] = DOMAIN reverse[k] \cup {a}
         /\ DOMAIN reverse'[k] \subseteq DOMAIN reverse[k] \cup {a}
<1>1. AddAccount(k, a, key) \/ (k = "memcmp" /\ AddMemcmp(a, key))
  BY DEF AddTo, AddTokenOwner, AddTokenMint, AddDataSize, AddDiscriminator
<1>2. DOMAIN reverse = Kinds
  BY DEF FabricInv
<1>3. CASE AddAccount(k, a, key)
  <2>1. /\ dict' = [dict EXCEPT ![k] = Put(@, a, IdFor(k, a))]
        /\ next_id' = [next_id EXCEPT ![k] = IF a \in DOMAIN dict[k] THEN @ ELSE @ + 1]
        /\ bitmaps' = [bitmaps EXCEPT ![k] =
                          Put(@, key, BitmapInsert(Bitmap(k, key), IdFor(k, a)))]
        /\ reverse' = [reverse EXCEPT ![k] = Put(@, a, key)]
    BY <1>3 DEF AddAccount
  <2>2. /\ \A j \in Kinds : j # k => reverse'[j] = reverse[j]
        /\ DOMAIN reverse'[k] = DOMAIN reverse[k] \cup {a}
    BY <1>2, <2>1 DEF Put
  <2>3. SameLists(k, a) /\ ListedUnder(k, a)' = ListedUnder(k, a) \cup {key} /\ BitmapBound'
    BY <2>1, AddLists
  <2>4. QED
    BY <2>1, <2>2, <2>3
<1>4. CASE k = "memcmp" /\ AddMemcmp(a, key)
  <2>1. /\ dict' = [dict EXCEPT ![k] = Put(@, a, IdFor(k, a))]
        /\ next_id' = [next_id EXCEPT ![k] = IF a \in DOMAIN dict[k] THEN @ ELSE @ + 1]
        /\ bitmaps' = [bitmaps EXCEPT ![k] =
                          Put(@, key, BitmapInsert(Bitmap(k, key), IdFor(k, a)))]
        /\ reverse' = reverse
    BY <1>4 DEF AddMemcmp
  <2>2. k \notin Removable
    BY <1>4 DEF Removable
  <2>3. SameLists(k, a) /\ ListedUnder(k, a)' = ListedUnder(k, a) \cup {key} /\ BitmapBound'
    BY <2>1, AddLists
  <2>4. QED
    BY <2>1, <2>2, <2>3
<1>5. QED
  BY <1>1, <1>3, <1>4

\* What remove_account() of one index leaves: the account is no longer listed under the
\* key the reverse map named, and no longer in the reverse map.
LEMMA RemoveAccountEffect ==
  ASSUME FabricInv, BitmapBound, NEW k \in Kinds, NEW a, RemoveAccount(k, a)
  PROVE  /\ SameLists(k, a)
         /\ a \in DOMAIN reverse[k] =>
              ListedUnder(k, a)' = ListedUnder(k, a) \ {reverse[k][a]}
         /\ a \notin DOMAIN reverse[k] => ListedUnder(k, a)' = ListedUnder(k, a)
         /\ BitmapBound'
         /\ \A j \in Kinds : j # k => reverse'[j] = reverse[j]
         /\ DOMAIN reverse'[k] = DOMAIN reverse[k] \ {a}
<1>1. CASE a \notin DOMAIN reverse[k]
  <2>1. UNCHANGED <<bitmaps, reverse, dict, next_id>>
    BY <1>1 DEF RemoveAccount, indexes
  <2>2. \A j, b : ListedUnder(j, b)' = ListedUnder(j, b)
    BY <2>1 DEF ListedUnder
  <2>3. BitmapBound'
    BY <2>1 DEF BitmapBound
  <2>4. QED
    BY <1>1, <2>1, <2>2, <2>3 DEF SameLists
<1>2. CASE a \in DOMAIN reverse[k]
  <2> DEFINE key == reverse[k][a]
  <2>1. /\ bitmaps' = [bitmaps EXCEPT ![k][key] = BitmapRemove(@, dict[k][a])]
        /\ reverse' = [reverse EXCEPT ![k] = Drop(@, a)]
        /\ dict' = dict /\ next_id' = next_id
    BY <1>2 DEF RemoveAccount
  <2>2. /\ DOMAIN reverse'[k] = DOMAIN reverse[k] \ {a}
        /\ \A j \in Kinds : j # k => reverse'[j] = reverse[j]
    BY <2>1 DEF FabricInv, Drop
  <2>3. key \in DOMAIN bitmaps[k] /\ a \in DOMAIN dict[k]
    BY <1>2 DEF FabricInv, ReverseIsListed, ListedUnder
  <2>4. /\ \A j \in Kinds : j # k => bitmaps'[j] = bitmaps[j]
        /\ DOMAIN bitmaps'[k] = DOMAIN bitmaps[k]
        /\ \A x \in DOMAIN bitmaps[k] : x # key => bitmaps'[k][x] = bitmaps[k][x]
        /\ bitmaps'[k][key] = bitmaps[k][key] \ {dict[k][a]}
    BY <2>1, <2>3 DEF FabricInv, BitmapRemove
  <2> HIDE DEF key
  <2>5. ASSUME NEW j \in Kinds, NEW b, ~(j = k /\ b = a)
        PROVE  ListedUnder(j, b)' = ListedUnder(j, b)
    <3>1. CASE j # k
      BY <2>1, <2>4, <3>1 DEF ListedUnder
    <3>2. CASE j = k
      <4>1. b \in DOMAIN dict[k] => dict[k][b] # dict[k][a]
        BY <2>3, <2>5, <3>2 DEF FabricInv, IdsIdentify
      <4>2. \A x \in DOMAIN bitmaps[k] : b \in DOMAIN dict[k] =>
               (dict[k][b] \in bitmaps'[k][x] <=> dict[k][b] \in bitmaps[k][x])
        BY <2>4, <4>1
      <4>3. QED
        BY <2>1, <2>4, <3>2, <4>2 DEF ListedUnder
    <3>3. QED
      BY <3>1, <3>2
  <2>6. ListedUnder(k, a)' = ListedUnder(k, a) \ {key}
    BY <2>1, <2>3, <2>4 DEF ListedUnder
  <2>7. BitmapBound'
    <3> SUFFICES ASSUME NEW j \in Kinds, NEW x \in DOMAIN bitmaps'[j], NEW id \in bitmaps'[j][x]
                 PROVE  id \in Nat /\ id < next_id'[j]
      BY DEF BitmapBound
    <3>1. x \in DOMAIN bitmaps[j] /\ id \in bitmaps[j][x]
      BY <2>4
    <3>2. QED
      BY <2>1, <3>1 DEF BitmapBound
  <2>8. QED
    BY <1>2, <2>2, <2>5, <2>6, <2>7 DEF SameLists, key
<1>3. QED
  BY <1>1, <1>2

\* What a call changes as it starts: it works on its account, and that account has raced
\* unless no other call was working on it.
LEMMA StartEffect ==
  ASSUME CallType, NEW t \in Callers, NEW op \in {"update", "remove"}, NEW a \in Accounts,
         NEW todo \in Seq(EntriesOf(CallKeys)), Start(t, op, a, todo)
  PROVE  /\ call[t].op = "idle" /\ call[t].todo = <<>>
         /\ call'[t].op = op /\ call'[t].account = a /\ call'[t].todo = todo
         /\ \A u \in Callers : u # t => call'[u] = call[u]
         /\ call' \in [Callers -> [op : {"idle", "update", "remove"},
                                   account : Accounts \cup {None},
                                   todo : Seq(EntriesOf(CallKeys))]]
         /\ \A b : b # a => /\ Working(b)' = Working(b)
                            /\ b \notin raced' => b \notin raced
         /\ Working(a)' = Working(a) \cup {t}
         /\ a \notin raced' => a \notin raced /\ Working(a) = {}
         /\ UNCHANGED <<bitmaps, reverse, dict, next_id>>
         /\ \A j, b : ListedUnder(j, b)' = ListedUnder(j, b)
<1> DEFINE job == [op |-> op, account |-> a, todo |-> todo]
<1>1. /\ call[t] = Idle /\ call' = [call EXCEPT ![t] = job]
      /\ raced' = IF Working(a) # {} THEN raced \cup {a} ELSE raced
      /\ UNCHANGED <<bitmaps, reverse, dict, next_id>>
  BY DEF Start, indexes
<1>2. /\ job.op = op /\ job.account = a /\ job.todo = todo
      /\ job \in [op : {"idle", "update", "remove"}, account : Accounts \cup {None},
                  todo : Seq(EntriesOf(CallKeys))]
  OBVIOUS
<1>3. call[t].op = "idle" /\ call[t].todo = <<>>
  BY <1>1 DEF Idle
<1> HIDE DEF job
<1>4. /\ call'[t] = job /\ \A u \in Callers : u # t => call'[u] = call[u]
      /\ call' \in [Callers -> [op : {"idle", "update", "remove"},
                                account : Accounts \cup {None},
                                todo : Seq(EntriesOf(CallKeys))]]
  BY <1>1, <1>2 DEF CallType
<1>5. \A b : b # a => Working(b)' = Working(b)
  BY <1>2, <1>3, <1>4 DEF Working
<1>6. Working(a)' = Working(a) \cup {t}
  BY <1>2, <1>4 DEF Working
<1>7. \A j, b : ListedUnder(j, b)' = ListedUnder(j, b)
  BY <1>1 DEF ListedUnder
<1>8. /\ \A b : b # a => (b \notin raced' => b \notin raced)
      /\ a \notin raced' => a \notin raced /\ Working(a) = {}
  BY <1>1
<1>9. QED
  BY <1>1, <1>2, <1>3, <1>4, <1>5, <1>6, <1>7, <1>8

LEMMA SeqOfMore ==
  ASSUME NEW S, NEW T, S \subseteq T, NEW s \in Seq(S)
  PROVE  s \in Seq(T)
OBVIOUS

LEMMA UpdateKeepsEntries ==
  ASSUME FabricInv, EntryInv, NEW t \in Callers, NEW a \in Accounts, NEW c \in Contents,
         UpdateAccount(t, a, c)
  PROVE  EntryInv'
<1> USE FabricAssumption DEF EntryInv
<1>1. Entries(c) \in Seq(EntriesOf(CallKeys)) /\ Members(Entries(c)) = EntrySet(c)
  <2>1. KeySet(c) \subseteq CallKeys
    BY DEF CallKeys
  <2>2. EntriesOf(KeySet(c)) \subseteq EntriesOf(CallKeys)
    BY <2>1 DEF EntriesOf
  <2>3. QED
    BY <2>2, EntriesMembers, SeqOfMore
<1>2. /\ Start(t, "update", a, Entries(c))
      /\ latest' = [latest EXCEPT ![a] = c]
      /\ past' = [past EXCEPT ![a] = @ \cup {c}]
  BY DEF UpdateAccount
<1>3. /\ call[t].op = "idle" /\ call[t].todo = <<>>
      /\ call'[t].op = "update" /\ call'[t].account = a /\ call'[t].todo = Entries(c)
      /\ \A u \in Callers : u # t => call'[u] = call[u]
      /\ call' \in [Callers -> [op : {"idle", "update", "remove"},
                                account : Accounts \cup {None},
                                todo : Seq(EntriesOf(CallKeys))]]
      /\ \A b : b # a => /\ Working(b)' = Working(b)
                         /\ b \notin raced' => b \notin raced
      /\ Working(a)' = Working(a) \cup {t}
      /\ a \notin raced' => a \notin raced /\ Working(a) = {}
      /\ UNCHANGED <<bitmaps, reverse, dict, next_id>>
      /\ \A j, b : ListedUnder(j, b)' = ListedUnder(j, b)
  BY <1>1, <1>2, StartEffect
<1>4. /\ latest'[a] = c /\ \A b \in Accounts : b # a => latest'[b] = latest[b]
      /\ past'[a] = past[a] \cup {c} /\ \A b \in Accounts : b # a => past'[b] = past[b]
      /\ latest' \in [Accounts -> Contents \cup {None}]
      /\ past' \in [Accounts -> SUBSET Contents]
      /\ c # None
  BY <1>2 DEF CallType
<1>5. \A b \in Accounts : t \notin Working(b)
  BY <1>3 DEF Working
<1>6. CallType'
  <2>1. \A b \in Accounts : IsFiniteSet(past[b])
    BY DEF CallType
  <2>2. IsFiniteSet(past[a] \cup {c})
    BY <2>1, FS_AddElement
  <2>3. \A b \in Accounts : IsFiniteSet(past'[b])
    BY <1>4, <2>1, <2>2
  <2>4. \A u \in Callers : /\ call'[u].op = "idle" => call'[u].todo = <<>>
                           /\ call'[u].op # "idle" => call'[u].account \in Accounts
    BY <1>3 DEF CallType
  <2>5. QED
    BY <1>3, <1>4, <2>3, <2>4 DEF CallType
<1>7. BitmapBound'
  BY <1>3 DEF BitmapBound
<1>8. AloneInv'
  <2> SUFFICES ASSUME NEW b \in Accounts, b \notin raced', NEW u \in Working(b)'
               PROVE  /\ \A v \in Working(b)' : u = v
                      /\ call'[u].op = "update" =>
                           /\ latest'[b] # None
                           /\ Members(call'[u].todo) \subseteq EntrySet(latest'[b])
                      /\ call'[u].op = "remove" => latest'[b] = None
    BY DEF AloneInv
  <2>1. CASE b = a
    <3>1. Working(a)' = {t} /\ u = t
      BY <1>3, <2>1
    <3>2. QED
      BY <1>1, <1>3, <1>4, <2>1, <3>1
  <2>2. CASE b # a
    <3>1. Working(b)' = Working(b) /\ b \notin raced /\ u \in Callers /\ u # t
      BY <1>3, <1>5, <2>2 DEF Working
    <3>2. call'[u] = call[u] /\ latest'[b] = latest[b]
      BY <1>3, <1>4, <2>2, <3>1
    <3>3. QED
      BY <3>1, <3>2 DEF AloneInv
  <2>3. QED
    BY <2>1, <2>2
<1>9. DueInv'
  <2> SUFFICES ASSUME NEW b \in Accounts, b \notin raced', latest'[b] # None,
                      NEW e \in EntrySet(latest'[b])
               PROVE  \/ e.key \in ListedUnder(e.index, b)'
                      \/ \E u \in Working(b)' : e \in Members(call'[u].todo)
    BY DEF DueInv
  <2>1. CASE b = a
    BY <1>1, <1>3, <1>4, <2>1
  <2>2. CASE b # a
    <3>1. /\ Working(b)' = Working(b) /\ b \notin raced /\ latest'[b] = latest[b]
          /\ \A u \in Working(b) : call'[u] = call[u]
      BY <1>3, <1>4, <1>5, <2>2 DEF Working
    <3>2. \/ e.key \in ListedUnder(e.index, b)
          \/ \E u \in Working(b) : e \in Members(call[u].todo)
      BY <3>1 DEF DueInv
    <3>3. QED
      BY <1>3, <3>1, <3>2
  <2>3. QED
    BY <2>1, <2>2
<1>10. \A b \in Accounts : Seen(b) \subseteq Seen(b)'
  BY <1>4 DEF Seen
<1>11. EntrySet(c) \subseteq Seen(a)'
  BY <1>4 DEF Seen
<1>12. SeenInv'
  <2>1. ASSUME NEW u \in Callers, call'[u].op = "update"
        PROVE  (Members(call[u].todo) \subseteq Seen(call[u].account))'
    <3>1. CASE u = t
      BY <1>1, <1>3, <1>11, <3>1
    <3>2. CASE u # t
      <4>1. call'[u] = call[u] /\ call[u].account \in Accounts
        BY <1>3, <2>1, <3>2 DEF CallType
      <4>2. Members(call[u].todo) \subseteq Seen(call[u].account)
        BY <2>1, <4>1 DEF SeenInv
      <4>3. Seen(call[u].account) \subseteq Seen(call[u].account)'
        BY <1>10, <4>1 DEF Seen
      <4>4. QED
        BY <4>1, <4>2, <4>3
    <3>3. QED
      BY <3>1, <3>2
  <2>2. ASSUME NEW b \in Accounts, NEW k \in Kinds, NEW key \in ListedUnder(k, b)'
        PROVE  Entry(k, key) \in Seen(b)'
    BY <1>3, <1>10, <2>2 DEF SeenInv
  <2>3. QED
    BY <2>1, <2>2 DEF SeenInv
<1>13. ReverseInv'
  <2>1. \A k \in Kinds : DOMAIN reverse'[k] # {} => k \in Enabled
    BY <1>3 DEF ReverseInv
  <2>2. ASSUME NEW b \in Accounts, NEW k \in Removable, Unmoved(k, b)',
               ListedUnder(k, b)' # {}
        PROVE  b \in DOMAIN reverse'[k]
    <3>1. Unmoved(k, b)
      BY <1>4, <2>2 DEF Unmoved
    <3>2. QED
      BY <1>3, <2>2, <3>1 DEF ReverseInv
  <2>3. ASSUME NEW b \in Accounts, NEW k \in Removable, b \notin raced', latest'[b] = None,
               b \in DOMAIN reverse'[k]
        PROVE  \E u \in Working(b)' : call'[u].op = "remove" /\ Entry(k, None) \in Members(call'[u].todo)
    <3>1. b # a
      BY <1>4, <2>3
    <3>2. /\ Working(b)' = Working(b) /\ b \notin raced /\ latest[b] = None
          /\ \A u \in Working(b) : call'[u] = call[u]
      BY <1>3, <1>4, <1>5, <2>3, <3>1 DEF Working
    <3>3. \E u \in Working(b) : call[u].op = "remove" /\ Entry(k, None) \in Members(call[u].todo)
      BY <1>3, <2>3, <3>2 DEF ReverseInv
    <3>4. QED
      BY <3>2, <3>3
  <2>4. QED
    BY <2>1, <2>2, <2>3 DEF ReverseInv
<1>14. QED
  BY <1>6, <1>7, <1>8, <1>9, <1>12, <1>13

LEMMA RemoveCallKeepsEntries ==
  ASSUME FabricInv, EntryInv, NEW t \in Callers, NEW a \in Accounts, RemoveCall(t, a)
  PROVE  EntryInv'
<1> USE FabricAssumption DEF EntryInv
<1>1. /\ Removals \in Seq(EntriesOf(CallKeys))
      /\ \A k \in Removable \cap Enabled : Entry(k, None) \in Members(Removals)
  <2>1. EntriesOf({None}) \subseteq EntriesOf(CallKeys)
    BY DEF EntriesOf, CallKeys
  <2>2. QED
    BY <2>1, RemovalsMembers, SeqOfMore
<1>2. /\ Start(t, "remove", a, Removals)
      /\ latest' = [latest EXCEPT ![a] = None] /\ past' = past
  BY DEF RemoveCall
<1>3. /\ call[t].op = "idle" /\ call[t].todo = <<>>
      /\ call'[t].op = "remove" /\ call'[t].account = a /\ call'[t].todo = Removals
      /\ \A u \in Callers : u # t => call'[u] = call[u]
      /\ call' \in [Callers -> [op : {"idle", "update", "remove"},
                                account : Accounts \cup {None},
                                todo : Seq(EntriesOf(CallKeys))]]
      /\ \A b : b # a => /\ Working(b)' = Working(b)
                         /\ b \notin raced' => b \notin raced
      /\ Working(a)' = Working(a) \cup {t}
      /\ a \notin raced' => a \notin raced /\ Working(a) = {}
      /\ UNCHANGED <<bitmaps, reverse, dict, next_id>>
      /\ \A j, b : ListedUnder(j, b)' = ListedUnder(j, b)
  BY <1>1, <1>2, StartEffect
<1>4. /\ latest'[a] = None /\ \A b \in Accounts : b # a => latest'[b] = latest[b]
      /\ latest' \in [Accounts -> Contents \cup {None}]
  BY <1>2 DEF CallType
<1>5. \A b \in Accounts : t \notin Working(b)
  BY <1>3 DEF Working
<1>6. CallType'
  <2>1. \A u \in Callers : /\ call'[u].op = "idle" => call'[u].todo = <<>>
                           /\ call'[u].op # "idle" => call'[u].account \in Accounts
    BY <1>3 DEF CallType
  <2>2. past' \in [Accounts -> SUBSET Contents] /\ \A b \in Accounts : IsFiniteSet(past'[b])
    BY <1>2 DEF CallType
  <2>3. QED
    BY <1>3, <1>4, <2>1, <2>2 DEF CallType
<1>7. BitmapBound'
  BY <1>3 DEF BitmapBound
<1>8. AloneInv'
  <2> SUFFICES ASSUME NEW b \in Accounts, b \notin raced', NEW u \in Working(b)'
               PROVE  /\ \A v \in Working(b)' : u = v
                      /\ call'[u].op = "update" =>
                           /\ latest'[b] # None
                           /\ Members(call'[u].todo) \subseteq EntrySet(latest'[b])
                      /\ call'[u].op = "remove" => latest'[b] = None
    BY DEF AloneInv
  <2>1. CASE b = a
    <3>1. Working(a)' = {t} /\ u = t
      BY <1>3, <2>1
    <3>2. QED
      BY <1>3, <1>4, <2>1, <3>1
  <2>2. CASE b # a
    <3>1. Working(b)' = Working(b) /\ b \notin raced /\ u \in Callers /\ u # t
      BY <1>3, <1>5, <2>2 DEF Working
    <3>2. call'[u] = call[u] /\ latest'[b] = latest[b]
      BY <1>3, <1>4, <2>2, <3>1
    <3>3. QED
      BY <3>1, <3>2 DEF AloneInv
  <2>3. QED
    BY <2>1, <2>2
<1>9. DueInv'
  <2> SUFFICES ASSUME NEW b \in Accounts, b \notin raced', latest'[b] # None,
                      NEW e \in EntrySet(latest'[b])
               PROVE  \/ e.key \in ListedUnder(e.index, b)'
                      \/ \E u \in Working(b)' : e \in Members(call'[u].todo)
    BY DEF DueInv
  <2>1. /\ Working(b)' = Working(b) /\ b \notin raced /\ latest'[b] = latest[b]
        /\ \A u \in Working(b) : call'[u] = call[u]
    BY <1>3, <1>4, <1>5 DEF Working
  <2>2. \/ e.key \in ListedUnder(e.index, b)
        \/ \E u \in Working(b) : e \in Members(call[u].todo)
    BY <2>1 DEF DueInv
  <2>3. QED
    BY <1>3, <2>1, <2>2
<1>10. \A b : Seen(b)' = Seen(b)
  BY <1>2 DEF Seen
<1>11. SeenInv'
  <2>1. ASSUME NEW u \in Callers, call'[u].op = "update"
        PROVE  (Members(call[u].todo) \subseteq Seen(call[u].account))'
    <3>1. u # t /\ call'[u] = call[u]
      BY <1>3, <2>1
    <3>2. Members(call[u].todo) \subseteq Seen(call[u].account)
      BY <2>1, <3>1 DEF SeenInv
    <3>3. Seen(call[u].account)' = Seen(call[u].account)
      BY <1>2, <3>1 DEF Seen
    <3>4. QED
      BY <3>1, <3>2, <3>3
  <2>2. ASSUME NEW b \in Accounts, NEW k \in Kinds, NEW key \in ListedUnder(k, b)'
        PROVE  Entry(k, key) \in Seen(b)'
    BY <1>3, <1>10, <2>2 DEF SeenInv
  <2>3. QED
    BY <2>1, <2>2 DEF SeenInv
<1>12. ReverseInv'
  <2>1. \A k \in Kinds : DOMAIN reverse'[k] # {} => k \in Enabled
    BY <1>3 DEF ReverseInv
  <2>2. ASSUME NEW b \in Accounts, NEW k \in Removable, Unmoved(k, b)',
               ListedUnder(k, b)' # {}
        PROVE  b \in DOMAIN reverse'[k]
    BY <1>2, <1>3, <2>2 DEF ReverseInv, Unmoved
  <2>3. ASSUME NEW b \in Accounts, NEW k \in Removable, b \notin raced', latest'[b] = None,
               b \in DOMAIN reverse'[k]
        PROVE  \E u \in Working(b)' : call'[u].op = "remove" /\ Entry(k, None) \in Members(call'[u].todo)
    <3>1. CASE b = a
      <4>1. k \in Enabled
        BY <2>1, <2>3 DEF Kinds, Removable
      <4>2. QED
        BY <1>1, <1>3, <3>1, <4>1
    <3>2. CASE b # a
      <4>1. /\ Working(b)' = Working(b) /\ b \notin raced /\ latest[b] = None
            /\ \A u \in Working(b) : call'[u] = call[u]
        BY <1>3, <1>4, <1>5, <2>3, <3>2 DEF Working
      <4>2. \E u \in Working(b) : call[u].op = "remove" /\ Entry(k, None) \in Members(call[u].todo)
        BY <1>3, <2>3, <4>1 DEF ReverseInv
      <4>3. QED
        BY <4>1, <4>2
    <3>3. QED
      BY <3>1, <3>2
  <2>4. QED
    BY <2>1, <2>2, <2>3 DEF ReverseInv
<1>13. QED
  BY <1>6, <1>7, <1>8, <1>9, <1>11, <1>12

\* A caller that takes its next entry: the rest of the call stays to be done.
LEMMA StepCallEffect ==
  ASSUME CallType, NEW t \in Callers, IndexStep(t)
  PROVE  /\ call[t].op \in {"update", "remove"} /\ call[t].account \in Accounts
         /\ Head(call[t].todo) \in EntriesOf(CallKeys)
         /\ Members(call[t].todo) = {Head(call[t].todo)} \cup Members(call'[t].todo)
         /\ call'[t].op = call[t].op /\ call'[t].account = call[t].account
         /\ \A u \in Callers : u # t => call'[u] = call[u]
         /\ CallType'
         /\ \A b : Working(b)' = Working(b)
         /\ t \in Working(call[t].account)
         /\ UNCHANGED <<latest, past, raced>>
<1> DEFINE JobType == [op : {"idle", "update", "remove"}, account : Accounts \cup {None},
                       todo : Seq(EntriesOf(CallKeys))]
<1>1. /\ call[t].todo # <<>> /\ call' = [call EXCEPT ![t].todo = Tail(@)]
      /\ UNCHANGED <<latest, past, raced>>
  BY DEF IndexStep
<1>2. call \in [Callers -> JobType] /\ call[t] \in JobType /\ call[t].todo \in Seq(EntriesOf(CallKeys))
  BY DEF CallType
<1>3. /\ Head(call[t].todo) \in EntriesOf(CallKeys)
      /\ Tail(call[t].todo) \in Seq(EntriesOf(CallKeys))
      /\ Members(call[t].todo) = {Head(call[t].todo)} \cup Members(Tail(call[t].todo))
  BY <1>1, <1>2, HeadTailMembers
<1>4. call[t].op \in {"update", "remove"} /\ call[t].account \in Accounts
  BY <1>1, <1>2 DEF CallType
<1>5. /\ call'[t] = [call[t] EXCEPT !.todo = Tail(@)]
      /\ \A u \in Callers : u # t => call'[u] = call[u]
      /\ DOMAIN call' = Callers
  BY <1>1, <1>2
<1>6. /\ call'[t].op = call[t].op /\ call'[t].account = call[t].account
      /\ call'[t].todo = Tail(call[t].todo)
      /\ call'[t] \in JobType
  BY <1>2, <1>3, <1>5
<1>7. call' \in [Callers -> JobType]
  BY <1>1, <1>2, <1>5, <1>6
<1>8. CallType'
  BY <1>1, <1>4, <1>5, <1>6, <1>7 DEF CallType
<1>9. \A b : Working(b)' = Working(b)
  BY <1>5, <1>6 DEF Working
<1>10. t \in Working(call[t].account)
  BY <1>4 DEF Working
<1>11. QED
  BY <1>1, <1>3, <1>4, <1>5, <1>6, <1>8, <1>9, <1>10

\* Every entry of a content is one of an index there is, and an index that supports
\* removal has at most one of them.
LEMMA EntryIndex ==
  ASSUME NEW c, NEW e \in EntrySet(c)
  PROVE  /\ e.index \in Kinds /\ e = Entry(e.index, e.key)
         /\ \A f \in EntrySet(c) : e.index = f.index /\ e.index \in Removable => e.key = f.key
<1>2. ASSUME NEW f \in EntrySet(c)
      PROVE  \/ f = Entry("program", c.owner) \/ f = Entry("token_owner", c.holder)
             \/ f = Entry("token_mint", c.first32) \/ f = Entry("data_size", c.len)
             \/ f = Entry("memcmp", c.first8) \/ f = Entry("memcmp", c.first32)
             \/ f = Entry("discriminator", c.first8)
  BY DEF EntrySet, OneOrNone
<1>3. \A k, key : Entry(k, key).index = k /\ Entry(k, key).key = key
  BY DEF Entry
<1>4. QED
  BY <1>2, <1>3 DEF Kinds, Removable

\* The keys of a content in one index are those of its entries.
LEMMA KeysOfEntries ==
  ASSUME NEW k, NEW c
  PROVE  KeysOf(k, c) = {e.key : e \in {f \in EntrySet(c) : f.index = k}}
<1> DEFINE es == Entries(c)
<1>1. \A e : e \in EntrySet(c) <=> \E i \in DOMAIN es : es[i] = e
  BY EntriesMembers DEF Members
<1>2. KeysOf(k, c) = {es[i].key : i \in {j \in DOMAIN es : es[j].index = k}}
  BY DEF KeysOf
<1> HIDE DEF es
<1>3. QED
  BY <1>1, <1>2

\* An update makes its next entry: whatever else is due stays due or listed.
LEMMA AddKeepsEntries ==
  ASSUME FabricInv, EntryInv, NEW t \in Callers, IndexStep(t), call[t].op = "update"
  PROVE  EntryInv'
<1> SUFFICES ASSUME NEW a, a = call[t].account, NEW e, e = Head(call[t].todo),
                    NEW k, k = e.index
             PROVE  EntryInv'
  OBVIOUS
<1> USE DEF EntryInv
<1>1. /\ a \in Accounts /\ e \in EntriesOf(CallKeys)
      /\ Members(call[t].todo) = {e} \cup Members(call'[t].todo)
      /\ call'[t].op = "update" /\ call'[t].account = a
      /\ \A u \in Callers : u # t => call'[u] = call[u]
      /\ CallType'
      /\ \A b : Working(b)' = Working(b)
      /\ t \in Working(a)
      /\ UNCHANGED <<latest, past, raced>>
  BY StepCallEffect
<1>2. k \in Enabled /\ k \in Kinds /\ e = Entry(k, e.key)
  BY <1>1, FabricAssumption DEF EntriesOf, Entry
<1>3. AddTo(k, a, e.key)
  BY DEF IndexStep
<1>4. /\ SameLists(k, a)
      /\ ListedUnder(k, a)' = ListedUnder(k, a) \cup {e.key}
      /\ BitmapBound'
      /\ \A j \in Kinds : j # k => reverse'[j] = reverse[j]
      /\ k \in Removable => DOMAIN reverse'[k] = DOMAIN reverse[k] \cup {a}
      /\ DOMAIN reverse'[k] \subseteq DOMAIN reverse[k] \cup {a}
  BY <1>2, <1>3, AddToEffect
<1>5. \A j \in Kinds : \A b : ListedUnder(j, b) \subseteq ListedUnder(j, b)'
  BY <1>4 DEF SameLists
<1>6. Members(call[t].todo) \subseteq Seen(a)
  BY <1>1 DEF SeenInv
<1>7. AloneInv'
  <2> SUFFICES ASSUME NEW b \in Accounts, b \notin raced', NEW u \in Working(b)'
               PROVE  /\ \A v \in Working(b)' : u = v
                      /\ call'[u].op = "update" =>
                           /\ latest'[b] # None
                           /\ Members(call'[u].todo) \subseteq EntrySet(latest'[b])
                      /\ call'[u].op = "remove" => latest'[b] = None
    BY DEF AloneInv
  <2>1. u \in Working(b) /\ u \in Callers /\ b \notin raced /\ latest'[b] = latest[b]
    BY <1>1 DEF Working
  <2>2. /\ \A v \in Working(b) : u = v
        /\ call[u].op = "update" => /\ latest[b] # None
                                    /\ Members(call[u].todo) \subseteq EntrySet(latest[b])
        /\ call[u].op = "remove" => latest[b] = None
    BY <2>1 DEF AloneInv
  <2>3. call'[u].op = call[u].op /\ Members(call'[u].todo) \subseteq Members(call[u].todo)
    <3>1. CASE u = t
      BY <1>1, <3>1
    <3>2. CASE u # t
      BY <1>1, <2>1, <3>2
    <3>3. QED
      BY <3>1, <3>2
  <2>4. QED
    BY <1>1, <2>1, <2>2, <2>3
<1>8. DueInv'
  <2> SUFFICES ASSUME NEW b \in Accounts, b \notin raced', latest'[b] # None,
                      NEW f \in EntrySet(latest'[b])
               PROVE  \/ f.key \in ListedUnder(f.index, b)'
                      \/ \E u \in Working(b)' : f \in Members(call'[u].todo)
    BY DEF DueInv
  <2>1. b \notin raced /\ latest'[b] = latest[b]
    BY <1>1
  <2>2. f.index \in Kinds
    BY <2>1, EntryIndex
  <2>3. \/ f.key \in ListedUnder(f.index, b)
        \/ \E u \in Working(b) : f \in Members(call[u].todo)
    BY <2>1 DEF DueInv
  <2>4. CASE f.key \in ListedUnder(f.index, b)
    BY <1>5, <2>2, <2>4
  <2>5. CASE \E u \in Working(b) : f \in Members(call[u].todo)
    <3>1. PICK u \in Working(b) : f \in Members(call[u].todo)
      BY <2>5
    <3>2. u \in Callers /\ u \in Working(b)' /\ call[u].account = b
      BY <1>1 DEF Working
    <3>3. CASE u # t
      BY <1>1, <3>1, <3>2, <3>3
    <3>4. CASE u = t /\ f # e
      BY <1>1, <3>1, <3>2, <3>4
    <3>5. CASE u = t /\ f = e
      <4>1. b = a /\ f.index = k
        BY <3>2, <3>5
      <4>2. QED
        BY <1>4, <3>5, <4>1
    <3>6. QED
      BY <3>3, <3>4, <3>5
  <2>6. QED
    BY <2>3, <2>4, <2>5
<1>9. \A b : Seen(b)' = Seen(b)
  BY <1>1 DEF Seen
<1>10. SeenInv'
  <2>1. ASSUME NEW u \in Callers, call'[u].op = "update"
        PROVE  (Members(call[u].todo) \subseteq Seen(call[u].account))'
    <3>1. CASE u = t
      <4>1. Seen(call[t].account)' = Seen(a)
        BY <1>1 DEF Seen
      <4>2. QED
        BY <1>1, <1>6, <3>1, <4>1
    <3>2. CASE u # t
      <4>1. call'[u] = call[u]
        BY <1>1, <3>2
      <4>2. Members(call[u].todo) \subseteq Seen(call[u].account)
        BY <2>1, <4>1 DEF SeenInv
      <4>3. Seen(call[u].account)' = Seen(call[u].account)
        BY <1>1, <4>1 DEF Seen
      <4>4. QED
        BY <4>1, <4>2, <4>3
    <3>3. QED
      BY <3>1, <3>2
  <2>2. ASSUME NEW b \in Accounts, NEW j \in Kinds, NEW key \in ListedUnder(j, b)'
        PROVE  Entry(j, key) \in Seen(b)'
    <3>1. CASE key \in ListedUnder(j, b)
      BY <1>9, <3>1 DEF SeenInv
    <3>2. CASE key \notin ListedUnder(j, b)
      <4>1. j = k /\ b = a
        BY <1>4, <2>2, <3>2 DEF SameLists
      <4>2. key = e.key
        BY <1>4, <2>2, <3>2, <4>1
      <4>3. e \in Seen(a)
        BY <1>1, <1>6
      <4>4. QED
        BY <1>2, <1>9, <4>1, <4>2, <4>3
    <3>3. QED
      BY <3>1, <3>2
  <2>3. QED
    BY <2>1, <2>2 DEF SeenInv
<1>11. ReverseInv'
  <2>1. ASSUME NEW j \in Kinds, DOMAIN reverse'[j] # {}
        PROVE  j \in Enabled
    BY <1>2, <1>4, <2>1 DEF ReverseInv
  <2>2. ASSUME NEW b \in Accounts, NEW j \in Removable, Unmoved(j, b)',
               ListedUnder(j, b)' # {}
        PROVE  b \in DOMAIN reverse'[j]
    <3>1. j \in Kinds
      BY DEF Kinds, Removable
    <3>2. CASE j = k /\ b = a
      BY <1>4, <3>2
    <3>3. CASE ~(j = k /\ b = a)
      <4>1. ListedUnder(j, b) # {}
        BY <1>4, <2>2, <3>1, <3>3 DEF SameLists
      <4>2. b \in DOMAIN reverse[j]
        BY <1>1, <2>2, <4>1 DEF ReverseInv, Unmoved
      <4>3. QED
        BY <1>4, <3>1, <4>2
    <3>4. QED
      BY <3>2, <3>3
  <2>3. ASSUME NEW b \in Accounts, NEW j \in Removable, b \notin raced', latest'[b] = None,
               b \in DOMAIN reverse'[j]
        PROVE  \E u \in Working(b)' : call'[u].op = "remove" /\ Entry(j, None) \in Members(call'[u].todo)
    <3>1. b \notin raced /\ latest[b] = None /\ j \in Kinds
      BY <1>1, <2>3 DEF Kinds, Removable
    <3>2. b # a
      BY <1>1, <3>1 DEF AloneInv
    <3>3. b \in DOMAIN reverse[j]
      BY <1>4, <2>3, <3>1, <3>2
    <3>4. PICK u \in Working(b) : call[u].op = "remove" /\ Entry(j, None) \in Members(call[u].todo)
      BY <3>1, <3>3 DEF ReverseInv
    <3>5. u \in Callers /\ u # t
      BY <3>2 DEF Working
    <3>6. QED
      BY <1>1, <3>4, <3>5
  <2>4. QED
    BY <2>1, <2>2, <2>3 DEF ReverseInv
<1>12. QED
  BY <1>1, <1>4, <1>7, <1>8, <1>10, <1>11

\* A removal visits its next index: nothing it takes out was due.
LEMMA RemoveKeepsEntries ==
  ASSUME FabricInv, EntryInv, NEW t \in Callers, IndexStep(t), call[t].op = "remove"
  PROVE  EntryInv'
<1> SUFFICES ASSUME NEW a, a = call[t].account, NEW e, e = Head(call[t].todo),
                    NEW k, k = e.index
             PROVE  EntryInv'
  OBVIOUS
<1> USE DEF EntryInv
<1>1. /\ a \in Accounts /\ e \in EntriesOf(CallKeys)
      /\ Members(call[t].todo) = {e} \cup Members(call'[t].todo)
      /\ call'[t].op = "remove" /\ call'[t].account = a
      /\ \A u \in Callers : u # t => call'[u] = call[u]
      /\ CallType'
      /\ \A b : Working(b)' = Working(b)
      /\ t \in Working(a)
      /\ UNCHANGED <<latest, past, raced>>
  BY StepCallEffect
<1>2. RemoveAccount(k, a) /\ k \in Kinds /\ k \in Removable
  <2>1. RemoveFrom(k, a)
    BY DEF IndexStep
  <2>2. QED
    BY <2>1 DEF RemoveFrom, RemoveTokenOwner, RemoveTokenMint, RemoveDataSize, Kinds, Removable
<1>3. /\ SameLists(k, a)
      /\ a \in DOMAIN reverse[k] => ListedUnder(k, a)' = ListedUnder(k, a) \ {reverse[k][a]}
      /\ a \notin DOMAIN reverse[k] => ListedUnder(k, a)' = ListedUnder(k, a)
      /\ BitmapBound'
      /\ \A j \in Kinds : j # k => reverse'[j] = reverse[j]
      /\ DOMAIN reverse'[k] = DOMAIN reverse[k] \ {a}
  BY <1>2, RemoveAccountEffect
<1>4. \A j \in Kinds : \A b : ListedUnder(j, b)' \subseteq ListedUnder(j, b)
  BY <1>3 DEF SameLists
<1>5. \A j \in Kinds : \A b : b # a => ListedUnder(j, b)' = ListedUnder(j, b)
  BY <1>3 DEF SameLists
<1>6. AloneInv'
  <2> SUFFICES ASSUME NEW b \in Accounts, b \notin raced', NEW u \in Working(b)'
               PROVE  /\ \A v \in Working(b)' : u = v
                      /\ call'[u].op = "update" =>
                           /\ latest'[b] # None
                           /\ Members(call'[u].todo) \subseteq EntrySet(latest'[b])
                      /\ call'[u].op = "remove" => latest'[b] = None
    BY DEF AloneInv
  <2>1. u \in Working(b) /\ u \in Callers /\ b \notin raced /\ latest'[b] = latest[b]
    BY <1>1 DEF Working
  <2>2. /\ \A v \in Working(b) : u = v
        /\ call[u].op = "update" => /\ latest[b] # None
                                    /\ Members(call[u].todo) \subseteq EntrySet(latest[b])
        /\ call[u].op = "remove" => latest[b] = None
    BY <2>1 DEF AloneInv
  <2>3. call'[u].op = call[u].op /\ Members(call'[u].todo) \subseteq Members(call[u].todo)
    <3>1. CASE u = t
      BY <1>1, <3>1
    <3>2. CASE u # t
      BY <1>1, <2>1, <3>2
    <3>3. QED
      BY <3>1, <3>2
  <2>4. QED
    BY <1>1, <2>1, <2>2, <2>3
<1>7. DueInv'
  <2> SUFFICES ASSUME NEW b \in Accounts, b \notin raced', latest'[b] # None,
                      NEW f \in EntrySet(latest'[b])
               PROVE  \/ f.key \in ListedUnder(f.index, b)'
                      \/ \E u \in Working(b)' : f \in Members(call'[u].todo)
    BY DEF DueInv
  <2>1. b \notin raced /\ latest'[b] = latest[b]
    BY <1>1
  <2>2. b # a
    BY <1>1, <2>1 DEF AloneInv
  <2>3. f.index \in Kinds
    BY <2>1, EntryIndex
  <2>4. \/ f.key \in ListedUnder(f.index, b)
        \/ \E u \in Working(b) : f \in Members(call[u].todo)
    BY <2>1 DEF DueInv
  <2>5. \A u \in Working(b) : u \in Callers /\ u # t
    BY <2>2 DEF Working
  <2>6. QED
    BY <1>1, <1>5, <2>2, <2>3, <2>4, <2>5
<1>8. \A b : Seen(b)' = Seen(b)
  BY <1>1 DEF Seen
<1>9. SeenInv'
  <2>1. ASSUME NEW u \in Callers, call'[u].op = "update"
        PROVE  (Members(call[u].todo) \subseteq Seen(call[u].account))'
    <3>1. u # t /\ call'[u] = call[u]
      BY <1>1, <2>1
    <3>2. Members(call[u].todo) \subseteq Seen(call[u].account)
      BY <2>1, <3>1 DEF SeenInv
    <3>3. Seen(call[u].account)' = Seen(call[u].account)
      BY <1>1, <3>1 DEF Seen
    <3>4. QED
      BY <3>1, <3>2, <3>3
  <2>2. ASSUME NEW b \in Accounts, NEW j \in Kinds, NEW key \in ListedUnder(j, b)'
        PROVE  Entry(j, key) \in Seen(b)'
    BY <1>4, <1>8, <2>2 DEF SeenInv
  <2>3. QED
    BY <2>1, <2>2 DEF SeenInv
<1>10. ReverseInv'
  <2>1. ASSUME NEW j \in Kinds, DOMAIN reverse'[j] # {}
        PROVE  j \in Enabled
    BY <1>3, <2>1 DEF ReverseInv
  <2>2. ASSUME NEW b \in Accounts, NEW j \in Removable, Unmoved(j, b)',
               ListedUnder(j, b)' # {}
        PROVE  b \in DOMAIN reverse'[j]
    <3>1. j \in Kinds /\ ListedUnder(j, b) # {}
      BY <1>4, <2>2 DEF Kinds, Removable
    <3>2. b \in DOMAIN reverse[j]
      BY <1>1, <2>2, <3>1 DEF ReverseInv, Unmoved
    <3>3. CASE ~(j = k /\ b = a)
      BY <1>3, <3>1, <3>2, <3>3
    <3>4. CASE j = k /\ b = a
      <4>1. reverse[k][a] \in ListedUnder(k, a)
        BY <1>2, <3>2, <3>4 DEF FabricInv, ReverseIsListed
      <4>2. PICK key : key \in ListedUnder(k, a)'
        BY <2>2, <3>4
      <4>3. key \in ListedUnder(k, a) /\ key # reverse[k][a]
        BY <1>3, <3>2, <3>4, <4>2
      <4>4. Entry(k, key) \in Seen(a) /\ Entry(k, reverse[k][a]) \in Seen(a)
        BY <1>1, <1>2, <4>1, <4>3 DEF SeenInv
      <4>5. Unmoved(k, a)
        BY <1>1, <2>2, <3>4 DEF Unmoved
      <4>6. PICK c \in past[a] : Entry(k, key) \in EntrySet(c)
        BY <4>4 DEF Seen
      <4>7. PICK d \in past[a] : Entry(k, reverse[k][a]) \in EntrySet(d)
        BY <4>4 DEF Seen
      <4>8. key = reverse[k][a]
        <5>1. \A x : Entry(k, x).index = k /\ Entry(k, x).key = x
          BY DEF Entry
        <5>2. key \in KeysOf(k, c) /\ reverse[k][a] \in KeysOf(k, d)
          BY <4>6, <4>7, <5>1, KeysOfEntries
        <5>3. KeysOf(k, d) = KeysOf(k, c)
          BY <4>5 DEF Unmoved
        <5>4. PICK f \in EntrySet(c) : f.index = k /\ f.key = reverse[k][a]
          BY <5>2, <5>3, KeysOfEntries
        <5>5. QED
          BY <1>2, <4>6, <5>1, <5>4, EntryIndex
      <4>9. QED
        BY <4>3, <4>8
    <3>5. QED
      BY <3>3, <3>4
  <2>3. ASSUME NEW b \in Accounts, NEW j \in Removable, b \notin raced', latest'[b] = None,
               b \in DOMAIN reverse'[j]
        PROVE  \E u \in Working(b)' : call'[u].op = "remove" /\ Entry(j, None) \in Members(call'[u].todo)
    <3>1. /\ b \notin raced /\ latest[b] = None /\ j \in Kinds /\ b \in DOMAIN reverse[j]
          /\ ~(j = k /\ b = a)
      BY <1>1, <1>3, <2>3 DEF Kinds, Removable
    <3>2. PICK u \in Working(b) : call[u].op = "remove" /\ Entry(j, None) \in Members(call[u].todo)
      BY <3>1 DEF ReverseInv
    <3>3. u \in Callers /\ call[u].account = b
      BY DEF Working
    <3>4. CASE u # t
      BY <1>1, <3>2, <3>3, <3>4
    <3>5. CASE u = t
      <4>1. Entry(j, None) # e
        BY <3>1, <3>3, <3>5 DEF Entry
      <4>2. QED
        BY <1>1, <3>2, <3>5, <4>1
    <3>6. QED
      BY <3>4, <3>5
  <2>4. QED
    BY <2>1, <2>2, <2>3 DEF ReverseInv
<1>11. QED
  BY <1>1, <1>3, <1>6, <1>7, <1>9, <1>10

\* A call that returns has nothing left that is due.
LEMMA ReturnKeepsEntries ==
  ASSUME FabricInv, EntryInv, NEW t \in Callers, Return(t)
  PROVE  EntryInv'
<1> USE DEF EntryInv
<1>1. /\ call[t].op # "idle" /\ call[t].todo = <<>>
      /\ call' = [call EXCEPT ![t] = Idle]
      /\ UNCHANGED <<bitmaps, reverse, dict, next_id, latest, past, raced>>
  BY DEF Return
<1>2. /\ Idle \in [op : {"idle", "update", "remove"}, account : Accounts \cup {None},
                   todo : Seq(EntriesOf(CallKeys))]
      /\ Idle.op = "idle" /\ Idle.todo = <<>>
  BY DEF Idle
<1>3. /\ call'[t] = Idle /\ \A u \in Callers : u # t => call'[u] = call[u]
      /\ call' \in [Callers -> [op : {"idle", "update", "remove"},
                                account : Accounts \cup {None},
                                todo : Seq(EntriesOf(CallKeys))]]
  BY <1>1, <1>2 DEF CallType
<1>4. \A b : Working(b)' = Working(b) \ {t}
  BY <1>2, <1>3 DEF Working
<1>5. Members(call[t].todo) = {}
  BY <1>1 DEF Members
<1>6. \A j, b : ListedUnder(j, b)' = ListedUnder(j, b)
  BY <1>1 DEF ListedUnder
<1>7. CallType'
  <2>1. \A u \in Callers : /\ call'[u].op = "idle" => call'[u].todo = <<>>
                           /\ call'[u].op # "idle" => call'[u].account \in Accounts
    BY <1>2, <1>3 DEF CallType
  <2>2. QED
    BY <1>1, <1>3, <2>1 DEF CallType
<1>8. BitmapBound'
  BY <1>1 DEF BitmapBound
<1>9. \A b : \A u \in Working(b)' : u \in Working(b) /\ u \in Callers /\ call'[u] = call[u]
  BY <1>3, <1>4 DEF Working
<1>10. AloneInv'
  <2> SUFFICES ASSUME NEW b \in Accounts, b \notin raced', NEW u \in Working(b)'
               PROVE  /\ \A v \in Working(b)' : u = v
                      /\ call'[u].op = "update" =>
                           /\ latest'[b] # None
                           /\ Members(call'[u].todo) \subseteq EntrySet(latest'[b])
                      /\ call'[u].op = "remove" => latest'[b] = None
    BY DEF AloneInv
  <2>1. b \notin raced /\ u \in Working(b) /\ call'[u] = call[u] /\ latest'[b] = latest[b]
    BY <1>1, <1>9
  <2>2. QED
    BY <1>4, <2>1 DEF AloneInv
<1>11. DueInv'
  <2> SUFFICES ASSUME NEW b \in Accounts, b \notin raced', latest'[b] # None,
                      NEW f \in EntrySet(latest'[b])
               PROVE  \/ f.key \in ListedUnder(f.index, b)'
                      \/ \E u \in Working(b)' : f \in Members(call'[u].todo)
    BY DEF DueInv
  <2>1. \/ f.key \in ListedUnder(f.index, b)
        \/ \E u \in Working(b) : f \in Members(call[u].todo)
    BY <1>1 DEF DueInv
  <2>2. QED
    BY <1>4, <1>5, <1>6, <1>9, <2>1
<1>12. \A b : Seen(b)' = Seen(b)
  BY <1>1 DEF Seen
<1>13. SeenInv'
  <2>1. ASSUME NEW u \in Callers, call'[u].op = "update"
        PROVE  (Members(call[u].todo) \subseteq Seen(call[u].account))'
    <3>1. u # t /\ call'[u] = call[u]
      BY <1>2, <1>3, <2>1
    <3>2. Members(call[u].todo) \subseteq Seen(call[u].account)
      BY <2>1, <3>1 DEF SeenInv
    <3>3. Seen(call[u].account)' = Seen(call[u].account)
      BY <1>1, <3>1 DEF Seen
    <3>4. QED
      BY <3>1, <3>2, <3>3
  <2>2. ASSUME NEW b \in Accounts, NEW j \in Kinds, NEW key \in ListedUnder(j, b)'
        PROVE  Entry(j, key) \in Seen(b)'
    BY <1>6, <1>12, <2>2 DEF SeenInv
  <2>3. QED
    BY <2>1, <2>2 DEF SeenInv
<1>14. ReverseInv'
  <2>1. \A j \in Kinds : DOMAIN reverse'[j] # {} => j \in Enabled
    BY <1>1 DEF ReverseInv
  <2>2. ASSUME NEW b \in Accounts, NEW j \in Removable, Unmoved(j, b)',
               ListedUnder(j, b)' # {}
        PROVE  b \in DOMAIN reverse'[j]
    BY <1>1, <1>6, <2>2 DEF ReverseInv, Unmoved
  <2>3. ASSUME NEW b \in Accounts, NEW j \in Removable, b \notin raced', latest'[b] = None,
               b \in DOMAIN reverse'[j]
        PROVE  \E u \in Working(b)' : call'[u].op = "remove" /\ Entry(j, None) \in Members(call'[u].todo)
    <3>1. PICK u \in Working(b) : call[u].op = "remove" /\ Entry(j, None) \in Members(call[u].todo)
      BY <1>1, <2>3 DEF ReverseInv
    <3>2. u \in Working(b)' /\ call'[u] = call[u]
      BY <1>4, <1>5, <1>9, <3>1
    <3>3. QED
      BY <3>1, <3>2
  <2>4. QED
    BY <2>1, <2>2, <2>3 DEF ReverseInv
<1>15. QED
  BY <1>7, <1>8, <1>10, <1>11, <1>13, <1>14

LEMMA EntriesStep ==
  ASSUME FabricInv, EntryInv, [FabricNext]_fabricVars
  PROVE  EntryInv'
<1>1. ASSUME NEW t \in Callers, NEW a \in Accounts, NEW c \in Contents, UpdateAccount(t, a, c)
      PROVE  EntryInv'
  BY <1>1, UpdateKeepsEntries
<1>2. ASSUME NEW t \in Callers, NEW a \in Accounts, RemoveCall(t, a)
      PROVE  EntryInv'
  BY <1>2, RemoveCallKeepsEntries
<1>3. ASSUME NEW t \in Callers, IndexStep(t)
      PROVE  EntryInv'
  <2>1. call[t].op \in {"update", "remove"}
    BY <1>3, StepCallEffect DEF EntryInv
  <2>2. QED
    BY <1>3, <2>1, AddKeepsEntries, RemoveKeepsEntries
<1>4. ASSUME NEW t \in Callers, Return(t)
      PROVE  EntryInv'
  BY <1>4, ReturnKeepsEntries
<1>5. CASE UNCHANGED fabricVars
  <2>1. UNCHANGED <<bitmaps, reverse, dict, next_id, call, latest, past, raced>>
    BY <1>5 DEF fabricVars
  <2>2. /\ \A j, b : ListedUnder(j, b)' = ListedUnder(j, b)
        /\ \A b : Working(b)' = Working(b) /\ Seen(b)' = Seen(b)
    BY <2>1 DEF ListedUnder, Working, Seen
  <2>3. CallType' /\ BitmapBound'
    BY <2>1 DEF EntryInv, CallType, BitmapBound
  <2>4. AloneInv'
    BY <2>1, <2>2 DEF EntryInv, AloneInv
  <2>5. DueInv'
    BY <2>1, <2>2 DEF EntryInv, DueInv
  <2>6. SeenInv'
    BY <2>1, <2>2 DEF EntryInv, SeenInv, Seen
  <2>7. ReverseInv'
    BY <2>1, <2>2 DEF EntryInv, ReverseInv, Unmoved
  <2>8. QED
    BY <2>3, <2>4, <2>5, <2>6, <2>7 DEF EntryInv
<1>6. QED
  BY <1>1, <1>2, <1>3, <1>4, <1>5 DEF FabricNext

LEMMA EntriesInitially == FabricInit => EntryInv
<1> SUFFICES ASSUME FabricInit PROVE EntryInv
  OBVIOUS
<1>1. /\ \A k \in Kinds : bitmaps[k] = EmptyMap /\ reverse[k] = EmptyMap
      /\ \A t \in Callers : call[t] = Idle
      /\ call \in [Callers -> {Idle}]
      /\ latest = [a \in Accounts |-> None] /\ past = [a \in Accounts |-> {}]
  BY DEF FabricInit
<1>2. DOMAIN EmptyMap = {}
  BY DEF EmptyMap
<1>3. \A k \in Kinds : \A a : ListedUnder(k, a) = {}
  BY <1>1, <1>2 DEF ListedUnder
<1>4. Idle \in [op : {"idle", "update", "remove"}, account : Accounts \cup {None},
                todo : Seq(EntriesOf(CallKeys))] /\ Idle.op = "idle" /\ Idle.todo = <<>>
  BY DEF Idle
<1>5. \A a : Working(a) = {}
  BY <1>1, <1>4 DEF Working
<1>6. CallType
  <2>1. \A a \in Accounts : IsFiniteSet(past[a])
    BY <1>1, FS_EmptySet
  <2>2. call \in [Callers -> [op : {"idle", "update", "remove"}, account : Accounts \cup {None},
                              todo : Seq(EntriesOf(CallKeys))]]
    BY <1>1, <1>4
  <2>3. QED
    BY <1>1, <1>4, <2>1, <2>2 DEF CallType
<1>7. BitmapBound
  BY <1>1, <1>2 DEF BitmapBound
<1>8. AloneInv /\ DueInv
  BY <1>1, <1>5 DEF AloneInv, DueInv
<1>9. SeenInv
  BY <1>1, <1>3, <1>4 DEF SeenInv
<1>10. ReverseInv
  BY <1>1, <1>2, <1>3 DEF ReverseInv, Kinds, Removable
<1>11. QED
  BY <1>6, <1>7, <1>8, <1>9, <1>10 DEF EntryInv

LEMMA EntriesInvariant == FabricSpec => [](FabricInv /\ EntryInv)
<1>1. FabricInit => FabricInv /\ EntryInv
  BY FabricInitially, EntriesInitially
<1>2. FabricInv /\ EntryInv /\ [FabricNext]_fabricVars => FabricInv' /\ EntryInv'
  BY FabricStep, EntriesStep
<1>3. QED
  BY <1>1, <1>2, PTL DEF FabricSpec

\* Once the calls on an account are over and none of them overlapped, every enabled
\* index lists it under each key that update_account() computes from its current
\* content, whatever the calls on other accounts do meanwhile.
THEOREM FabricSettled == FabricSpec => []SettledIsListed
<1>1. FabricInv /\ EntryInv => SettledIsListed
  <2> SUFFICES ASSUME EntryInv, NEW a \in Accounts, Settled(a), latest[a] # None,
                      NEW k \in Enabled, NEW key \in KeysOf(k, latest[a])
               PROVE  key \in ListedUnder(k, a)
    BY DEF SettledIsListed
  <2>1. PICK e \in EntrySet(latest[a]) : e.index = k /\ e.key = key
    BY KeysOfEntries
  <2>2. e.key \in ListedUnder(e.index, a)
    BY DEF EntryInv, DueInv, Settled
  <2>3. QED
    BY <2>1, <2>2
<1>2. QED
  BY <1>1, EntriesInvariant, PTL

\* For any accounts, contents, callers and enabled indexes: an account whose keys in an
\* index never changed is listed under no other key there, whatever calls work on it,
\* and under none once remove_account() is through with it.
THEOREM FabricListed == FabricSpec => []ListedWhereItBelongs
<1>1. FabricInv /\ EntryInv => ListedWhereItBelongs
  <2> SUFFICES ASSUME EntryInv, NEW a \in Accounts, NEW k \in Kinds, Unmoved(k, a)
               PROVE  /\ ListedUnder(k, a) # {} => past[a] # {}
                      /\ \A c \in past[a] : ListedUnder(k, a) \subseteq KeysOf(k, c)
                      /\ Settled(a) /\ latest[a] = None /\ k \in Removable =>
                            ListedUnder(k, a) = {}
    BY DEF ListedWhereItBelongs
  <2>1. ASSUME NEW key \in ListedUnder(k, a)
        PROVE  \E c \in past[a] : key \in KeysOf(k, c)
    <3>1. PICK c \in past[a] : Entry(k, key) \in EntrySet(c)
      BY DEF EntryInv, SeenInv, Seen
    <3>2. Entry(k, key).index = k /\ Entry(k, key).key = key
      BY DEF Entry
    <3>3. QED
      BY <3>1, <3>2, KeysOfEntries
  <2>2. ASSUME Settled(a), latest[a] = None, k \in Removable
        PROVE  ListedUnder(k, a) = {}
    BY <2>2 DEF EntryInv, ReverseInv, Settled
  <2>3. QED
    BY <2>1, <2>2 DEF Unmoved
<1>2. QED
  BY <1>1, EntriesInvariant, PTL

----------------------------------------------------------------------------
(* Queries over it.                                                          *)

\* What a query on ask looks up, and what any query may.
AskSet(ask) == Members(Lookups(ask))
Lookable == UNION {AskSet(ask) : ask \in Queries}

\* The parts of a query its lookups use.
IsQuery(x) ==
    /\ DOMAIN x = {"pc", "mode", "ask", "plans", "estimates", "todo", "found", "lists", "skipped"}
    /\ x.todo \in Seq(Lookable) /\ x.skipped \in SUBSET Lookable
    /\ x.found \in (SUBSET Accounts) \cup {None}

\* A query in progress has a question, and before its lookups no result.
QueryOk(x) ==
    /\ IsQuery(x)
    /\ x.pc # "idle" => x.ask \in Queries
    /\ x.pc # "lookup" => x.found = None /\ x.skipped = {}
QueryShape == DOMAIN query = Queriers /\ \A t \in Queriers : QueryOk(query[t])

\* So has a client that walks through pages.
SessionOk(s, x) ==
    /\ "ask" \in DOMAIN s /\ "last" \in DOMAIN s
    /\ ~s.last \/ (x.pc # "idle" /\ x.mode = "paged") => s.ask \in Queries
SessionShape ==
    DOMAIN session = Queriers /\ \A t \in Queriers : SessionOk(session[t], query[t])

\* The dictionaries know only accounts, and an account's content is one it was updated to.
ContentInv ==
    /\ \A k \in Kinds : DOMAIN dict[k] \subseteq Accounts
    /\ \A a \in Accounts : latest[a] # None => latest[a] \in past[a]

SteadySettled ==
    /\ DOMAIN steady = Queriers
    /\ \A t \in Queriers : steady[t] \subseteq Accounts /\ \A a \in steady[t] : Settled(a)

\* Of the accounts S that stayed as they were, a matching one is in every list that query x
\* has so far, and one list at least, that of the program, is or will be there.
Collects(x, S) ==
    /\ Members(x.todo) \subseteq AskSet(x.ask)
    /\ \A a \in S : latest[a] # None /\ Matches(latest[a], x.ask, {}) =>
         \/ x.found = None /\ Entry("program", x.ask.program) \in Members(x.todo)
         \/ x.found # None /\ a \in x.found

\* An index listed account a for lookup e: it had the key once, and if it only ever had
\* one content it was not removed from the program.
Vouched(a, e) ==
    /\ \E c \in past[a] : e.key \in KeysOf(e.index, c)
    /\ e.index = "program" /\ Cardinality(past[a]) = 1 => latest[a] # None

\* Lookups are made, passed over or still to be made; those made vouch for what is found.
Checked(x, S) ==
    /\ x.found = None => AskSet(x.ask) \subseteq Members(x.todo) \cup x.skipped
    /\ \A a \in S : x.found # None /\ a \in x.found =>
         \A e \in AskSet(x.ask) : e \in Members(x.todo) \cup x.skipped \/ Vouched(a, e)

LookupInv ==
    \A t \in Queriers : query[t].pc = "lookup" =>
        Collects(query[t], steady[t]) /\ Checked(query[t], steady[t])

PlannerInv == QueryShape /\ SessionShape /\ ContentInv /\ SteadySettled /\ LookupInv

----------------------------------------------------------------------------
(* What a query looks up. *)

\* Sorting rearranges: the sequence stays one over the same set, with the same members.
LEMMA SortedMembers ==
  ASSUME NEW S, NEW es \in Seq(S), NEW rank, NEW r \in SortedBy(es, rank)
  PROVE  r \in Seq(S) /\ Members(r) = Members(es)
<1> DEFINE D == 1 .. Len(es)
<1>1. DOMAIN es = D /\ Len(es) \in Nat /\ \A i \in D : es[i] \in S
  OBVIOUS
<1>2. PICK p \in Bijection(DOMAIN es, DOMAIN es) : r = [i \in DOMAIN es |-> es[p[i]]]
  BY DEF SortedBy
<1>3. p \in [D -> D] /\ \A j \in D : \E i \in D : p[i] = j
  BY <1>1, <1>2 DEF Bijection, Surjection
<1>4. r = [i \in D |-> es[p[i]]]
  BY <1>1, <1>2
<1>5. r \in [1 .. Len(es) -> S]
  BY <1>1, <1>3, <1>4
<1>6. \A n \in Nat : \A f \in [1 .. n -> S] : f \in Seq(S)
  OBVIOUS
<1>7. r \in Seq(S)
  BY <1>1, <1>5, <1>6
<1>8. Members(r) = Members(es)
  BY <1>1, <1>3, <1>4 DEF Members
<1>9. QED
  BY <1>7, <1>8

LEMMA AskMembers ==
  ASSUME NEW ask \in Queries
  PROVE  /\ AskSet(ask) = {Entry("program", ask.program)} \cup Members(ask.filters)
         /\ Lookups(ask) \in Seq(AskSet(ask))
         /\ AskSet(ask) \subseteq Lookable
         /\ \A e \in AskSet(ask) :
              /\ e.index \in Kinds
              /\ e.index = "program" => e = Entry("program", ask.program)
              /\ AccountsUnder(e) = GetAccounts(e.index, e.key)
<1> DEFINE P == Entry("program", ask.program)
           S == {P} \cup Members(ask.filters)
<1>1. ask.filters \in Seq(Members(ask.filters))
  BY PlannerAssumption DEF Members
<1>2. ask.filters \in Seq(S)
  BY <1>1, SeqOfMore
<1>3. <<P>> \in Seq(S) /\ Members(<<P>>) = {P}
  BY DEF Members
<1>4. Lookups(ask) = <<P>> \o ask.filters
  BY DEF Lookups
<1> HIDE DEF P
<1>5. <<P>> \o ask.filters \in Seq(S) /\ Members(<<P>> \o ask.filters) = Members(<<P>>) \cup Members(ask.filters)
  <2>1. \A s, u \in Seq(S) : s \o u \in Seq(S) /\ Members(s \o u) = Members(s) \cup Members(u)
    BY ConcatMembers
  <2>2. QED
    BY <1>2, <1>3, <2>1
<1>6. AskSet(ask) = S /\ Lookups(ask) \in Seq(S)
  BY <1>3, <1>4, <1>5 DEF AskSet
<1>7. AskSet(ask) \subseteq Lookable
  BY DEF Lookable
<1>8. \A e \in Members(ask.filters) : e.index \in {"data_size", "memcmp", "discriminator"}
  BY PlannerAssumption DEF Members
<1>9. P.index = "program" /\ P.key = ask.program
  BY DEF P, Entry
<1>10. ASSUME NEW e \in S
       PROVE  /\ e.index \in Kinds
              /\ e.index = "program" => e = P
              /\ AccountsUnder(e) = GetAccounts(e.index, e.key)
  <2>1. CASE e = P
    BY <1>9, <2>1 DEF AccountsUnder, Kinds
  <2>2. CASE e \in Members(ask.filters)
    BY <1>8, <2>2 DEF AccountsUnder, Kinds, GetAccountsBySize, GetAccountsByMemcmp,
                      GetAccountsByDiscriminator
  <2>3. QED
    BY <2>1, <2>2
<1>11. QED
  BY <1>6, <1>7, <1>10 DEF P

\* Whatever the statistics say, both executors look up the program and every filter.
LEMMA OrderMembers ==
  ASSUME NEW ask \in Queries, NEW r \in ExecutionOrder(ask) \cup PlainOrder(ask)
  PROVE  r \in Seq(Lookable) /\ Members(r) = AskSet(ask)
<1>1. Lookups(ask) \in Seq(AskSet(ask)) /\ AskSet(ask) \subseteq Lookable
  BY AskMembers
<1>2. PICK rank : r \in SortedBy(Lookups(ask), rank)
  BY DEF ExecutionOrder, PlainOrder
<1>3. r \in Seq(AskSet(ask)) /\ Members(r) = Members(Lookups(ask))
  BY <1>1, <1>2, SortedMembers
<1>4. QED
  BY <1>1, <1>3, SeqOfMore DEF AskSet

\* A lookup finds a set of accounts or that the key is unknown; an account is in the set
\* when the index lists it under the key.
LEMMA LookupFinds ==
  ASSUME ContentInv, NEW ask \in Queries, NEW e \in AskSet(ask)
  PROVE  /\ AccountsUnder(e) # None <=> e.key \in DOMAIN bitmaps[e.index]
         /\ AccountsUnder(e) # None =>
              /\ AccountsUnder(e) \in SUBSET Accounts
              /\ \A a : a \in AccountsUnder(e) <=> e.key \in ListedUnder(e.index, a)
<1>1. e.index \in Kinds /\ AccountsUnder(e) = GetAccounts(e.index, e.key)
  BY AskMembers
<1>2. DOMAIN dict[e.index] \subseteq Accounts
  BY <1>1 DEF ContentInv
<1>3. CASE e.key \in DOMAIN bitmaps[e.index]
  <2>1. AccountsUnder(e) = {a \in DOMAIN dict[e.index] : dict[e.index][a] \in bitmaps[e.index][e.key]}
    BY <1>1, <1>3 DEF GetAccounts
  <2>2. AccountsUnder(e) \in SUBSET Accounts
    BY <1>2, <2>1
  <2>3. AccountsUnder(e) # None
    BY <2>2, PlannerAssumption
  <2>4. \A a : a \in AccountsUnder(e) <=> e.key \in ListedUnder(e.index, a)
    BY <1>3, <2>1 DEF ListedUnder
  <2>5. QED
    BY <1>3, <2>2, <2>3, <2>4
<1>4. CASE e.key \notin DOMAIN bitmaps[e.index]
  BY <1>1, <1>4 DEF GetAccounts
<1>5. QED
  BY <1>3, <1>4

\* An account that matches a query and is settled is found by each of its lookups.
LEMMA MatchIsFound ==
  ASSUME EntryInv, ContentInv, NEW ask \in Queries, NEW e \in AskSet(ask),
         NEW a \in Accounts, Settled(a), latest[a] # None, Matches(latest[a], ask, {})
  PROVE  AccountsUnder(e) # None /\ a \in AccountsUnder(e)
<1>1. latest[a].owner = ask.program
  BY DEF Matches
<1>2. PICK f \in EntrySet(latest[a]) : f.index = e.index /\ f.key = e.key
  <2>1. CASE e = Entry("program", ask.program)
    <3>1. Entry("program", latest[a].owner) \in EntrySet(latest[a])
      BY PlannerAssumption DEF EntrySet, OneOrNone
    <3>2. QED
      BY <1>1, <2>1, <3>1
  <2>2. CASE e \in Members(ask.filters)
    <3>1. e.key \in KeysOf(e.index, latest[a])
      BY <2>2 DEF Members, Matches
    <3>2. QED
      BY <3>1, KeysOfEntries
  <2>3. QED
    BY <2>1, <2>2, AskMembers
<1>3. f.key \in ListedUnder(f.index, a)
  BY DEF EntryInv, DueInv, Settled
<1>4. e.key \in ListedUnder(e.index, a)
  BY <1>2, <1>3
<1>5. e.key \in DOMAIN bitmaps[e.index]
  BY <1>4 DEF ListedUnder
<1>6. QED
  BY <1>4, <1>5, LookupFinds

\* What a lookup finds of a settled account had the key once.
LEMMA FoundIsVouched ==
  ASSUME EntryInv, ContentInv, NEW ask \in Queries, NEW e \in AskSet(ask),
         NEW a \in Accounts, Settled(a), AccountsUnder(e) # None, a \in AccountsUnder(e)
  PROVE  Vouched(a, e)
<1>1. e.key \in ListedUnder(e.index, a) /\ e.index \in Kinds
  BY LookupFinds, AskMembers
<1>2. \E c \in past[a] : e.key \in KeysOf(e.index, c)
  <2>1. PICK c \in past[a] : Entry(e.index, e.key) \in EntrySet(c)
    BY <1>1 DEF EntryInv, SeenInv, Seen
  <2>2. Entry(e.index, e.key).index = e.index /\ Entry(e.index, e.key).key = e.key
    BY DEF Entry
  <2>3. QED
    BY <2>1, <2>2, KeysOfEntries
<1>3. ASSUME e.index = "program", Cardinality(past[a]) = 1, latest[a] = None
      PROVE  FALSE
  <2>1. IsFiniteSet(past[a])
    BY DEF EntryInv, CallType
  <2>2. PICK c : past[a] = {c}
    BY <1>3, <2>1, FS_Singleton
  <2>3. "program" \in Removable
    BY DEF Removable
  <2>4. a \notin DOMAIN reverse["program"]
    BY <1>3, <2>3 DEF EntryInv, ReverseInv, Settled
  <2>5. ListedUnder("program", a) = {}
    BY <2>2, <2>3, <2>4 DEF EntryInv, ReverseInv, Unmoved
  <2>6. QED
    BY <1>1, <1>3, <2>5
<1>4. QED
  BY <1>2, <1>3 DEF Vouched

----------------------------------------------------------------------------
(* The steps. *)

\* The calls of the index manager: dictionaries only learn accounts, and an account whose
\* calls are over before and after a step has the content it had.
Untouched ==
    \A a \in Accounts : Settled(a) /\ Settled(a)' =>
        latest'[a] = latest[a] /\ past'[a] = past[a]

LEMMA AddLearns ==
  ASSUME FabricInv, EntryInv, ContentInv, NEW t \in Callers, IndexStep(t)
  PROVE  \A k \in Kinds : DOMAIN dict'[k] \subseteq Accounts
<1> SUFFICES ASSUME NEW a, a = call[t].account
             PROVE  \A k \in Kinds : DOMAIN dict'[k] \subseteq Accounts
  OBVIOUS
<1>1. a \in Accounts
  BY StepCallEffect DEF EntryInv
<1>2. DOMAIN dict = Kinds /\ \A k \in Kinds : DOMAIN dict[k] \subseteq Accounts
  BY DEF FabricInv, ContentInv
<1>3. PICK e : AddTo(e.index, a, e.key) \/ RemoveFrom(e.index, a)
  BY DEF IndexStep
<1>4. \/ \E k \in Kinds : dict' = [dict EXCEPT ![k] = Put(@, a, IdFor(k, a))]
      \/ dict' = dict
  BY <1>3 DEF AddTo, AddAccount, AddTokenOwner, AddTokenMint, AddDataSize, AddMemcmp,
              AddDiscriminator, RemoveFrom, RemoveAccount, RemoveTokenOwner, RemoveTokenMint,
              RemoveDataSize, indexes, Kinds
<1>5. CASE dict' = dict
  BY <1>2, <1>5
<1>6. ASSUME NEW k \in Kinds, dict' = [dict EXCEPT ![k] = Put(@, a, IdFor(k, a))]
      PROVE  \A j \in Kinds : DOMAIN dict'[j] \subseteq Accounts
  <2>1. DOMAIN dict'[k] = DOMAIN dict[k] \cup {a}
    BY <1>2, <1>6 DEF Put
  <2>2. \A j \in Kinds : j # k => dict'[j] = dict[j]
    BY <1>2, <1>6
  <2>3. QED
    BY <1>1, <1>2, <2>1, <2>2
<1>7. QED
  BY <1>4, <1>5, <1>6

LEMMA StartsWork ==
  ASSUME CallType, NEW t \in Callers, NEW op \in {"update", "remove"}, NEW a, NEW todo,
         Start(t, op, a, todo)
  PROVE  Working(a)' # {} /\ UNCHANGED <<bitmaps, reverse, dict, next_id>>
<1>1. call' = [call EXCEPT ![t] = [op |-> op, account |-> a, todo |-> todo]]
  BY DEF Start
<1>2. DOMAIN call = Callers
  BY DEF CallType
<1>3. call'[t].op = op /\ call'[t].account = a
  BY <1>1, <1>2
<1>4. t \in Working(a)'
  BY <1>3 DEF Working
<1>5. QED
  BY <1>4 DEF Start, indexes

LEMMA FabricMoves ==
  ASSUME FabricInv, EntryInv, ContentInv, [FabricNext]_fabricVars
  PROVE  ContentInv' /\ Untouched
<1>0. /\ latest \in [Accounts -> Contents \cup {None}]
      /\ past \in [Accounts -> SUBSET Contents]
      /\ CallType
  BY DEF EntryInv, CallType
<1>1. ASSUME NEW t \in Callers, NEW a \in Accounts, NEW c \in Contents, UpdateAccount(t, a, c)
      PROVE  ContentInv' /\ Untouched
  <2>1. Working(a)' # {} /\ UNCHANGED dict
    BY <1>0, <1>1, StartsWork DEF UpdateAccount
  <2>2. /\ \A b \in Accounts : b # a => latest'[b] = latest[b] /\ past'[b] = past[b]
        /\ latest'[a] = c /\ c \in past'[a]
    BY <1>0, <1>1 DEF UpdateAccount
  <2>3. QED
    BY <2>1, <2>2 DEF ContentInv, Untouched, Settled
<1>2. ASSUME NEW t \in Callers, NEW a \in Accounts, RemoveCall(t, a)
      PROVE  ContentInv' /\ Untouched
  <2>1. Working(a)' # {} /\ UNCHANGED dict
    BY <1>0, <1>2, StartsWork DEF RemoveCall
  <2>2. /\ \A b \in Accounts : b # a => latest'[b] = latest[b]
        /\ latest'[a] = None /\ past' = past
    BY <1>0, <1>2 DEF RemoveCall
  <2>3. QED
    BY <2>1, <2>2 DEF ContentInv, Untouched, Settled
<1>3. ASSUME NEW t \in Callers, IndexStep(t)
      PROVE  ContentInv' /\ Untouched
  <2>1. UNCHANGED <<latest, past>>
    BY <1>3 DEF IndexStep
  <2>2. QED
    BY <1>3, <2>1, AddLearns DEF ContentInv, Untouched
<1>4. ASSUME NEW t \in Callers, Return(t)
      PROVE  ContentInv' /\ Untouched
  BY <1>4 DEF Return, ContentInv, Untouched
<1>5. CASE UNCHANGED fabricVars
  BY <1>5 DEF fabricVars, ContentInv, Untouched
<1>6. QED
  BY <1>1, <1>2, <1>3, <1>4, <1>5 DEF FabricNext

\* A query another step leaves alone keeps what it collected: of the accounts it can count
\* on, those the step touches are taken out.
LEMMA QueryKept ==
  ASSUME SteadySettled, LookupInv, Untouched, NEW t \in Queriers, query'[t] = query[t],
         steady'[t] \subseteq {a \in steady[t] : Settled(a)'}, query[t].pc = "lookup"
  PROVE  Collects(query[t], steady[t])' /\ Checked(query[t], steady[t])'
<1>1. \A a \in steady'[t] : /\ a \in steady[t] /\ latest'[a] = latest[a] /\ past'[a] = past[a]
  BY DEF SteadySettled, Untouched
<1>2. Collects(query[t], steady[t])'
  BY <1>1 DEF LookupInv, Collects, AskSet, Lookups, Matches
<1>3. \A a \in steady'[t] : \A e : Vouched(a, e) => Vouched(a, e)'
  BY <1>1 DEF Vouched
<1>4. Checked(query[t], steady[t])'
  BY <1>1, <1>3 DEF LookupInv, Checked, AskSet, Lookups
<1>5. QED
  BY <1>2, <1>4

LEMMA ObserveKeeps ==
  ASSUME SteadySettled, Observe
  PROVE  /\ SteadySettled'
         /\ \A t \in Queriers : query'[t] = query[t] =>
              steady'[t] \subseteq {a \in steady[t] : Settled(a)'}
         /\ \A t \in Queriers : query[t].pc # "idle" =>
              steady'[t] \subseteq {a \in steady[t] : Settled(a)'}
<1>1. \A t \in Queriers : steady'[t] =
        {a \in IF query[t] = NoQuery /\ query'[t] # NoQuery /\ session[t].last
                 THEN Accounts ELSE steady[t] : Settled(a)'}
  BY DEF Observe
<1>2. DOMAIN steady' = Queriers
  BY DEF Observe
<1>3. SteadySettled'
  BY <1>1, <1>2 DEF SteadySettled
<1>4. NoQuery.pc = "idle"
  BY DEF NoQuery
<1>5. QED
  BY <1>1, <1>3, <1>4

\* A finished plan leads to the next one or to the lookups of everything that was asked for.
LEMMA PlanOk ==
  ASSUME NEW y, IsQuery(y), y.ask \in Queries, y.found = None, y.skipped = {},
         NEW x \in PlanDone(y), NEW S
  PROVE  /\ QueryOk(x)
         /\ x.pc = "lookup" => Collects(x, S) /\ Checked(x, S)
<1>1. CASE y.plans > 1
  <2>1. x = [y EXCEPT !.pc = "plan", !.plans = @ - 1]
    BY <1>1 DEF PlanDone
  <2>2. QED
    BY <2>1 DEF QueryOk, IsQuery
<1>2. CASE ~(y.plans > 1)
  <2>1. PICK r \in ExecutionOrder(y.ask) \cup PlainOrder(y.ask) :
            x = [y EXCEPT !.pc = "lookup", !.plans = 0, !.todo = r]
    BY <1>2 DEF PlanDone, Execute
  <2>2. r \in Seq(Lookable) /\ Members(r) = AskSet(y.ask)
    BY OrderMembers
  <2>3. /\ IsQuery(x) /\ x.ask = y.ask /\ x.found = None /\ x.skipped = {} /\ x.todo = r
        /\ x.pc = "lookup"
    BY <2>1, <2>2 DEF IsQuery
  <2>4. Entry("program", x.ask.program) \in Members(x.todo)
    BY <2>2, <2>3, AskMembers
  <2>5. QED
    BY <2>2, <2>3, <2>4 DEF QueryOk, Collects, Checked
<1>3. QED
  BY <1>1, <1>2

\* The next lookup of a query: the accounts that stayed as they were and match are in the
\* list, if there is one, and whoever is in it had the key.
LEMMA LookupOk ==
  ASSUME EntryInv, ContentInv, NEW x, IsQuery(x), x.ask \in Queries, x.pc = "lookup",
         x.todo # <<>>, NEW S, \A a \in S : a \in Accounts /\ Settled(a),
         Collects(x, S), Checked(x, S)
  PROVE  LET y == Looked(x, Head(x.todo)) IN
         QueryOk(y) /\ Collects(y, S) /\ Checked(y, S)
<1> SUFFICES ASSUME NEW e, e = Head(x.todo), NEW y, y = Looked(x, e)
             PROVE  QueryOk(y) /\ Collects(y, S) /\ Checked(y, S)
  OBVIOUS
<1>1. /\ x.todo \in Seq(Lookable) /\ x.found \in (SUBSET Accounts) \cup {None}
      /\ x.skipped \in SUBSET Lookable
  BY DEF IsQuery
<1>2. /\ Tail(x.todo) \in Seq(Lookable) /\ e \in Lookable
      /\ Members(x.todo) = {e} \cup Members(Tail(x.todo))
  BY <1>1, HeadTailMembers
<1>3. e \in AskSet(x.ask) /\ Members(Tail(x.todo)) \subseteq AskSet(x.ask)
  BY <1>2 DEF Collects
<1>4. {} # None /\ \A T \in SUBSET Accounts : T # None
  BY PlannerAssumption
<1>5. \A a \in S : latest[a] # None /\ Matches(latest[a], x.ask, {}) =>
         AccountsUnder(e) # None /\ a \in AccountsUnder(e)
  BY <1>3, MatchIsFound
<1>6. PICK n : n = [x EXCEPT !.todo = Tail(@)]
  OBVIOUS
<1>7. /\ DOMAIN n = DOMAIN x /\ n.todo = Tail(x.todo) /\ n.found = x.found
      /\ n.skipped = x.skipped /\ n.ask = x.ask /\ n.pc = x.pc
  BY <1>6 DEF IsQuery
<1>8. y = IF AccountsUnder(e) # None
            THEN [n EXCEPT !.lists = @ + 1,
                           !.found = IF @ = None THEN AccountsUnder(e) ELSE @ \cap AccountsUnder(e)]
          ELSE IF e.index = "program" /\ x.mode # "optimized"
            THEN [n EXCEPT !.todo = <<>>, !.found = {}]
          ELSE [n EXCEPT !.skipped = @ \cup {e}]
  BY <1>6 DEF Looked
<1>9. CASE AccountsUnder(e) # None
  <2>1. AccountsUnder(e) \in SUBSET Accounts
    BY <1>3, <1>9, LookupFinds
  <2>2. PICK F : F = IF x.found = None THEN AccountsUnder(e) ELSE x.found \cap AccountsUnder(e)
    OBVIOUS
  <2>3. F \in SUBSET Accounts /\ F # None /\ F \subseteq AccountsUnder(e)
        /\ (x.found # None => F = x.found \cap AccountsUnder(e))
        /\ (x.found = None => F = AccountsUnder(e))
    BY <1>1, <1>4, <2>1, <2>2
  <2>4. y = [n EXCEPT !.lists = @ + 1, !.found = F]
    BY <1>7, <1>8, <1>9, <2>2 DEF IsQuery
  <2>5. /\ IsQuery(y) /\ y.todo = Tail(x.todo) /\ y.found = F /\ y.skipped = x.skipped
        /\ y.ask = x.ask /\ y.pc = "lookup"
    BY <1>1, <1>2, <1>7, <2>3, <2>4 DEF IsQuery
  <2>6. QueryOk(y)
    BY <2>5 DEF QueryOk
  <2>7. Collects(y, S)
    BY <1>3, <1>5, <2>3, <2>5 DEF Collects
  <2>8. ASSUME NEW a \in S, a \in F, NEW d \in AskSet(x.ask)
        PROVE  d \in Members(Tail(x.todo)) \cup x.skipped \/ Vouched(a, d)
    <3>1. CASE d = e
      BY <1>3, <1>9, <2>3, <2>8, <3>1, FoundIsVouched
    <3>2. CASE d # e
      BY <1>2, <2>3, <2>8, <3>2 DEF Checked
    <3>3. QED
      BY <3>1, <3>2
  <2>9. Checked(y, S)
    BY <2>3, <2>5, <2>8 DEF Checked
  <2>10. QED
    BY <2>6, <2>7, <2>9
<1>10. CASE AccountsUnder(e) = None /\ e.index = "program" /\ x.mode # "optimized"
  <2>1. y = [n EXCEPT !.todo = <<>>, !.found = {}]
    BY <1>8, <1>10
  <2>2. /\ DOMAIN y = DOMAIN x /\ y.todo = <<>> /\ y.found = {} /\ y.ask = x.ask
        /\ y.pc = "lookup" /\ y.skipped = x.skipped
    BY <1>7, <2>1 DEF IsQuery
  <2>3. <<>> \in Seq(Lookable) /\ {} \in SUBSET Accounts
    OBVIOUS
  <2>4. IsQuery(y) /\ y.todo = <<>> /\ y.found = {} /\ y.ask = x.ask /\ y.pc = "lookup"
    BY <1>1, <2>2, <2>3 DEF IsQuery
  <2>5. Members(y.todo) = {}
    BY <2>4 DEF Members
  <2>6. QED
    BY <1>4, <1>5, <1>10, <2>4, <2>5 DEF QueryOk, Collects, Checked
<1>11. CASE AccountsUnder(e) = None /\ ~(e.index = "program" /\ x.mode # "optimized")
  <2>1. y = [n EXCEPT !.skipped = @ \cup {e}]
    BY <1>8, <1>11
  <2>2. /\ DOMAIN y = DOMAIN x /\ y.todo = Tail(x.todo) /\ y.found = x.found
        /\ y.skipped = x.skipped \cup {e} /\ y.ask = x.ask /\ y.pc = "lookup"
    BY <1>7, <2>1 DEF IsQuery
  <2>3. IsQuery(y)
    BY <1>1, <1>2, <2>2 DEF IsQuery
  <2>4. QueryOk(y)
    BY <2>2, <2>3 DEF QueryOk
  <2>5. Collects(y, S)
    BY <1>3, <1>5, <1>11, <2>2 DEF Collects
  <2>6. Members(y.todo) \cup y.skipped = Members(x.todo) \cup x.skipped
    BY <1>2, <2>2
  <2>7. Checked(y, S)
    BY <2>2, <2>6 DEF Checked
  <2>8. QED
    BY <2>4, <2>5, <2>7
<1>12. QED
  BY <1>9, <1>10, <1>11

\* One querier moves, the others keep what they have.
LEMMA OneMoves ==
  ASSUME QueryShape, SteadySettled, LookupInv, Untouched, Observe,
         NEW t \in Queriers, NEW x, query' = [query EXCEPT ![t] = x], QueryOk(x),
         x.pc = "lookup" => Collects(x, steady[t])' /\ Checked(x, steady[t])'
  PROVE  QueryShape' /\ LookupInv'
<1>1. /\ DOMAIN query' = Queriers /\ query'[t] = x
      /\ \A u \in Queriers : u # t => query'[u] = query[u]
  BY DEF QueryShape
<1>2. QueryShape'
  <2>1. \A y : QueryOk(y)' <=> QueryOk(y)
    BY DEF QueryOk, IsQuery
  <2>2. QED
    BY <1>1, <2>1 DEF QueryShape, QueryOk, IsQuery
<1>3. ASSUME NEW u \in Queriers, query'[u].pc = "lookup"
      PROVE  Collects(query[u], steady[u])' /\ Checked(query[u], steady[u])'
  <2>1. CASE u = t
    BY <1>1, <1>3, <2>1
  <2>2. CASE u # t
    <3>1. query'[u] = query[u] /\ query[u].pc = "lookup"
      BY <1>1, <1>3, <2>2
    <3>2. steady'[u] \subseteq {a \in steady[u] : Settled(a)'}
      BY <3>1, ObserveKeeps
    <3>3. QED
      BY <3>1, <3>2, QueryKept
  <2>3. QED
    BY <2>1, <2>2
<1>4. QED
  BY <1>2, <1>3 DEF LookupInv

\* Nobody moves.
LEMMA NobodyMoves ==
  ASSUME QueryShape, SteadySettled, LookupInv, Untouched, Observe, query' = query
  PROVE  QueryShape' /\ LookupInv'
<1>1. QueryShape'
  BY DEF QueryShape, QueryOk, IsQuery
<1>2. ASSUME NEW u \in Queriers, query'[u].pc = "lookup"
      PROVE  Collects(query[u], steady[u])' /\ Checked(query[u], steady[u])'
  <2>1. steady'[u] \subseteq {a \in steady[u] : Settled(a)'}
    BY ObserveKeeps
  <2>2. QED
    BY <1>2, <2>1, QueryKept
<1>3. QED
  BY <1>1, <1>2 DEF LookupInv

LEMMA NoQueryOk == QueryOk(NoQuery) /\ NoQuery.pc = "idle"
<1>1. /\ DOMAIN NoQuery = {"pc", "mode", "ask", "plans", "estimates", "todo", "found", "lists", "skipped"}
      /\ NoQuery.pc = "idle" /\ NoQuery.todo = <<>> /\ NoQuery.found = None /\ NoQuery.skipped = {}
  BY DEF NoQuery
<1>2. <<>> \in Seq(Lookable) /\ {} \in SUBSET Lookable
  OBVIOUS
<1>3. IsQuery(NoQuery)
  <2>1. NoQuery.todo \in Seq(Lookable)
    BY <1>1, <1>2
  <2>2. NoQuery.skipped \in SUBSET Lookable
    BY <1>1, <1>2
  <2>3. NoQuery.found \in (SUBSET Accounts) \cup {None}
    BY <1>1
  <2>4. QED
    BY <1>1, <2>1, <2>2, <2>3 DEF IsQuery
<1>4. QED
  BY <1>1, <1>3 DEF QueryOk

LEMMA AskMoves ==
  ASSUME QueryShape, SessionShape, SteadySettled, LookupInv, Untouched, Observe,
         NEW t \in Queriers,
         (\E mode \in Modes, ask \in Queries : Ask(t, mode, ask)) \/ AskNext(t)
  PROVE  QueryShape' /\ LookupInv'
<1>1. PICK mode, ask, plans :
         /\ ask \in Queries /\ query[t] = NoQuery
         /\ query' = [query EXCEPT ![t] =
              [@ EXCEPT !.pc = "plan", !.mode = mode, !.ask = ask, !.plans = plans]]
  <2>1. CASE AskNext(t)
    <3>1. session[t].ask \in Queries
      BY <2>1 DEF AskNext, SessionShape, SessionOk
    <3>2. /\ query[t] = NoQuery
          /\ query' = [query EXCEPT ![t] = [@ EXCEPT !.pc = "plan", !.mode = "paged",
                                                    !.ask = session[t].ask, !.plans = 1]]
      BY <2>1 DEF AskNext
    <3>3. QED
      BY <3>1, <3>2
  <2>2. CASE \E mode \in Modes, ask \in Queries : Ask(t, mode, ask)
    <3>1. PICK mode \in Modes, ask \in Queries : Ask(t, mode, ask)
      BY <2>2
    <3>2. /\ query[t] = NoQuery
          /\ query' = [query EXCEPT ![t] = [@ EXCEPT !.pc = "plan", !.mode = mode, !.ask = ask,
                                       !.plans = IF mode = "optimized" THEN 2 ELSE 1]]
      BY <3>1 DEF Ask
    <3>3. QED
      BY <3>2
  <2>3. QED
    BY <2>1, <2>2
<1>2. PICK x : x = [query[t] EXCEPT !.pc = "plan", !.mode = mode, !.ask = ask, !.plans = plans]
  OBVIOUS
<1>3. query' = [query EXCEPT ![t] = x]
  BY <1>1, <1>2
<1>4. x.pc = "plan" /\ QueryOk(x)
  <2>1. QueryOk(query[t])
    BY DEF QueryShape
  <2>2. /\ DOMAIN x = DOMAIN query[t] /\ x.todo = query[t].todo /\ x.found = query[t].found
        /\ x.skipped = query[t].skipped /\ x.ask = ask /\ x.pc = "plan"
    BY <1>2, <2>1 DEF QueryOk, IsQuery
  <2>3. query[t].pc = "idle"
    BY <1>1, NoQueryOk
  <2>4. IsQuery(x)
    BY <2>1, <2>2 DEF QueryOk, IsQuery
  <2>5. QED
    BY <1>1, <2>1, <2>2, <2>3, <2>4 DEF QueryOk
<1>5. QED
  BY <1>3, <1>4, OneMoves

LEMMA PlanMoves ==
  ASSUME QueryShape, SteadySettled, LookupInv, Untouched, Observe, UNCHANGED fabricVars,
         NEW t \in Queriers, PlanOuter(t) \/ PlanInner(t)
  PROVE  QueryShape' /\ LookupInv'
<1>1. /\ QueryOk(query[t]) /\ query[t].pc \in {"plan", "estimate"}
      /\ IsQuery(query[t]) /\ query[t].ask \in Queries /\ query[t].found = None /\ query[t].skipped = {}
  BY DEF QueryShape, QueryOk, PlanOuter, PlanInner
<1>2. ASSUME NEW y, IsQuery(y), y.ask \in Queries, y.found = None, y.skipped = {},
             NEW x \in PlanDone(y), query' = [query EXCEPT ![t] = x]
      PROVE  QueryShape' /\ LookupInv'
  <2>1. QueryOk(x) /\ (x.pc = "lookup" => Collects(x, steady'[t]) /\ Checked(x, steady'[t]))
    BY <1>2, PlanOk
  <2>2. UNCHANGED <<latest, past>>
    BY DEF fabricVars
  <2>3. x.pc = "lookup" => Collects(x, steady[t])' /\ Checked(x, steady[t])'
    BY <2>1, <2>2 DEF Collects, Checked, Vouched, AskSet, Lookups, Matches
  <2>4. QED
    BY <1>2, <2>1, <2>3, OneMoves
<1>3. ASSUME NEW x, query' = [query EXCEPT ![t] = x],
             x.pc = "estimate", DOMAIN x = DOMAIN query[t], x.ask = query[t].ask,
             x.todo = query[t].todo, x.found = query[t].found, x.skipped = query[t].skipped
      PROVE  QueryShape' /\ LookupInv'
  <2>1. QueryOk(x)
    BY <1>1, <1>3 DEF QueryOk, IsQuery
  <2>2. QED
    BY <1>3, <2>1, OneMoves
<1>4. CASE PlanOuter(t)
  <2>1. CASE \E x \in PlanDone(query[t]) : query' = [query EXCEPT ![t] = x]
    BY <1>1, <1>2, <2>1
  <2>2. CASE ~ \E x \in PlanDone(query[t]) : query' = [query EXCEPT ![t] = x]
    <3>1. PICK n, x : /\ x = [query[t] EXCEPT !.pc = "estimate", !.estimates = n]
                      /\ query' = [query EXCEPT ![t] = x]
      BY <1>4, <2>2 DEF PlanOuter
    <3>2. /\ x.pc = "estimate" /\ DOMAIN x = DOMAIN query[t] /\ x.ask = query[t].ask
          /\ x.todo = query[t].todo /\ x.found = query[t].found /\ x.skipped = query[t].skipped
      BY <1>1, <3>1 DEF IsQuery
    <3>3. QED
      BY <1>3, <3>1, <3>2
  <2>3. QED
    BY <2>1, <2>2
<1>5. CASE PlanInner(t)
  <2>1. CASE query[t].estimates = 1
    <3>1. PICK y, x : /\ y = [query[t] EXCEPT !.estimates = 0]
                      /\ x \in PlanDone(y) /\ query' = [query EXCEPT ![t] = x]
      BY <1>5, <2>1 DEF PlanInner
    <3>2. /\ DOMAIN y = DOMAIN query[t] /\ y.ask = query[t].ask
          /\ y.todo = query[t].todo /\ y.found = query[t].found /\ y.skipped = query[t].skipped
      BY <1>1, <3>1 DEF IsQuery
    <3>3. IsQuery(y) /\ y.ask \in Queries /\ y.found = None /\ y.skipped = {}
      BY <1>1, <3>2 DEF IsQuery
    <3>4. QED
      BY <1>2, <3>1, <3>3
  <2>2. CASE query[t].estimates # 1
    <3>1. PICK x : /\ x = [query[t] EXCEPT !.estimates = @ - 1]
                   /\ query' = [query EXCEPT ![t] = x]
      BY <1>5, <2>2 DEF PlanInner
    <3>2. query[t].pc = "estimate"
      BY <1>5 DEF PlanInner
    <3>3. /\ x.pc = "estimate" /\ DOMAIN x = DOMAIN query[t] /\ x.ask = query[t].ask
          /\ x.todo = query[t].todo /\ x.found = query[t].found /\ x.skipped = query[t].skipped
      BY <1>1, <3>1, <3>2 DEF IsQuery
    <3>4. QED
      BY <1>3, <3>1, <3>3
  <2>3. QED
    BY <2>1, <2>2
<1>6. QED
  BY <1>4, <1>5

LEMMA LookupMoves ==
  ASSUME QueryShape, EntryInv, ContentInv, SteadySettled, LookupInv, Untouched, Observe,
         UNCHANGED fabricVars, NEW t \in Queriers, Lookup(t)
  PROVE  QueryShape' /\ LookupInv'
<1>1. /\ IsQuery(query[t]) /\ query[t].ask \in Queries /\ query[t].pc = "lookup"
      /\ query[t].todo # <<>>
  BY DEF QueryShape, QueryOk, Lookup
<1>2. PICK x : x = Looked(query[t], Head(query[t].todo))
  OBVIOUS
<1>3. query' = [query EXCEPT ![t] = x]
  BY <1>2 DEF Lookup
<1>4. UNCHANGED <<latest, past>>
  BY DEF fabricVars
<1>5. steady'[t] \subseteq steady[t]
  BY <1>1, ObserveKeeps
<1>6. \A a \in steady[t] : a \in Accounts /\ Settled(a)
  BY DEF SteadySettled
<1>7. Collects(query[t], steady[t]) /\ Checked(query[t], steady[t])
  BY <1>1 DEF LookupInv
<1>8. QueryOk(x) /\ Collects(x, steady[t]) /\ Checked(x, steady[t])
  BY <1>1, <1>2, <1>6, <1>7, LookupOk
<1>9. Collects(x, steady[t])' /\ Checked(x, steady[t])'
  BY <1>4, <1>5, <1>8 DEF Collects, Checked, Vouched, AskSet, Lookups, Matches
<1>10. QED
  BY <1>3, <1>8, <1>9, OneMoves

LEMMA RespondMoves ==
  ASSUME QueryShape, SteadySettled, LookupInv, Untouched, Observe,
         NEW t \in Queriers, Respond(t)
  PROVE  QueryShape' /\ LookupInv'
<1>1. query' = [query EXCEPT ![t] = NoQuery]
  BY DEF Respond
<1>2. QueryOk(NoQuery) /\ NoQuery.pc # "lookup"
  BY NoQueryOk
<1>3. PICK x : x = NoQuery
  OBVIOUS
<1>4. query' = [query EXCEPT ![t] = x] /\ QueryOk(x) /\ x.pc # "lookup"
  BY <1>1, <1>2, <1>3
<1>5. QED
  BY <1>4, OneMoves

\* A query keeps its mode until it has responded.
LEMMA ModeKept ==
  ASSUME QueryShape, NEW t \in Queriers, PlanOuter(t) \/ PlanInner(t) \/ Lookup(t)
  PROVE  /\ query[t].pc # "idle" /\ query'[t].mode = query[t].mode
         /\ \A u \in Queriers : u # t => query'[u] = query[u]
         /\ session' = session
<1>1. DOMAIN query = Queriers /\ IsQuery(query[t])
  BY DEF QueryShape, QueryOk
<1>2. query[t].pc # "idle" /\ session' = session
  BY DEF PlanOuter, PlanInner, Lookup
<1>3. ASSUME NEW y, DOMAIN y = DOMAIN query[t], NEW x \in PlanDone(y)
      PROVE  x.mode = y.mode
  <2>1. \/ x = [y EXCEPT !.pc = "plan", !.plans = @ - 1]
        \/ \E r : x = [y EXCEPT !.pc = "lookup", !.plans = 0, !.todo = r]
    BY <1>3 DEF PlanDone, Execute
  <2>2. QED
    BY <1>1, <1>3, <2>1 DEF IsQuery
<1>4. \E x : query' = [query EXCEPT ![t] = x] /\ x.mode = query[t].mode
  <2>1. CASE PlanOuter(t)
    <3>1. CASE \E x \in PlanDone(query[t]) : query' = [query EXCEPT ![t] = x]
      BY <1>3, <3>1
    <3>2. CASE ~ \E x \in PlanDone(query[t]) : query' = [query EXCEPT ![t] = x]
      <4>1. PICK n, x : /\ x = [query[t] EXCEPT !.pc = "estimate", !.estimates = n]
                        /\ query' = [query EXCEPT ![t] = x]
        BY <2>1, <3>2 DEF PlanOuter
      <4>2. x.mode = query[t].mode
        BY <1>1, <4>1 DEF IsQuery
      <4>3. QED
        BY <4>1, <4>2
    <3>3. QED
      BY <3>1, <3>2
  <2>2. CASE PlanInner(t)
    <3>1. CASE query[t].estimates = 1
      <4>1. PICK y, x : /\ y = [query[t] EXCEPT !.estimates = 0]
                        /\ x \in PlanDone(y) /\ query' = [query EXCEPT ![t] = x]
        BY <2>2, <3>1 DEF PlanInner
      <4>2. DOMAIN y = DOMAIN query[t] /\ y.mode = query[t].mode
        BY <1>1, <4>1 DEF IsQuery
      <4>3. QED
        BY <1>3, <4>1, <4>2
    <3>2. CASE query[t].estimates # 1
      <4>1. PICK x : /\ x = [query[t] EXCEPT !.estimates = @ - 1]
                     /\ query' = [query EXCEPT ![t] = x]
        BY <2>2, <3>2 DEF PlanInner
      <4>2. x.mode = query[t].mode
        BY <1>1, <4>1 DEF IsQuery
      <4>3. QED
        BY <4>1, <4>2
    <3>3. QED
      BY <3>1, <3>2
  <2>3. CASE Lookup(t)
    <3>1. PICK e, x : x = Looked(query[t], e) /\ query' = [query EXCEPT ![t] = x]
      BY <2>3 DEF Lookup
    <3>2. PICK n : n = [query[t] EXCEPT !.todo = Tail(@)]
      OBVIOUS
    <3>3. DOMAIN n = DOMAIN query[t] /\ n.mode = query[t].mode
      BY <1>1, <3>2 DEF IsQuery
    <3>4. \/ \E k, F : x = [n EXCEPT !.lists = k, !.found = F]
          \/ x = [n EXCEPT !.todo = <<>>, !.found = {}]
          \/ \E T : x = [n EXCEPT !.skipped = T]
      BY <3>1, <3>2 DEF Looked
    <3>5. x.mode = query[t].mode
      BY <1>1, <3>3, <3>4 DEF IsQuery
    <3>6. QED
      BY <3>1, <3>5
  <2>4. QED
    BY <2>1, <2>2, <2>3
<1>5. QED
  BY <1>1, <1>2, <1>4

\* A client that has a cursor keeps its question with it.
LEMMA SessionMoves ==
  ASSUME QueryShape, SessionShape, PlannerNext
  PROVE  SessionShape'
<1>1. \/ UNCHANGED <<query, session>>
      \/ \E t \in Queriers, mode \in Modes, ask \in Queries : Ask(t, mode, ask)
      \/ \E t \in Queriers : AskNext(t)
      \/ \E t \in Queriers : PlanOuter(t) \/ PlanInner(t) \/ Lookup(t)
      \/ \E t \in Queriers : Respond(t)
  BY DEF PlannerNext, RefreshRequest, RefreshStatistics
<1>2. CASE UNCHANGED <<query, session>>
  BY <1>2 DEF SessionShape, SessionOk
<1>3. ASSUME NEW t \in Queriers, DOMAIN session' = Queriers, SessionOk(session'[t], query'[t]),
             \A u \in Queriers : u # t => session'[u] = session[u] /\ query'[u] = query[u]
      PROVE  SessionShape'
  <2>1. \A u \in Queriers : SessionOk(session'[u], query'[u])
    BY <1>3 DEF SessionShape
  <2>2. QED
    BY <1>3, <2>1 DEF SessionShape, SessionOk
<1>4. DOMAIN session = Queriers /\ DOMAIN query = Queriers
  BY DEF SessionShape, QueryShape
<1>5. \A t \in Queriers : SessionOk(session[t], query[t]) /\ IsQuery(query[t])
  BY DEF SessionShape, QueryShape, QueryOk
<1>6. ASSUME NEW t \in Queriers, NEW mode \in Modes, NEW ask \in Queries, Ask(t, mode, ask)
      PROVE  SessionShape'
  <2>1. PICK s, x : /\ s = IF mode = "paged" THEN [NoSession EXCEPT !.ask = ask, !.last = FALSE]
                                             ELSE NoSession
                    /\ x = [query[t] EXCEPT !.pc = "plan", !.mode = mode, !.ask = ask,
                                            !.plans = IF mode = "optimized" THEN 2 ELSE 1]
    OBVIOUS
  <2>2. session' = [session EXCEPT ![t] = s] /\ query' = [query EXCEPT ![t] = x]
    BY <1>6, <2>1 DEF Ask
  <2>3. x.mode = mode
    BY <1>5, <2>1 DEF IsQuery
  <2>4. "ask" \in DOMAIN NoSession /\ "last" \in DOMAIN NoSession /\ NoSession.last
    BY DEF NoSession
  <2>5. SessionOk(s, x)
    <3>1. CASE mode = "paged"
      <4>1. s = [NoSession EXCEPT !.ask = ask, !.last = FALSE]
        BY <2>1, <3>1
      <4>2. DOMAIN s = DOMAIN NoSession /\ s.ask = ask
        BY <2>4, <4>1
      <4>3. QED
        BY <2>4, <4>2 DEF SessionOk
    <3>2. CASE mode # "paged"
      BY <2>1, <2>3, <2>4, <3>2 DEF SessionOk
    <3>3. QED
      BY <3>1, <3>2
  <2>6. QED
    BY <1>3, <1>4, <2>2, <2>5
<1>7. ASSUME NEW t \in Queriers, AskNext(t)
      PROVE  SessionShape'
  <2>1. session[t].ask \in Queries /\ session' = session
    BY <1>5, <1>7 DEF AskNext, SessionOk
  <2>2. SessionOk(session'[t], query'[t])
    BY <1>5, <2>1 DEF SessionOk
  <2>3. \A u \in Queriers : u # t => query'[u] = query[u]
    BY <1>4, <1>7 DEF AskNext
  <2>4. QED
    BY <1>3, <1>4, <2>1, <2>2, <2>3
<1>8. ASSUME NEW t \in Queriers, PlanOuter(t) \/ PlanInner(t) \/ Lookup(t)
      PROVE  SessionShape'
  <2>1. /\ query[t].pc # "idle" /\ query'[t].mode = query[t].mode
        /\ \A u \in Queriers : u # t => query'[u] = query[u]
        /\ session' = session
    BY <1>8, ModeKept
  <2>2. SessionOk(session'[t], query'[t])
    BY <1>5, <2>1 DEF SessionOk
  <2>3. QED
    BY <1>3, <1>4, <2>1, <2>2
<1>9. ASSUME NEW t \in Queriers, Respond(t)
      PROVE  SessionShape'
  <2>1. query'[t].pc = "idle" /\ \A u \in Queriers : u # t => query'[u] = query[u]
    BY <1>4, <1>9, NoQueryOk DEF Respond
  <2>2. CASE session' = session
    <3>1. SessionOk(session'[t], query'[t])
      BY <1>5, <2>1, <2>2 DEF SessionOk
    <3>2. QED
      BY <1>3, <1>4, <2>1, <2>2, <3>1
  <2>3. CASE query[t].mode = "paged"
    <3>1. query[t].pc # "idle"
      BY <1>9 DEF Respond, Answered
    <3>2. PICK results, s : s = NextPage(session[t], results) /\ session' = [session EXCEPT ![t] = s]
      BY <1>9, <2>3 DEF Respond
    <3>3. session[t].ask \in Queries /\ "ask" \in DOMAIN session[t] /\ "last" \in DOMAIN session[t]
      BY <1>5, <2>3, <3>1 DEF SessionOk
    <3>4. PICK c, l, m, w, n : s = [session[t] EXCEPT !.cursor = c, !.last = l, !.lost = m,
                                                      !.twice = w, !.seen = n]
      BY <3>2 DEF NextPage
    <3>5. DOMAIN s = DOMAIN session[t] /\ s.ask = session[t].ask
      BY <3>3, <3>4
    <3>6. SessionOk(s, query'[t])
      BY <3>3, <3>5 DEF SessionOk
    <3>7. QED
      BY <1>3, <1>4, <2>1, <3>2, <3>6
  <2>4. QED
    BY <1>9, <2>2, <2>3 DEF Respond
<1>10. QED
  BY <1>1, <1>2, <1>6, <1>7, <1>8, <1>9

----------------------------------------------------------------------------
(* The theorems. *)

LEMMA PlannerInitially == Init => FabricInv /\ EntryInv /\ PlannerInv
<1> SUFFICES ASSUME Init PROVE FabricInv /\ EntryInv /\ PlannerInv
  OBVIOUS
<1>1. FabricInv /\ EntryInv
  BY FabricInitially, EntriesInitially DEF Init
<1>2. QueryShape /\ LookupInv
  BY NoQueryOk DEF Init, QueryShape, LookupInv
<1>3. SessionShape
  <2>1. "ask" \in DOMAIN NoSession /\ "last" \in DOMAIN NoSession /\ NoSession.last
    BY DEF NoSession
  <2>2. DOMAIN session = Queriers /\ \A t \in Queriers : session[t] = NoSession /\ query[t] = NoQuery
    BY DEF Init
  <2>3. QED
    BY <2>1, <2>2, NoQueryOk DEF SessionShape, SessionOk
<1>4. ContentInv
  BY DEF Init, FabricInit, ContentInv, EmptyMap
<1>5. SteadySettled
  BY DEF Init, SteadySettled
<1>6. QED
  BY <1>1, <1>2, <1>3, <1>4, <1>5 DEF PlannerInv

LEMMA PlannerStep ==
  ASSUME FabricInv, EntryInv, PlannerInv, [Next]_vars
  PROVE  FabricInv' /\ EntryInv' /\ PlannerInv'
<1>1. QueryShape /\ SessionShape /\ ContentInv /\ SteadySettled /\ LookupInv
  BY DEF PlannerInv
<1>2. [FabricNext]_fabricVars
  BY DEF Next, vars
<1>3. FabricInv' /\ EntryInv'
  BY <1>2, FabricStep, EntriesStep
<1>4. ContentInv' /\ Untouched
  BY <1>1, <1>2, FabricMoves
<1>5. CASE UNCHANGED vars
  <2>1. UNCHANGED <<query, session, steady, latest, past, raced, call>>
    BY <1>5 DEF vars, plannerVars, fabricVars
  <2>2. QueryShape' /\ SessionShape'
    BY <1>1, <2>1 DEF QueryShape, QueryOk, IsQuery, SessionShape, SessionOk
  <2>3. SteadySettled'
    BY <1>1, <2>1 DEF SteadySettled, Settled, Working
  <2>4. LookupInv'
    BY <1>1, <2>1 DEF LookupInv, Collects, Checked, Vouched, AskSet, Lookups, Matches
  <2>5. QED
    BY <1>3, <1>4, <2>2, <2>3, <2>4 DEF PlannerInv
<1>6. CASE Next
  <2>1. Observe /\ SteadySettled'
    BY <1>1, <1>6, ObserveKeeps DEF Next
  <2>2. CASE UNCHANGED <<query, session>>
    <3>1. QueryShape' /\ LookupInv'
      BY <1>1, <1>4, <2>1, <2>2, NobodyMoves
    <3>2. SessionShape'
      BY <1>1, <2>2 DEF SessionShape, SessionOk
    <3>3. QED
      BY <1>3, <1>4, <2>1, <3>1, <3>2 DEF PlannerInv
  <2>3. CASE PlannerNext /\ UNCHANGED fabricVars
    <3>1. SessionShape'
      BY <1>1, <2>3, SessionMoves
    <3>2. \/ UNCHANGED query
          \/ \E t \in Queriers :
               \/ (\E mode \in Modes, ask \in Queries : Ask(t, mode, ask)) \/ AskNext(t)
               \/ PlanOuter(t) \/ PlanInner(t)
               \/ Lookup(t)
               \/ Respond(t)
      BY <2>3 DEF PlannerNext, RefreshRequest, RefreshStatistics
    <3>3. QueryShape' /\ LookupInv'
      BY <1>1, <1>4, <2>1, <2>3, <3>2, NobodyMoves, AskMoves, PlanMoves, LookupMoves, RespondMoves
    <3>4. QED
      BY <1>3, <1>4, <2>1, <3>1, <3>3 DEF PlannerInv
  <2>4. QED
    BY <1>6, <2>2, <2>3 DEF Next
<1>7. QED
  BY <1>5, <1>6

LEMMA PlannerInvariant == Spec => [](FabricInv /\ EntryInv /\ PlannerInv)
<1>1. FabricInv /\ EntryInv /\ PlannerInv /\ [Next]_vars => FabricInv' /\ EntryInv' /\ PlannerInv'
  BY PlannerStep
<1>2. QED
  BY <1>1, PlannerInitially, PTL DEF Spec

\* Both executors, whatever order the statistics gave them and whatever calls of the index
\* manager run between two lookups, return every account that matches the program and all
\* filters and that no call touched while the query ran.
THEOREM QueriesComplete == Spec => []QueryComplete
<1>1. PlannerInv => QueryComplete
  <2> SUFFICES ASSUME PlannerInv, NEW t \in Queriers, Answered(t), NEW a \in steady[t],
                      latest[a] # None, Matches(latest[a], query[t].ask, {})
               PROVE  a \in Answer(t)
    BY DEF QueryComplete
  <2>1. Collects(query[t], steady[t])
    BY DEF PlannerInv, LookupInv, Answered
  <2>2. Members(query[t].todo) = {}
    BY DEF Answered, Members
  <2>3. query[t].found # None /\ a \in query[t].found
    BY <2>1, <2>2 DEF Collects
  <2>4. QED
    BY <2>3 DEF Answer
<1>2. QED
  BY <1>1, PlannerInvariant, PTL

\* What an executor returns of the accounts that no call touched while the query ran and
\* that never changed their content are accounts that exist and match the program and every
\* filter whose key the index knew; unless the program itself was passed over.
THEOREM QueriesSound == Spec => []QuerySound
<1>1. FabricInv /\ EntryInv /\ PlannerInv => QuerySound
  <2> SUFFICES ASSUME EntryInv, PlannerInv, NEW t \in Queriers, Answered(t),
                      NEW a \in Answer(t) \cap steady[t], Cardinality(past[a]) = 1,
                      \A e \in query[t].skipped : e.index # "program"
               PROVE  latest[a] # None /\ Matches(latest[a], query[t].ask, query[t].skipped)
    BY DEF QuerySound
  <2>1. /\ Checked(query[t], steady[t]) /\ query[t].ask \in Queries
        /\ a \in Accounts /\ Members(query[t].todo) = {}
    BY DEF PlannerInv, LookupInv, Answered, QueryShape, QueryOk, SteadySettled, Members
  <2>2. query[t].found # None /\ a \in query[t].found
    BY DEF Answer
  <2>3. \A e \in AskSet(query[t].ask) : e \in query[t].skipped \/ Vouched(a, e)
    BY <2>1, <2>2 DEF Checked
  <2>4. AskSet(query[t].ask) = {Entry("program", query[t].ask.program)} \cup Members(query[t].ask.filters)
    BY <2>1, AskMembers
  <2>5. Vouched(a, Entry("program", query[t].ask.program))
    BY <2>3, <2>4 DEF Entry
  <2>6. latest[a] # None /\ \E c \in past[a] : query[t].ask.program \in KeysOf("program", c)
    BY <2>5 DEF Vouched, Entry
  <2>7. IsFiniteSet(past[a])
    BY <2>1 DEF EntryInv, CallType
  <2>8. PICK c : past[a] = {c}
    BY <2>7, FS_Singleton
  <2>9. latest[a] = c
    BY <2>1, <2>6, <2>8 DEF PlannerInv, ContentInv
  <2>10. latest[a].owner = query[t].ask.program
    <3>1. query[t].ask.program \in KeysOf("program", latest[a])
      BY <2>6, <2>8, <2>9
    <3>2. PICK e \in EntrySet(latest[a]) : e.index = "program" /\ e.key = query[t].ask.program
      BY <3>1, KeysOfEntries
    <3>3. e = Entry("program", latest[a].owner)
      BY <3>2 DEF EntrySet, OneOrNone, Entry
    <3>4. QED
      BY <3>2, <3>3 DEF Entry
  <2>11. ASSUME NEW i \in DOMAIN query[t].ask.filters, query[t].ask.filters[i] \notin query[t].skipped
         PROVE  query[t].ask.filters[i].key \in KeysOf(query[t].ask.filters[i].index, latest[a])
    <3>1. Vouched(a, query[t].ask.filters[i])
      BY <2>3, <2>4, <2>11 DEF Members
    <3>2. QED
      BY <2>8, <2>9, <3>1 DEF Vouched
  <2>12. QED
    BY <2>6, <2>10, <2>11 DEF Matches
<1>2. QED
  BY <1>1, PlannerInvariant, PTL

----------------------------------------------------------------------------
(* Pages. *)

\* The id under which the program's index lists account a.
Id(a) == dict["program"][a]
Known == DOMAIN dict["program"]

\* The accounts of program p that session s can count on.
Promised(t, p) == {a \in steady[t] : latest[a] # None /\ latest[a].owner = p}

\* The page after the cursor, s[lo + 1] .. s[hi]: it begins behind the account the cursor
\* names, or at the start, and ends at the end, unless it is full.
PageSpan(s, n, cursor, page, lo, hi) ==
    /\ lo <= hi
    /\ \/ lo = 0 /\ cursor \notin ToSet(s)
       \/ lo # 0 /\ s[lo] = cursor
    /\ ToSet(page) = {s[i] : i \in (lo + 1) .. hi}
    /\ Len(page) >= PageLimit => hi # 0 /\ page[Len(page)] = s[hi]
    /\ ~(Len(page) >= PageLimit) => hi = n

LEMMA PageBounds ==
  ASSUME NEW S, NEW n \in Nat, NEW s \in [1 .. n -> S], NEW cursor, NEW page,
         page = Paginate(s, cursor)
  PROVE  \E lo, hi \in 0 .. n : PageSpan(s, n, cursor, page, lo, hi)
<1>0. PageLimit \in Nat /\ PageLimit > 0
  BY PlannerAssumption
<1>1. s \in Seq(S) /\ Len(s) = n /\ DOMAIN s = 1 .. n
  OBVIOUS
<1> DEFINE at == {i \in DOMAIN s : s[i] = cursor}
           lo == IF at = {} THEN 0 ELSE CHOOSE i \in at : TRUE
           hi == IF lo + PageLimit < Len(s) THEN lo + PageLimit ELSE Len(s)
<1>2. page = SubSeq(s, lo + 1, hi)
  BY DEF Paginate
<1>3. lo \in 0 .. n /\ (at # {} => lo \in at) /\ (at = {} => lo = 0)
  BY <1>1
<1>4. \/ lo = 0 /\ cursor \notin ToSet(s)
      \/ lo # 0 /\ s[lo] = cursor
  BY <1>1, <1>3 DEF ToSet
<1> HIDE DEF lo
<1>5. /\ hi \in 0 .. n /\ lo <= hi
      /\ hi - lo >= PageLimit => hi # 0
      /\ ~(hi - lo >= PageLimit) => hi = n
  BY <1>0, <1>1, <1>3
<1> HIDE DEF hi
<1>6. /\ Len(page) = hi - lo
      /\ \A i \in 1 .. (hi - lo) : page[i] = s[lo + i]
      /\ page \in Seq(S)
  <2>1. lo + 1 \in Nat /\ hi \in Nat /\ lo \in Nat
    BY <1>3, <1>5
  <2>2. \A i \in (lo + 1) .. hi : s[i] \in S
    BY <1>1, <1>3, <1>5
  <2>3. QED
    BY <1>1, <1>2, <1>3, <1>5, <2>1, <2>2
<1>7. ToSet(page) = {s[i] : i \in (lo + 1) .. hi}
  <2>1. DOMAIN page = 1 .. (hi - lo)
    BY <1>6
  <2>2. ASSUME NEW i \in 1 .. (hi - lo) PROVE \E j \in (lo + 1) .. hi : page[i] = s[j]
    <3>1. lo + i \in (lo + 1) .. hi
      BY <1>3, <1>5, <2>2
    <3>2. QED
      BY <1>6, <2>2, <3>1
  <2>3. ASSUME NEW j \in (lo + 1) .. hi PROVE \E i \in 1 .. (hi - lo) : page[i] = s[j]
    <3>1. j - lo \in 1 .. (hi - lo) /\ lo + (j - lo) = j
      BY <1>3, <1>5, <2>3
    <3>2. QED
      BY <1>6, <3>1
  <2>4. QED
    BY <2>1, <2>2, <2>3 DEF ToSet
<1>8. Len(page) >= PageLimit => hi # 0 /\ page[Len(page)] = s[hi]
  <2> SUFFICES ASSUME Len(page) >= PageLimit PROVE hi # 0 /\ page[Len(page)] = s[hi]
    OBVIOUS
  <2>1. hi - lo \in 1 .. (hi - lo) /\ lo + (hi - lo) = hi
    BY <1>0, <1>3, <1>5, <1>6
  <2>2. QED
    BY <1>5, <1>6, <2>1
<1>9. PageSpan(s, n, cursor, page, lo, hi)
  BY <1>4, <1>5, <1>6, <1>7, <1>8 DEF PageSpan
<1>10. QED
  BY <1>3, <1>5, <1>9

\* Steps of the index manager leave the ids that are handed out.
LEMMA IdsStay ==
  ASSUME FabricInv, [FabricNext]_fabricVars
  PROVE  \A a \in Known : a \in Known' /\ Id(a)' = Id(a)
<1>1. DOMAIN dict = Kinds /\ "program" \in Kinds
  BY DEF FabricInv, Kinds
<1>2. \/ \E k \in Kinds : \E a : dict' = [dict EXCEPT ![k] = Put(@, a, IdFor(k, a))]
      \/ dict' = dict
  <2>1. CASE \E t \in Callers : IndexStep(t)
    <3>1. PICK e, a : AddTo(e.index, a, e.key) \/ RemoveFrom(e.index, a)
      BY <2>1 DEF IndexStep
    <3>2. QED
      BY <3>1 DEF AddTo, AddAccount, AddTokenOwner, AddTokenMint, AddDataSize, AddMemcmp,
                  AddDiscriminator, RemoveFrom, RemoveAccount, RemoveTokenOwner, RemoveTokenMint,
                  RemoveDataSize, indexes, Kinds
  <2>2. CASE ~ \E t \in Callers : IndexStep(t)
    BY <2>2 DEF FabricNext, fabricVars, UpdateAccount, RemoveCall, Start, Return, indexes
  <2>3. QED
    BY <2>1, <2>2
<1>3. CASE dict' = dict
  BY <1>3 DEF Known, Id
<1>4. ASSUME NEW k \in Kinds, NEW a, dict' = [dict EXCEPT ![k] = Put(@, a, IdFor(k, a))]
      PROVE  \A b \in Known : b \in Known' /\ Id(b)' = Id(b)
  <2>1. k # "program" => dict'["program"] = dict["program"]
    BY <1>1, <1>4
  <2>2. CASE k = "program"
    <3>1. dict'["program"] = Put(dict["program"], a, IdFor("program", a))
      BY <1>1, <1>4, <2>2
    <3>2. QED
      BY <3>1 DEF Put, IdFor, Known, Id
  <2>3. QED
    BY <2>1, <2>2 DEF Known, Id
<1>5. QED
  BY <1>2, <1>3, <1>4

\* An account of the program that is settled has an id.
LEMMA PromisedKnown ==
  ASSUME EntryInv, NEW a \in Accounts, Settled(a), latest[a] # None
  PROVE  a \in Known
<1>1. Entry("program", latest[a].owner) \in EntrySet(latest[a])
  BY PlannerAssumption DEF EntrySet, OneOrNone
<1>2. Entry("program", latest[a].owner).key \in ListedUnder(Entry("program", latest[a].owner).index, a)
  BY <1>1 DEF EntryInv, DueInv, Settled
<1>3. latest[a].owner \in ListedUnder("program", a)
  BY <1>2 DEF Entry
<1>4. QED
  BY <1>3 DEF ListedUnder, Known

\* A query without filters makes one lookup, that of the program: it finds accounts that
\* have an id.
PageQuery(x) ==
    /\ x.pc # "lookup" => x.lists = 0
    /\ x.pc = "lookup" /\ x.ask.filters = <<>> =>
         \/ x.lists = 0 /\ Len(x.todo) = 1 /\ x.found = None
         \/ x.lists \in {0, 1} /\ Len(x.todo) = 0 /\ (x.found # None => x.found \subseteq Known)

\* A page in progress is the next one of its session.
OfSession(s, x) == x.pc # "idle" /\ x.mode = "paged" => s.ask = x.ask /\ ~s.last

SessionFields(s) == DOMAIN s = {"ask", "cursor", "seen", "twice", "lost", "last"}

\* What a walk without filters has seen is what has an id up to that of its cursor: nothing
\* else, while its cursor did not go away, and everything it can count on.
Walked(s, P) ==
    /\ s.seen \subseteq Known
    /\ ~s.lost => s.twice = {}
    /\ s.last => P \subseteq s.seen
    /\ ~s.last =>
         \/ s.cursor = None /\ s.seen = {}
         \/ /\ s.cursor \in Known /\ s.cursor # None
            /\ ~s.lost => \A b \in s.seen : Id(b) <= Id(s.cursor)
            /\ \A a \in P : Id(a) <= Id(s.cursor) => a \in s.seen

WalkOk(t) ==
    /\ SessionFields(session[t]) /\ OfSession(session[t], query[t]) /\ PageQuery(query[t])
    /\ Unfiltered(t) => Walked(session[t], Promised(t, session[t].ask.program))

WalkInv == \A t \in Queriers : WalkOk(t)

----------------------------------------------------------------------------
\* A page of a walk: what it shows comes after the cursor and leaves nothing out.
LEMMA PageWalked ==
  ASSUME NEW s, SessionFields(s), ~s.last, NEW A \in SUBSET Accounts, A \subseteq Known,
         NEW P \in SUBSET A, \A a \in Known : Id(a) \in Nat,
         Walked(s, P), NEW results \in InIdOrder(A), NEW r, r = NextPage(s, results)
  PROVE  SessionFields(r) /\ r.ask = s.ask /\ Walked(r, P)
<1>1. PICK n \in Nat : n = Cardinality(A)
  BY FS_Subset, FS_CardinalityType, PlannerAssumption
<1>2. /\ results \in [1 .. n -> A] /\ DOMAIN results = 1 .. n
      /\ \A a \in A : \E i \in 1 .. n : results[i] = a
      /\ \A i, j \in 1 .. n : i < j => Id(results[i]) < Id(results[j])
  BY <1>1 DEF InIdOrder, Bijection, Surjection, Id
<1>3. PICK page : page = Paginate(results, s.cursor)
  OBVIOUS
<1>4. PICK lo \in 0 .. n, hi \in 0 .. n : PageSpan(results, n, s.cursor, page, lo, hi)
  BY <1>2, <1>3, PageBounds
<1>5. /\ lo <= hi
      /\ \/ lo = 0 /\ s.cursor \notin ToSet(results)
         \/ lo # 0 /\ results[lo] = s.cursor
      /\ ToSet(page) = {results[i] : i \in (lo + 1) .. hi}
  BY <1>4 DEF PageSpan
<1>6. /\ SessionFields(r) /\ r.ask = s.ask
      /\ r.cursor = (IF Len(page) >= PageLimit THEN page[Len(page)] ELSE None)
      /\ r.last = ~(Len(page) >= PageLimit)
      /\ r.lost = (s.lost \/ s.cursor \notin ToSet(results) \cup {None})
      /\ r.twice = s.twice \cup (s.seen \cap ToSet(page))
      /\ r.seen = s.seen \cup ToSet(page)
  BY <1>3 DEF NextPage, SessionFields
<1>7. /\ r.seen = s.seen \cup ToSet(page) /\ r.twice = s.twice \cup (s.seen \cap ToSet(page))
      /\ ~r.lost => ~s.lost /\ s.cursor \in ToSet(results) \cup {None}
      /\ Len(page) >= PageLimit => ~r.last /\ hi \in 1 .. n /\ r.cursor = results[hi]
      /\ ~(Len(page) >= PageLimit) => r.last /\ hi = n
  <2>1. /\ ~r.lost => ~s.lost /\ s.cursor \in ToSet(results) \cup {None}
        /\ Len(page) >= PageLimit => ~r.last
        /\ ~(Len(page) >= PageLimit) => r.last
    BY <1>6, Zenon
  <2>2. Len(page) >= PageLimit => hi \in 1 .. n /\ r.cursor = results[hi]
    BY <1>4, <1>6 DEF PageSpan
  <2>3. ~(Len(page) >= PageLimit) => hi = n
    BY <1>4 DEF PageSpan
  <2>4. QED
    BY <1>6, <2>1, <2>2, <2>3
<1>8. \A i \in 1 .. n : results[i] \in A /\ results[i] \in Known /\ results[i] # None
  BY <1>2, PlannerAssumption
<1>9. \A i, j \in 1 .. n : i <= j => Id(results[i]) <= Id(results[j])
  <2> SUFFICES ASSUME NEW i \in 1 .. n, NEW j \in 1 .. n, i <= j
               PROVE  Id(results[i]) <= Id(results[j])
    OBVIOUS
  <2>1. Id(results[i]) \in Nat /\ Id(results[j]) \in Nat
    BY <1>8
  <2>2. QED
    BY <1>2, <2>1
<1>10. ToSet(page) \subseteq A /\ ToSet(page) \subseteq Known
  BY <1>5, <1>8
<1>11. /\ s.seen \subseteq Known
       /\ ~s.lost => s.twice = {}
       /\ \/ s.cursor = None /\ s.seen = {}
          \/ /\ s.cursor \in Known /\ s.cursor # None
             /\ ~s.lost => \A b \in s.seen : Id(b) <= Id(s.cursor)
             /\ \A a \in P : Id(a) <= Id(s.cursor) => a \in s.seen
  BY DEF Walked
<1>12. ASSUME ~r.lost
       PROVE  /\ ~s.lost /\ s.seen \cap ToSet(page) = {}
              /\ s.seen = {} \/ (lo # 0 /\ \A b \in s.seen : Id(b) <= Id(results[lo]))
  <2>1. CASE s.cursor = None
    BY <1>7, <1>11, <1>12, <2>1
  <2>2. CASE s.cursor # None
    <3>1. lo # 0 /\ results[lo] = s.cursor
      BY <1>5, <1>7, <1>12, <2>2
    <3>2. \A b \in s.seen : Id(b) <= Id(results[lo]) /\ Id(b) \in Nat
      BY <1>7, <1>11, <1>12, <2>2, <3>1
    <3>3. ASSUME NEW i \in (lo + 1) .. hi PROVE results[i] \notin s.seen
      <4>1. lo \in 1 .. n /\ i \in 1 .. n /\ lo < i
        BY <3>1, <3>3
      <4>2. Id(results[lo]) < Id(results[i]) /\ Id(results[lo]) \in Nat /\ Id(results[i]) \in Nat
        BY <1>2, <1>8, <4>1
      <4>3. QED
        BY <3>2, <4>2
    <3>4. QED
      BY <1>5, <1>7, <1>12, <3>1, <3>2, <3>3
  <2>3. QED
    BY <2>1, <2>2
<1>13. ASSUME NEW a \in P, NEW k \in 1 .. n, a = results[k], k <= hi
       PROVE  a \in r.seen
  <2>1. CASE k > lo
    BY <1>5, <1>7, <1>13, <2>1
  <2>2. CASE k <= lo
    <3>1. lo \in 1 .. n /\ results[lo] = s.cursor
      BY <1>5, <1>13, <2>2
    <3>2. Id(a) <= Id(s.cursor)
      BY <1>9, <1>13, <2>2, <3>1
    <3>3. s.cursor # None
      BY <1>8, <3>1
    <3>4. QED
      BY <1>7, <1>11, <3>2, <3>3
  <2>3. QED
    BY <2>1, <2>2
<1>14. CASE ~(Len(page) >= PageLimit)
  <2>1. r.last /\ hi = n
    BY <1>7, <1>14
  <2>2. P \subseteq r.seen
    <3> SUFFICES ASSUME NEW a \in P PROVE a \in r.seen
      OBVIOUS
    <3>1. PICK k \in 1 .. n : results[k] = a
      BY <1>2
    <3>2. QED
      BY <1>13, <2>1, <3>1
  <2>3. r.seen \subseteq Known /\ (~r.lost => r.twice = {})
    BY <1>7, <1>10, <1>11, <1>12
  <2>4. QED
    BY <1>6, <2>1, <2>2, <2>3 DEF Walked
<1>15. CASE Len(page) >= PageLimit
  <2>1. ~r.last /\ hi \in 1 .. n /\ r.cursor = results[hi]
    BY <1>7, <1>15
  <2>2. r.cursor \in Known /\ r.cursor # None
    BY <1>8, <2>1
  <2>3. r.seen \subseteq Known /\ (~r.lost => r.twice = {})
    BY <1>7, <1>10, <1>11, <1>12
  <2>4. ASSUME ~r.lost, NEW b \in r.seen PROVE Id(b) <= Id(r.cursor)
    <3>1. CASE b \in ToSet(page)
      <4>1. PICK i \in (lo + 1) .. hi : b = results[i]
        BY <1>5, <3>1
      <4>2. i \in 1 .. n /\ i <= hi
        BY <4>1
      <4>3. QED
        BY <1>9, <2>1, <4>1, <4>2
    <3>2. CASE b \in s.seen
      <4>1. lo \in 1 .. n /\ Id(b) <= Id(results[lo])
        BY <1>12, <2>4, <3>2
      <4>2. Id(results[lo]) <= Id(results[hi]) /\ Id(results[lo]) \in Nat /\ Id(results[hi]) \in Nat
        BY <1>5, <1>8, <1>9, <2>1, <4>1
      <4>3. Id(b) \in Nat
        BY <1>11, <3>2
      <4>4. QED
        BY <2>1, <4>1, <4>2, <4>3
    <3>3. QED
      BY <1>7, <2>4, <3>1, <3>2
  <2>5. ASSUME NEW a \in P, Id(a) <= Id(r.cursor) PROVE a \in r.seen
    <3>1. PICK k \in 1 .. n : results[k] = a
      BY <1>2
    <3>2. k <= hi
      <4> SUFFICES ASSUME hi < k PROVE FALSE
        BY <2>1
      <4>1. Id(results[hi]) < Id(results[k])
        BY <1>2, <2>1
      <4>2. Id(results[hi]) \in Nat /\ Id(results[k]) \in Nat
        BY <1>8, <2>1
      <4>3. QED
        BY <2>1, <2>5, <3>1, <4>1, <4>2
    <3>3. QED
      BY <1>13, <3>1, <3>2
  <2>6. QED
    BY <1>6, <2>1, <2>2, <2>3, <2>4, <2>5 DEF Walked
<1>16. QED
  BY <1>6, <1>14, <1>15

----------------------------------------------------------------------------
(* The query behind a page. *)

LEMMA SortedLength ==
  ASSUME NEW S, NEW es \in Seq(S), NEW rank, NEW r \in SortedBy(es, rank)
  PROVE  Len(r) = Len(es)
<1>1. PICK p : r = [i \in DOMAIN es |-> es[p[i]]]
  BY DEF SortedBy
<1>2. DOMAIN es = 1 .. Len(es) /\ Len(es) \in Nat
  OBVIOUS
<1>3. DOMAIN r = 1 .. Len(es)
  BY <1>1, <1>2
<1>4. r \in Seq(S)
  BY SortedMembers
<1>5. DOMAIN r = 1 .. Len(r) /\ Len(r) \in Nat
  BY <1>4
<1>6. QED
  BY <1>2, <1>3, <1>5

\* A finished plan of a query without filters leaves one lookup.
LEMMA PlanPage ==
  ASSUME NEW y, IsQuery(y), y.ask \in Queries, y.found = None, y.lists = 0,
         NEW x \in PlanDone(y)
  PROVE  PageQuery(x) /\ x.ask = y.ask
<1>1. CASE y.plans > 1
  <2>1. x = [y EXCEPT !.pc = "plan", !.plans = @ - 1]
    BY <1>1 DEF PlanDone
  <2>2. x.pc = "plan" /\ x.lists = 0 /\ x.ask = y.ask
    BY <2>1 DEF IsQuery
  <2>3. QED
    BY <2>2 DEF PageQuery
<1>2. CASE ~(y.plans > 1)
  <2>1. PICK r \in ExecutionOrder(y.ask) \cup PlainOrder(y.ask) :
            x = [y EXCEPT !.pc = "lookup", !.plans = 0, !.todo = r]
    BY <1>2 DEF PlanDone, Execute
  <2>2. /\ x.pc = "lookup" /\ x.lists = 0 /\ x.ask = y.ask /\ x.found = None
        /\ x.todo = r
    BY <2>1 DEF IsQuery
  <2>3. Lookups(y.ask) \in Seq(AskSet(y.ask))
    BY AskMembers
  <2>4. PICK rank : r \in SortedBy(Lookups(y.ask), rank)
    BY DEF ExecutionOrder, PlainOrder
  <2>5. Len(r) = Len(Lookups(y.ask))
    BY <2>3, <2>4, SortedLength
  <2>6. y.ask.filters = <<>> => Len(Lookups(y.ask)) = 1
    <3>1. \A e : Len(<<e>> \o <<>>) = 1
      OBVIOUS
    <3>2. QED
      BY <3>1 DEF Lookups
  <2>7. QED
    BY <2>2, <2>5, <2>6 DEF PageQuery
<1>3. QED
  BY <1>1, <1>2

\* What the lookup finds has an id.
LEMMA LookupPage ==
  ASSUME NEW x, IsQuery(x), x.ask \in Queries, x.pc = "lookup", x.todo # <<>>,
         Members(x.todo) \subseteq AskSet(x.ask), PageQuery(x)
  PROVE  LET y == Looked(x, Head(x.todo)) IN PageQuery(y) /\ y.ask = x.ask
<1> SUFFICES ASSUME NEW e, e = Head(x.todo), NEW y, y = Looked(x, e)
             PROVE  PageQuery(y) /\ y.ask = x.ask
  OBVIOUS
<1>1. PICK n : n = [x EXCEPT !.todo = Tail(@)]
  OBVIOUS
<1>2. /\ DOMAIN n = DOMAIN x /\ n.todo = Tail(x.todo) /\ n.found = x.found
      /\ n.ask = x.ask /\ n.pc = "lookup" /\ n.lists = x.lists
  BY <1>1 DEF IsQuery
<1>3. y = IF AccountsUnder(e) # None
            THEN [n EXCEPT !.lists = @ + 1,
                           !.found = IF @ = None THEN AccountsUnder(e) ELSE @ \cap AccountsUnder(e)]
          ELSE IF e.index = "program" /\ x.mode # "optimized"
            THEN [n EXCEPT !.todo = <<>>, !.found = {}]
          ELSE [n EXCEPT !.skipped = @ \cup {e}]
  BY <1>1 DEF Looked
<1>4. y.ask = x.ask /\ y.pc = "lookup"
  BY <1>2, <1>3 DEF IsQuery
<1>5. CASE x.ask.filters # <<>>
  BY <1>4, <1>5 DEF PageQuery
<1>6. CASE x.ask.filters = <<>>
  <2>1. x.lists = 0 /\ Len(x.todo) = 1 /\ x.found = None
    BY <1>6 DEF PageQuery
  <2>2. x.todo \in Seq(Lookable)
    BY DEF IsQuery
  <2>3. Len(Tail(x.todo)) = 0 /\ Len(<<>>) = 0 /\ e \in Members(x.todo)
    <3>1. \A q \in Seq(Lookable) : Len(q) = 1 => Len(Tail(q)) = 0
      OBVIOUS
    <3>2. e \in Members(x.todo)
      BY <2>2, HeadTailMembers
    <3>3. QED
      BY <2>1, <2>2, <3>1, <3>2
  <2>4. Members(x.ask.filters) = {}
    BY <1>6 DEF Members
  <2>5. e = Entry("program", x.ask.program)
    BY <2>3, <2>4, AskMembers
  <2>6. AccountsUnder(e) = GetAccounts("program", e.key)
    BY <2>5 DEF AccountsUnder, Entry
  <2>7. AccountsUnder(e) # None => AccountsUnder(e) \subseteq Known
    BY <2>6 DEF GetAccounts, Known
  <2>8. CASE AccountsUnder(e) # None
    <3>1. PICK F : F = AccountsUnder(e)
      OBVIOUS
    <3>2. PICK k : k = n.lists + 1
      OBVIOUS
    <3>3. y = [n EXCEPT !.lists = k, !.found = F]
      BY <1>2, <1>3, <2>1, <2>8, <3>1, <3>2 DEF IsQuery
    <3>4. y.lists = k /\ y.todo = Tail(x.todo) /\ y.found = F
      BY <1>2, <3>3 DEF IsQuery
    <3>5. k = 1
      BY <1>2, <2>1, <3>2
    <3>6. QED
      BY <1>4, <2>3, <2>7, <2>8, <3>1, <3>4, <3>5 DEF PageQuery
  <2>9. CASE AccountsUnder(e) = None /\ e.index = "program" /\ x.mode # "optimized"
    <3>1. y = [n EXCEPT !.todo = <<>>, !.found = {}]
      BY <1>3, <2>9
    <3>2. y.lists = 0 /\ y.todo = <<>> /\ y.found = {}
      BY <1>2, <2>1, <3>1 DEF IsQuery
    <3>3. QED
      BY <1>4, <2>3, <3>2 DEF PageQuery
  <2>10. CASE AccountsUnder(e) = None /\ ~(e.index = "program" /\ x.mode # "optimized")
    <3>1. y = [n EXCEPT !.skipped = @ \cup {e}]
      BY <1>3, <2>10
    <3>2. y.lists = 0 /\ y.todo = Tail(x.todo) /\ y.found = None
      BY <1>2, <2>1, <3>1 DEF IsQuery
    <3>3. QED
      BY <1>4, <2>3, <3>2 DEF PageQuery
  <2>11. QED
    BY <2>8, <2>9, <2>10
<1>7. QED
  BY <1>5, <1>6

\* A query in progress keeps its question, and that of a page stays one.
LEMMA QueryPage ==
  ASSUME QueryShape, LookupInv, UNCHANGED fabricVars, NEW t \in Queriers, PageQuery(query[t]),
         PlanOuter(t) \/ PlanInner(t) \/ Lookup(t)
  PROVE  PageQuery(query[t])' /\ query'[t].ask = query[t].ask
<1>1. DOMAIN query = Queriers /\ IsQuery(query[t]) /\ QueryOk(query[t])
  BY DEF QueryShape, QueryOk
<1>2. Known' = Known
  BY DEF fabricVars, Known
<1>3. ASSUME NEW x, query' = [query EXCEPT ![t] = x], PageQuery(x), x.ask = query[t].ask
      PROVE  PageQuery(query[t])' /\ query'[t].ask = query[t].ask
  <2>1. query'[t] = x
    BY <1>1, <1>3
  <2>2. QED
    BY <1>2, <1>3, <2>1 DEF PageQuery
<1>4. CASE PlanOuter(t) \/ PlanInner(t)
  <2>1. /\ query[t].pc \in {"plan", "estimate"} /\ query[t].ask \in Queries
        /\ query[t].found = None /\ query[t].lists = 0
    BY <1>1, <1>4 DEF PlanOuter, PlanInner, QueryOk, PageQuery
  <2>2. ASSUME NEW x, query' = [query EXCEPT ![t] = x], DOMAIN x = DOMAIN query[t],
               x.pc = "estimate", x.lists = 0, x.ask = query[t].ask
        PROVE  PageQuery(query[t])' /\ query'[t].ask = query[t].ask
    BY <1>3, <2>2 DEF PageQuery
  <2>3. CASE \E x \in PlanDone(query[t]) : query' = [query EXCEPT ![t] = x]
    BY <1>1, <1>3, <2>1, <2>3, PlanPage
  <2>4. CASE PlanOuter(t) /\ ~ \E x \in PlanDone(query[t]) : query' = [query EXCEPT ![t] = x]
    <3>1. PICK n, x : /\ x = [query[t] EXCEPT !.pc = "estimate", !.estimates = n]
                      /\ query' = [query EXCEPT ![t] = x]
      BY <2>4 DEF PlanOuter
    <3>2. DOMAIN x = DOMAIN query[t] /\ x.pc = "estimate" /\ x.lists = 0 /\ x.ask = query[t].ask
      BY <1>1, <2>1, <3>1 DEF IsQuery
    <3>3. QED
      BY <2>2, <3>1, <3>2
  <2>5. CASE PlanInner(t) /\ query[t].estimates = 1
    <3>1. PICK y, x : /\ y = [query[t] EXCEPT !.estimates = 0]
                      /\ x \in PlanDone(y) /\ query' = [query EXCEPT ![t] = x]
      BY <2>5 DEF PlanInner
    <3>2. /\ DOMAIN y = DOMAIN query[t] /\ y.ask = query[t].ask /\ y.lists = query[t].lists
          /\ y.todo = query[t].todo /\ y.found = query[t].found /\ y.skipped = query[t].skipped
      BY <1>1, <3>1 DEF IsQuery
    <3>3. IsQuery(y)
      BY <1>1, <3>2 DEF IsQuery
    <3>4. QED
      BY <1>3, <2>1, <3>1, <3>2, <3>3, PlanPage
  <2>6. CASE PlanInner(t) /\ query[t].estimates # 1
    <3>1. PICK x : /\ x = [query[t] EXCEPT !.estimates = @ - 1]
                   /\ query' = [query EXCEPT ![t] = x]
      BY <2>6 DEF PlanInner
    <3>2. query[t].pc = "estimate"
      BY <2>6 DEF PlanInner
    <3>3. DOMAIN x = DOMAIN query[t] /\ x.pc = "estimate" /\ x.lists = 0 /\ x.ask = query[t].ask
      BY <1>1, <2>1, <3>1, <3>2 DEF IsQuery
    <3>4. QED
      BY <2>2, <3>1, <3>3
  <2>7. QED
    BY <1>4, <2>3, <2>4, <2>5, <2>6
<1>5. CASE Lookup(t)
  <2>1. /\ query[t].pc = "lookup" /\ query[t].todo # <<>> /\ query[t].ask \in Queries
        /\ Members(query[t].todo) \subseteq AskSet(query[t].ask)
    BY <1>1, <1>5 DEF Lookup, QueryOk, LookupInv, Collects
  <2>2. PICK x : x = Looked(query[t], Head(query[t].todo))
    OBVIOUS
  <2>3. PageQuery(x) /\ x.ask = query[t].ask
    BY <1>1, <2>1, <2>2, LookupPage
  <2>4. QED
    BY <1>3, <1>5, <2>2, <2>3 DEF Lookup
<1>6. QED
  BY <1>4, <1>5

----------------------------------------------------------------------------
(* The walks. *)

LEMMA WalkedStays ==
  ASSUME NEW s, NEW P, NEW Q \in SUBSET P, P \subseteq Known, Walked(s, P),
         \A a \in Known : a \in Known' /\ Id(a)' = Id(a)
  PROVE  Walked(s, Q)'
<1>1. s.seen \subseteq Known' /\ (~s.lost => s.twice = {})
  BY DEF Walked
<1>2. s.last => Q \subseteq s.seen
  BY DEF Walked
<1>3. ~s.last =>
        \/ s.cursor = None /\ s.seen = {}
        \/ /\ s.cursor \in Known' /\ s.cursor # None
           /\ ~s.lost => \A b \in s.seen : Id(b)' <= Id(s.cursor)'
           /\ \A a \in Q : Id(a)' <= Id(s.cursor)' => a \in s.seen
  <2> SUFFICES ASSUME ~s.last, s.cursor \in Known, s.cursor # None,
                      ~s.lost => \A b \in s.seen : Id(b) <= Id(s.cursor),
                      \A a \in P : Id(a) <= Id(s.cursor) => a \in s.seen
               PROVE  /\ ~s.lost => \A b \in s.seen : Id(b)' <= Id(s.cursor)'
                      /\ \A a \in Q : Id(a)' <= Id(s.cursor)' => a \in s.seen
    BY DEF Walked
  <2>1. Id(s.cursor)' = Id(s.cursor) /\ \A b \in s.seen : Id(b)' = Id(b)
    BY DEF Walked
  <2>2. \A a \in Q : a \in P /\ Id(a)' = Id(a)
    OBVIOUS
  <2>3. QED
    BY <2>1, <2>2
<1>4. QED
  BY <1>1, <1>2, <1>3 DEF Walked

\* What a session can count on dwindles while its query or another thread moves.
LEMMA WalkKept ==
  ASSUME EntryInv, SteadySettled, Untouched,
         \A a \in Known : a \in Known' /\ Id(a)' = Id(a),
         NEW t \in Queriers, WalkOk(t), session'[t] = session[t],
         steady'[t] \subseteq {a \in steady[t] : Settled(a)'},
         PageQuery(query[t])', OfSession(session[t], query[t])'
  PROVE  WalkOk(t)'
<1>1. SessionFields(session[t])'
  BY DEF WalkOk, SessionFields
<1>2. ASSUME Unfiltered(t)' PROVE Walked(session[t], Promised(t, session[t].ask.program))'
  <2>1. PICK s, p : s = session[t] /\ p = session[t].ask.program
    OBVIOUS
  <2>2. Unfiltered(t) /\ Walked(s, Promised(t, p))
    BY <1>2, <2>1 DEF WalkOk, Unfiltered
  <2>3. Promised(t, p)' \subseteq Promised(t, p)
    BY DEF Promised, SteadySettled, Untouched
  <2>4. Promised(t, p) \subseteq Known
    BY PromisedKnown DEF Promised, SteadySettled
  <2>5. PICK P, Q : P = Promised(t, p) /\ Q = Promised(t, p)'
    OBVIOUS
  <2>6. Walked(s, Q)'
    BY <2>2, <2>3, <2>4, <2>5, WalkedStays
  <2>7. QED
    BY <2>1, <2>5, <2>6 DEF Walked
<1>3. QED
  BY <1>1, <1>2 DEF WalkOk

\* A client that starts to walk has seen nothing.
LEMMA WalkStarts ==
  ASSUME NEW t \in Queriers, QueryShape, SessionShape, WalkOk(t),
         NEW mode \in Modes, NEW ask \in Queries, Ask(t, mode, ask)
  PROVE  WalkOk(t)'
<1>1. DOMAIN query = Queriers /\ DOMAIN session = Queriers /\ IsQuery(query[t])
  BY DEF QueryShape, QueryOk, SessionShape
<1>2. PICK x, s : /\ x = [query[t] EXCEPT !.pc = "plan", !.mode = mode, !.ask = ask,
                                          !.plans = IF mode = "optimized" THEN 2 ELSE 1]
                  /\ s = IF mode = "paged" THEN [NoSession EXCEPT !.ask = ask, !.last = FALSE]
                                           ELSE NoSession
  OBVIOUS
<1>3. query'[t] = x /\ session'[t] = s
  BY <1>1, <1>2 DEF Ask
<1>4. query[t].lists = 0
  BY NoQueryOk DEF Ask, WalkOk, PageQuery
<1>5. x.pc = "plan" /\ x.mode = mode /\ x.ask = ask /\ x.lists = 0
  BY <1>1, <1>2, <1>4 DEF IsQuery
<1>6. SessionFields(NoSession) /\ NoSession.ask = None
  BY DEF NoSession, SessionFields
<1>7. mode = "paged" => /\ SessionFields(s) /\ s.ask = ask /\ s.cursor = None /\ s.seen = {}
                        /\ s.twice = {} /\ ~s.last
  BY <1>2 DEF NoSession, SessionFields
<1>8. mode # "paged" => s = NoSession
  BY <1>2
<1>9. SessionFields(session[t])' /\ OfSession(session[t], query[t])' /\ PageQuery(query[t])'
  BY <1>3, <1>5, <1>6, <1>7, <1>8 DEF OfSession, PageQuery, SessionFields
<1>10. Unfiltered(t)' => mode = "paged"
  BY <1>3, <1>6, <1>8 DEF Unfiltered
<1>11. mode = "paged" => Walked(session[t], Promised(t, session[t].ask.program))'
  BY <1>3, <1>7 DEF Walked
<1>12. QED
  BY <1>9, <1>10, <1>11 DEF WalkOk

\* The answer of a walk's query is of accounts with ids and has all it can count on.
LEMMA WalkAnswers ==
  ASSUME QueryShape, LookupInv, SteadySettled, NEW t \in Queriers, WalkOk(t), Answered(t),
         query[t].ask.filters = <<>>
  PROVE  /\ query[t].lists <= 1 /\ Answer(t) \in SUBSET Accounts /\ Answer(t) \subseteq Known
         /\ Promised(t, query[t].ask.program) \in SUBSET Answer(t)
<1>1. /\ query[t].pc = "lookup" /\ query[t].todo = <<>> /\ IsQuery(query[t])
      /\ PageQuery(query[t])
  BY DEF Answered, QueryShape, QueryOk, WalkOk
<1>2. query[t].lists \in {0, 1} /\ (query[t].found # None => query[t].found \subseteq Known)
  <2>1. Len(query[t].todo) = 0
    BY <1>1
  <2>2. QED
    BY <1>1, <2>1 DEF PageQuery
<1>3. Answer(t) \in SUBSET Accounts /\ Answer(t) \subseteq Known
  BY <1>1, <1>2 DEF Answer, IsQuery
<1>4. ASSUME NEW a \in Promised(t, query[t].ask.program) PROVE a \in Answer(t)
  <2>1. a \in steady[t] /\ latest[a] # None /\ Matches(latest[a], query[t].ask, {})
    BY DEF Promised, Matches
  <2>2. Collects(query[t], steady[t]) /\ Members(query[t].todo) = {}
    BY <1>1 DEF LookupInv, Members
  <2>3. query[t].found # None /\ a \in query[t].found
    BY <2>1, <2>2 DEF Collects
  <2>4. QED
    BY <2>3 DEF Answer
<1>5. QED
  BY <1>2, <1>3, <1>4

LEMMA WalkResponds ==
  ASSUME FabricInv, EntryInv, QueryShape, SessionShape, LookupInv, SteadySettled, Untouched, Observe,
         UNCHANGED fabricVars, NEW t \in Queriers, WalkOk(t), Respond(t)
  PROVE  WalkOk(t)'
<1>1. /\ DOMAIN query = Queriers /\ DOMAIN session = Queriers /\ Answered(t)
      /\ query[t].pc # "idle" /\ query'[t] = NoQuery
  BY DEF QueryShape, SessionShape, Respond, Answered
<1>2. steady'[t] \subseteq {a \in steady[t] : Settled(a)'}
  BY <1>1, ObserveKeeps
<1>3. PageQuery(query[t])' /\ OfSession(session[t], query[t])'
  <2>1. NoQuery.pc = "idle" /\ NoQuery.lists = 0
    BY DEF NoQuery
  <2>2. QED
    BY <1>1, <2>1 DEF PageQuery, OfSession
<1>4. \A a \in Known : a \in Known' /\ Id(a)' = Id(a)
  BY DEF fabricVars, Known, Id
<1>5. CASE session' = session
  BY <1>2, <1>3, <1>4, <1>5, WalkKept
<1>6. CASE query[t].mode = "paged"
  <2>1. session[t].ask = query[t].ask /\ ~session[t].last /\ SessionFields(session[t])
    BY <1>1, <1>6 DEF WalkOk, OfSession
  <2>2. PICK results \in Listing(t) : session'[t] = NextPage(session[t], results)
    BY <1>1, <1>6 DEF Respond
  <2>3. PICK s, r : s = session[t] /\ r = NextPage(s, results)
    OBVIOUS
  <2>4. SessionFields(r) /\ r.ask = s.ask
    BY <2>1, <2>3 DEF NextPage, SessionFields
  <2>5. ASSUME Unfiltered(t)' PROVE Walked(session[t], Promised(t, session[t].ask.program))'
    <3>1. Unfiltered(t)
      BY <2>2, <2>3, <2>4, <2>5 DEF Unfiltered
    <3>2. PICK p, P, Q : p = s.ask.program /\ P = Promised(t, p) /\ Q = Promised(t, p)'
      OBVIOUS
    <3>3. Walked(s, P)
      BY <2>3, <3>1, <3>2 DEF WalkOk
    <3>4. query[t].lists <= 1 /\ Answer(t) \in SUBSET Accounts /\ Answer(t) \subseteq Known
          /\ P \in SUBSET Answer(t)
      BY <1>1, <2>1, <2>3, <3>1, <3>2, WalkAnswers DEF Unfiltered
    <3>5. results \in InIdOrder(Answer(t))
      BY <2>2, <3>4 DEF Listing
    <3>6. \A a \in Known : Id(a) \in Nat
      BY DEF FabricInv, Known, Id, Kinds
    <3>7. Walked(r, P)
      BY <2>1, <2>3, <3>3, <3>4, <3>5, <3>6, PageWalked
    <3>8. Q \in SUBSET P
      BY <1>2, <3>2 DEF Promised, SteadySettled, Untouched
    <3>9. Walked(r, Q)'
      BY <1>4, <3>4, <3>7, <3>8, WalkedStays
    <3>10. session'[t] = r /\ r.ask.program = p
      BY <2>2, <2>3, <2>4, <3>2
    <3>11. Walked(session[t], Q)'
      BY <3>9, <3>10 DEF Walked
    <3>12. QED
      BY <3>2, <3>10, <3>11
  <2>6. SessionFields(session[t])'
    BY <2>2, <2>3, <2>4 DEF SessionFields
  <2>7. QED
    BY <1>3, <2>5, <2>6 DEF WalkOk
<1>7. QED
  BY <1>5, <1>6 DEF Respond

\* A walk nobody moves, or whose query does a step of its own.
LEMMA WalkWaits ==
  ASSUME EntryInv, SteadySettled, Untouched, \A a \in Known : a \in Known' /\ Id(a)' = Id(a),
         NEW t \in Queriers, WalkOk(t), session'[t] = session[t], query'[t] = query[t],
         steady'[t] \subseteq {a \in steady[t] : Settled(a)'}
  PROVE  WalkOk(t)'
<1>1. Known \subseteq Known'
  OBVIOUS
<1>2. PageQuery(query[t])' /\ OfSession(session[t], query[t])'
  BY <1>1 DEF WalkOk, PageQuery, OfSession
<1>3. QED
  BY <1>2, WalkKept

LEMMA WalkStep ==
  ASSUME FabricInv, EntryInv, PlannerInv, WalkInv, [Next]_vars
  PROVE  WalkInv'
<1>1. QueryShape /\ SessionShape /\ ContentInv /\ SteadySettled /\ LookupInv
  BY DEF PlannerInv
<1>2. [FabricNext]_fabricVars
  BY DEF Next, vars
<1>3. Untouched /\ \A a \in Known : a \in Known' /\ Id(a)' = Id(a)
  BY <1>1, <1>2, FabricMoves, IdsStay
<1>4. \A t \in Queriers : WalkOk(t)
  BY DEF WalkInv
<1>5. ASSUME NEW t \in Queriers, session'[t] = session[t], query'[t] = query[t]
      PROVE  WalkOk(t)'
  <2>1. CASE Next
    <3>1. steady'[t] \subseteq {a \in steady[t] : Settled(a)'}
      BY <1>1, <1>5, <2>1, ObserveKeeps DEF Next
    <3>2. QED
      BY <1>1, <1>3, <1>4, <1>5, <3>1, WalkWaits
  <2>2. CASE UNCHANGED vars
    <3>1. steady' = steady /\ \A a : Settled(a)' = Settled(a)
      BY <2>2 DEF vars, plannerVars, fabricVars, Settled, Working
    <3>2. steady'[t] \subseteq {a \in steady[t] : Settled(a)'}
      BY <1>1, <3>1 DEF SteadySettled
    <3>3. QED
      BY <1>1, <1>3, <1>4, <1>5, <3>2, WalkWaits
  <2>3. QED
    BY <2>1, <2>2
<1>6. CASE UNCHANGED <<query, session>>
  BY <1>5, <1>6 DEF WalkInv
<1>7. ASSUME NEW t \in Queriers, WalkOk(t)',
             \A u \in Queriers : u # t => session'[u] = session[u] /\ query'[u] = query[u]
      PROVE  WalkInv'
  BY <1>5, <1>7 DEF WalkInv
<1>8. CASE PlannerNext /\ UNCHANGED fabricVars /\ Observe
  <2>1. DOMAIN query = Queriers /\ DOMAIN session = Queriers
    BY <1>1 DEF QueryShape, SessionShape
  <2>2. ASSUME NEW t \in Queriers, NEW mode \in Modes, NEW ask \in Queries, Ask(t, mode, ask)
        PROVE  WalkInv'
    <3>1. \A u \in Queriers : u # t => session'[u] = session[u] /\ query'[u] = query[u]
      BY <2>1, <2>2 DEF Ask
    <3>2. WalkOk(t)'
      BY <1>1, <1>4, <2>2, WalkStarts
    <3>3. QED
      BY <1>7, <3>1, <3>2
  <2>3. ASSUME NEW t \in Queriers, AskNext(t)
        PROVE  WalkInv'
    <3>1. /\ query[t] = NoQuery /\ ~session[t].last /\ session' = session
          /\ query' = [query EXCEPT ![t] = [@ EXCEPT !.pc = "plan", !.mode = "paged",
                                                    !.ask = session[t].ask, !.plans = 1]]
      BY <2>3 DEF AskNext
    <3>2. IsQuery(query[t]) /\ PageQuery(query[t])
      BY <1>1, <1>4 DEF QueryShape, QueryOk, WalkOk
    <3>3. query[t].lists = 0
      BY <3>1, <3>2, NoQueryOk DEF PageQuery
    <3>4. /\ query'[t].pc = "plan" /\ query'[t].ask = session[t].ask /\ query'[t].lists = 0
      BY <2>1, <3>1, <3>2, <3>3 DEF IsQuery
    <3>5. PageQuery(query[t])' /\ OfSession(session[t], query[t])'
      BY <3>1, <3>4 DEF PageQuery, OfSession
    <3>6. steady'[t] \subseteq {a \in steady[t] : Settled(a)'}
      BY <1>8, <3>1 DEF Observe
    <3>7. WalkOk(t)'
      BY <1>1, <1>3, <1>4, <3>1, <3>5, <3>6, WalkKept
    <3>8. QED
      BY <1>7, <2>1, <3>1, <3>7
  <2>4. ASSUME NEW t \in Queriers, PlanOuter(t) \/ PlanInner(t) \/ Lookup(t)
        PROVE  WalkInv'
    <3>1. /\ query[t].pc # "idle" /\ query'[t].mode = query[t].mode
          /\ \A u \in Queriers : u # t => query'[u] = query[u]
          /\ session' = session
      BY <1>1, <2>4, ModeKept
    <3>2. PageQuery(query[t])' /\ query'[t].ask = query[t].ask
      BY <1>1, <1>4, <1>8, <2>4, QueryPage DEF WalkOk
    <3>3. OfSession(session[t], query[t])'
      BY <1>4, <3>1, <3>2 DEF WalkOk, OfSession
    <3>4. steady'[t] \subseteq {a \in steady[t] : Settled(a)'}
      BY <1>1, <1>8, <3>1, ObserveKeeps
    <3>5. WalkOk(t)'
      BY <1>1, <1>3, <1>4, <3>1, <3>2, <3>3, <3>4, WalkKept
    <3>6. QED
      BY <1>7, <3>1, <3>5
  <2>5. ASSUME NEW t \in Queriers, Respond(t)
        PROVE  WalkInv'
    <3>1. \A u \in Queriers : u # t => session'[u] = session[u] /\ query'[u] = query[u]
      BY <2>1, <2>5 DEF Respond
    <3>2. WalkOk(t)'
      BY <1>1, <1>3, <1>4, <1>8, <2>5, WalkResponds
    <3>3. QED
      BY <1>7, <3>1, <3>2
  <2>6. \/ UNCHANGED <<query, session>>
        \/ \E t \in Queriers :
             \/ \E mode \in Modes, ask \in Queries : Ask(t, mode, ask)
             \/ AskNext(t)
             \/ PlanOuter(t) \/ PlanInner(t) \/ Lookup(t)
             \/ Respond(t)
    BY <1>8 DEF PlannerNext, RefreshRequest, RefreshStatistics
  <2>7. QED
    BY <1>6, <2>2, <2>3, <2>4, <2>5, <2>6
<1>9. UNCHANGED <<query, session>> \/ (PlannerNext /\ UNCHANGED fabricVars /\ Observe)
  BY DEF Next, vars, plannerVars
<1>10. QED
  BY <1>6, <1>8, <1>9

LEMMA WalkInitially == Init => WalkInv
<1> SUFFICES ASSUME Init, NEW t \in Queriers PROVE WalkOk(t)
  BY DEF WalkInv
<1>1. query[t] = NoQuery /\ session[t] = NoSession
  BY DEF Init
<1>2. NoQuery.pc = "idle" /\ NoQuery.lists = 0 /\ NoSession.ask = None /\ SessionFields(NoSession)
  BY DEF NoQuery, NoSession, SessionFields
<1>3. QED
  BY <1>1, <1>2 DEF WalkOk, OfSession, PageQuery, Unfiltered

\* A client that follows the cursors through the pages of a program, whatever accounts come
\* and go between the pages, sees none twice unless its cursor's account goes away, and has
\* seen after the last page every account that no call touched since the first.
THEOREM WalksExact == Spec => []PagesExact
<1>1. WalkInv => PagesExact
  BY DEF WalkInv, WalkOk, Walked, Promised, PagesExact
<1>2. FabricInv /\ EntryInv /\ PlannerInv /\ WalkInv /\ [Next]_vars => WalkInv'
  BY WalkStep
<1>3. QED
  BY <1>1, <1>2, WalkInitially, PlannerInvariant, PTL DEF Spec

=============================================================================
