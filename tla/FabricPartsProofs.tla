-------------------------- MODULE FabricPartsProofs --------------------------
(* The parts of the index fabric that share no state, each for any threads   *)
(* and any bounds: the tiers of a program, the tiered dictionary, the        *)
(* adaptive index, the regions of shared memory, the cache of query results, *)
(* the memcmp accelerator and the memory of NUMA nodes.                      *)
EXTENDS HotColdIndex, TieredDictionary, AdaptiveIndex, SharedMemory, QueryResultCache,
        MemcmpAccelerator, NumaFabric, FiniteSetTheorems, TLAPS

----------------------------------------------------------------------------
(* HotColdIndex: an insertion that has returned is in the index the manager *)
(* hands out, since one caller at a time creates it.                        *)

Metadata == [last_access_slot : Nat, tier : {"Hot"}]
MetadataMaps == UNION {[S -> Metadata] : S \in SUBSET TierIds}
TieredRecord == [Hot : SUBSET TierIds, Warm : SUBSET TierIds, Cold : SUBSET TierIds,
                 metadata : MetadataMaps, slot : Nat, moving : SUBSET TierIds,
                 compaction : {"none", "started", "drained"}, lossy : BOOLEAN]
\* A compaction holds ids outside the bitmap only once it has drained the deltas.
Tiered == {x \in TieredRecord : x.moving # {} => x.compaction = "drained"}

IndexJob == [op : IndexCalls,
             pc : {"find", "create", "register", "slot", "hot", "compact", "metadata"},
             program : Programs, account : TierIds, index : Nat, slot : Nat]
LockJob == [op : {"update_slot"}, pc : {"lock"}, slot : Nat]
WalkJob == [op : {"update_slot"}, pc : {"walk"}, slot : Nat, todo : SUBSET Nat]
HotColdJob == {NoJob} \cup IndexJob \cup LockJob \cup WalkJob

HotColdShape ==
    /\ job \in [Workers -> HotColdJob]
    /\ tiered \in Seq(Tiered)
    /\ DOMAIN program_indexes \subseteq Programs
    /\ \A p \in DOMAIN program_indexes : program_indexes[p] \in 1 .. Len(tiered)
    /\ current_slot \in Nat /\ done \in [Programs -> SUBSET TierIds]

\* What a call knows: an index there is, the registered one unless the program was created
\* twice, and, before an insertion writes its metadata, that the account is in the tier.
Knows(t) ==
    /\ job[t].op \in IndexCalls /\ job[t].pc \in {"register", "slot", "hot", "compact", "metadata"} =>
          job[t].index \in 1 .. Len(tiered)
    /\ job[t].op \in IndexCalls /\ job[t].pc \in {"slot", "hot", "compact", "metadata"}
         /\ job[t].program \notin twice =>
          /\ job[t].program \in DOMAIN program_indexes
          /\ job[t].index = program_indexes[job[t].program]
    /\ job[t].op = "update_slot" /\ job[t].pc = "walk" => job[t].todo \subseteq 1 .. Len(tiered)
    /\ job[t].op = "insert_account" /\ job[t].pc \in {"compact", "metadata"} =>
          tiered[job[t].index].lossy \/ job[t].account \in tiered[job[t].index].Hot

HotColdWork == \A t \in Workers : Knows(t)

\* The one caller that creates the index of a program finds no other registered.
OneCreator ==
    \A p \in Programs \ twice :
        /\ \A t, u \in Creating(p) : t = u
        /\ Creating(p) # {} => p \notin DOMAIN program_indexes

DoneIsHot ==
    \A p \in Programs \ twice : \A a \in done[p] :
        /\ p \in DOMAIN program_indexes
        /\ tiered[program_indexes[p]].lossy \/ a \in tiered[program_indexes[p]].Hot
        /\ a \in DOMAIN tiered[program_indexes[p]].metadata

HotColdInv == HotColdShape /\ HotColdWork /\ OneCreator /\ DoneIsHot

\* No step takes an account out of the metadata, or out of a bitmap without overlapping
\* insertions.
TiersGrow ==
    /\ Len(tiered') \in Nat /\ Len(tiered) =< Len(tiered')
    /\ \A i \in 1 .. Len(tiered) : /\ tiered[i].lossy => tiered'[i].lossy
                                   /\ tiered'[i].lossy \/ tiered[i].Hot \subseteq tiered'[i].Hot
                                   /\ DOMAIN tiered[i].metadata \subseteq DOMAIN tiered'[i].metadata

LEMMA PutMetadata ==
  ASSUME NEW m \in MetadataMaps, NEW a \in TierIds, NEW x \in Metadata
  PROVE  /\ Put(m, a, x) \in MetadataMaps
         /\ DOMAIN Put(m, a, x) = DOMAIN m \cup {a}
<1>1. PICK S \in SUBSET TierIds : m \in [S -> Metadata]
  BY DEF MetadataMaps
<1>2. Put(m, a, x) \in [S \cup {a} -> Metadata]
  BY <1>1 DEF Put
<1>3. S \cup {a} \in SUBSET TierIds
  BY <1>1
<1>4. QED
  BY <1>1, <1>2, <1>3 DEF MetadataMaps, Put

\* An access finds the account hot: the tier is computed from the slot just stored.
LEMMA AccessIsHot ==
  ASSUME NEW m \in Metadata, NEW s \in Nat
  PROVE  accessed(m, s) \in Metadata
<1> DEFINE n == [m EXCEPT !.last_access_slot = s]
<1>1. n \in Metadata /\ n.last_access_slot = s
  BY DEF Metadata
<1> HIDE DEF n
<1>2. calculate_tier(n, s) = "Hot"
  BY <1>1, HotColdAssumption DEF calculate_tier
<1>3. [n EXCEPT !.tier = calculate_tier(n, s)] \in Metadata
  BY <1>1, <1>2 DEF Metadata
<1>4. QED
  BY <1>3 DEF accessed, n

\* Programs that two callers do not create keep their index.
IndexesStay ==
    /\ twice \subseteq twice'
    /\ \A p \in DOMAIN program_indexes : p \notin twice' =>
          p \in DOMAIN program_indexes' /\ program_indexes'[p] = program_indexes[p]

\* A step of one thread that takes nothing out of the tiers: what the others know stays.
LEMMA HotColdKeeps ==
  ASSUME HotColdInv, NEW t, HotColdShape', TiersGrow, IndexesStay,
         t \in Workers => Knows(t)', OneCreator', \A u \in Workers : u # t => job'[u] = job[u],
         \A p \in Programs \ twice' : \A a \in done'[p] :
            \/ a \in done[p]
            \/ /\ p \in DOMAIN program_indexes'
               /\ tiered'[program_indexes'[p]].lossy \/ a \in tiered'[program_indexes'[p]].Hot
               /\ a \in DOMAIN tiered'[program_indexes'[p]].metadata
  PROVE  HotColdInv'
<1>1. Len(tiered) \in Nat
  BY DEF HotColdInv, HotColdShape
<1>2. ASSUME NEW u \in Workers
      PROVE  Knows(u)'
  <2>1. CASE u = t
    BY <2>1
  <2>2. CASE u # t
    <3>1. job'[u] = job[u] /\ job[u] \in HotColdJob /\ Knows(u)
      BY <2>2 DEF HotColdInv, HotColdShape, HotColdWork
    <3>2. job[u].op \in IndexCalls /\ job[u].pc \in {"register", "slot", "hot", "compact", "metadata"} =>
             job[u].index \in 1 .. Len(tiered')
      BY <1>1, <3>1 DEF Knows, TiersGrow
    <3>3. job[u].op \in IndexCalls /\ job[u].pc \in {"slot", "hot", "compact", "metadata"}
            /\ job[u].program \notin twice' =>
             /\ job[u].program \in DOMAIN program_indexes'
             /\ job[u].index = program_indexes'[job[u].program]
      BY <3>1 DEF Knows, IndexesStay
    <3>4. job[u].op = "update_slot" /\ job[u].pc = "walk" => job[u].todo \subseteq 1 .. Len(tiered')
      BY <1>1, <3>1 DEF Knows, TiersGrow
    <3>5. job[u].op = "insert_account" /\ job[u].pc \in {"compact", "metadata"} =>
             tiered'[job[u].index].lossy \/ job[u].account \in tiered'[job[u].index].Hot
      BY <1>1, <3>1 DEF Knows, TiersGrow, IndexCalls
    <3>6. QED
      BY <3>1, <3>2, <3>3, <3>4, <3>5 DEF Knows
  <2>3. QED
    BY <2>1, <2>2
<1>3. ASSUME NEW p \in Programs \ twice', NEW a \in done'[p]
      PROVE  /\ p \in DOMAIN program_indexes'
             /\ tiered'[program_indexes'[p]].lossy \/ a \in tiered'[program_indexes'[p]].Hot
             /\ a \in DOMAIN tiered'[program_indexes'[p]].metadata
  <2>1. CASE a \in done[p]
    <3>1. p \notin twice /\ p \in DOMAIN program_indexes
      BY <2>1 DEF HotColdInv, DoneIsHot, IndexesStay
    <3>2. program_indexes[p] \in 1 .. Len(tiered)
      BY <3>1 DEF HotColdInv, HotColdShape
    <3>3. QED
      BY <2>1, <3>1, <3>2 DEF HotColdInv, DoneIsHot, IndexesStay, TiersGrow
  <2>2. QED
    BY <2>1
<1>4. HotColdWork' /\ DoneIsHot'
  BY <1>2, <1>3 DEF HotColdWork, DoneIsHot
<1>5. QED
  BY <1>4 DEF HotColdInv

LEMMA CreatorKept ==
  ASSUME HotColdInv, twice' = twice, DOMAIN program_indexes' = DOMAIN program_indexes,
         \A p \in Programs : Creating(p)' \subseteq Creating(p)
  PROVE  OneCreator'
BY DEF HotColdInv, OneCreator

LEMMA SameTiers ==
  ASSUME HotColdInv, tiered' = tiered
  PROVE  TiersGrow
BY DEF HotColdInv, HotColdShape, TiersGrow

\* A change of one index that takes nothing out of it.
LEMMA OneTiered ==
  ASSUME HotColdInv, NEW i \in 1 .. Len(tiered), NEW x \in Tiered,
         tiered[i].lossy => x.lossy, x.lossy \/ tiered[i].Hot \subseteq x.Hot, DOMAIN tiered[i].metadata \subseteq DOMAIN x.metadata,
         tiered' = [tiered EXCEPT ![i] = x]
  PROVE  TiersGrow /\ tiered' \in Seq(Tiered) /\ Len(tiered') = Len(tiered) /\ tiered'[i] = x
<1>1. tiered \in Seq(Tiered) /\ Len(tiered) \in Nat
  BY DEF HotColdInv, HotColdShape
<1>2. tiered' \in Seq(Tiered) /\ Len(tiered') = Len(tiered) /\ tiered'[i] = x
      /\ \A j \in 1 .. Len(tiered) : j # i => tiered'[j] = tiered[j]
  BY <1>1
<1>3. QED
  BY <1>1, <1>2 DEF TiersGrow

\* A new call does nothing yet.
LEMMA IndexCallKeeps ==
  ASSUME HotColdInv, NEW t \in Workers, NEW op \in IndexCalls, NEW p \in Programs,
         NEW a \in TierIds, IndexCall(t, op, p, a)
  PROVE  HotColdInv'
<1> DEFINE j == [op |-> op, pc |-> "find", program |-> p, account |-> a, index |-> 0, slot |-> 0]
<1>1. /\ job' = [job EXCEPT ![t] = j]
      /\ UNCHANGED hotColdState
  BY DEF IndexCall, Begin
<1>2. j \in IndexJob /\ j.pc = "find" /\ j.op \in IndexCalls
  BY DEF IndexJob
<1> HIDE DEF j
<1>3. job'[t] = j /\ \A u \in Workers : u # t => job'[u] = job[u]
  BY <1>1 DEF HotColdInv, HotColdShape
<1>4. job' \in [Workers -> HotColdJob]
  BY <1>1, <1>2 DEF HotColdInv, HotColdShape, HotColdJob
<1>5. HotColdShape'
  BY <1>1, <1>4 DEF HotColdInv, HotColdShape, hotColdState
<1>6. Knows(t)'
  BY <1>2, <1>3 DEF Knows, IndexCalls
<1>7. OneCreator'
  <2>1. \A q \in Programs : Creating(q)' \subseteq Creating(q)
    BY <1>2, <1>3 DEF Creating
  <2>2. QED
    BY <1>1, <2>1, CreatorKept DEF hotColdState
<1>8. TiersGrow /\ IndexesStay /\ done' = done
  BY <1>1, SameTiers DEF hotColdState, IndexesStay
<1>9. QED
  BY <1>3, <1>5, <1>6, <1>7, <1>8, HotColdKeeps

LEMMA UpdateSlotKeeps ==
  ASSUME HotColdInv, NEW t \in Workers, NEW s \in NewSlots, UpdateSlot(t, s)
  PROVE  HotColdInv'
<1> DEFINE j == [op |-> "update_slot", pc |-> "lock", slot |-> s]
<1>1. /\ job' = [job EXCEPT ![t] = j] /\ current_slot' = s
      /\ UNCHANGED <<tiered, program_indexes, done, twice>>
  BY DEF UpdateSlot, Begin
<1>2. j \in LockJob /\ j.pc = "lock" /\ j.op = "update_slot" /\ s \in Nat
  BY HotColdAssumption DEF LockJob
<1> HIDE DEF j
<1>3. job'[t] = j /\ \A u \in Workers : u # t => job'[u] = job[u]
  BY <1>1 DEF HotColdInv, HotColdShape
<1>4. job' \in [Workers -> HotColdJob]
  BY <1>1, <1>2 DEF HotColdInv, HotColdShape, HotColdJob
<1>5. HotColdShape'
  BY <1>1, <1>2, <1>4 DEF HotColdInv, HotColdShape
<1>6. Knows(t)'
  BY <1>2, <1>3 DEF Knows, IndexCalls
<1>7. OneCreator'
  <2>1. \A q \in Programs : Creating(q)' \subseteq Creating(q)
    BY <1>2, <1>3 DEF Creating, IndexCalls
  <2>2. QED
    BY <1>1, <2>1, CreatorKept
<1>8. TiersGrow /\ IndexesStay /\ done' = done
  BY <1>1, SameTiers DEF IndexesStay
<1>9. QED
  BY <1>3, <1>5, <1>6, <1>7, <1>8, HotColdKeeps

LEMMA FindIndexKeeps ==
  ASSUME HotColdInv, NEW t \in Workers, FindIndex(t)
  PROVE  HotColdInv'
<1> SUFFICES ASSUME NEW p, p = job[t].program
             PROVE  HotColdInv'
  OBVIOUS
<1>1. /\ job[t].op \in IndexCalls /\ job[t].pc = "find"
      /\ UNCHANGED <<tiered, program_indexes, current_slot, done>>
  BY DEF FindIndex
<1>2. job \in [Workers -> HotColdJob] /\ job[t] \in IndexJob /\ p \in Programs
  BY <1>1 DEF HotColdInv, HotColdShape, HotColdJob, IndexJob, IndexCalls, NoJob, LockJob, WalkJob
<1>3. TiersGrow
  BY <1>1, SameTiers
<1>4. CASE p \in DOMAIN program_indexes
  <2> DEFINE j == [job[t] EXCEPT !.index = program_indexes[p], !.pc = FirstStep(job[t].op)]
  <2>1. job' = [job EXCEPT ![t].index = program_indexes[p], ![t].pc = FirstStep(job[t].op)]
        /\ twice' = twice
    BY <1>4 DEF FindIndex
  <2>2. job'[t] = j /\ \A u \in Workers : u # t => job'[u] = job[u]
    BY <1>2, <2>1
  <2>3. program_indexes[p] \in 1 .. Len(tiered) /\ program_indexes[p] \in Nat
    BY <1>4 DEF HotColdInv, HotColdShape
  <2>4. FirstStep(job[t].op) \in {"slot", "hot"}
    BY DEF FirstStep
  <2>5. /\ j \in IndexJob /\ j.op = job[t].op /\ j.program = p
        /\ j.pc \in {"slot", "hot"} /\ j.index = program_indexes[p]
    BY <1>2, <2>3, <2>4 DEF IndexJob
  <2> HIDE DEF j
  <2>6. job' \in [Workers -> HotColdJob]
    BY <1>2, <2>1, <2>2, <2>5 DEF HotColdJob
  <2>7. HotColdShape'
    BY <1>1, <2>6 DEF HotColdInv, HotColdShape
  <2>8. Knows(t)'
    BY <1>1, <1>4, <2>2, <2>3, <2>5 DEF Knows, IndexCalls
  <2>9. OneCreator'
    <3>1. \A q \in Programs : Creating(q)' \subseteq Creating(q)
      BY <2>2, <2>5 DEF Creating
    <3>2. QED
      BY <1>1, <2>1, <3>1, CreatorKept
  <2>10. IndexesStay
    BY <1>1, <2>1 DEF IndexesStay
  <2>11. QED
    BY <1>1, <1>3, <2>2, <2>7, <2>8, <2>9, <2>10, HotColdKeeps
<1>5. CASE p \notin DOMAIN program_indexes
  <2> DEFINE j == [job[t] EXCEPT !.pc = "create"]
  <2>1. job' = [job EXCEPT ![t].pc = "create"]
        /\ twice' = IF Creating(p) # {} THEN twice \cup {p} ELSE twice
    BY <1>5 DEF FindIndex
  <2>2. job'[t] = j /\ \A u \in Workers : u # t => job'[u] = job[u]
    BY <1>2, <2>1
  <2>3. j \in IndexJob /\ j.op = job[t].op /\ j.program = p /\ j.pc = "create"
    BY <1>2 DEF IndexJob
  <2> HIDE DEF j
  <2>4. job' \in [Workers -> HotColdJob]
    BY <1>2, <2>1, <2>2, <2>3 DEF HotColdJob
  <2>5. HotColdShape'
    BY <1>1, <2>4 DEF HotColdInv, HotColdShape
  <2>6. Knows(t)'
    BY <1>1, <2>2, <2>3 DEF Knows, IndexCalls
  <2>7. OneCreator'
    <3>1. ASSUME NEW q \in Programs \ twice'
          PROVE  /\ \A u, v \in Creating(q)' : u = v
                 /\ Creating(q)' # {} => q \notin DOMAIN program_indexes'
      <4>1. CASE q = p
        <5>1. Creating(p) = {} /\ p \notin twice
          BY <2>1, <3>1, <4>1
        <5>2. Creating(p)' \subseteq {t}
          BY <2>2, <5>1 DEF Creating
        <5>3. QED
          BY <1>1, <1>5, <4>1, <5>2
      <4>2. CASE q # p
        <5>1. Creating(q)' \subseteq Creating(q) /\ q \notin twice
          BY <2>1, <2>2, <2>3, <3>1, <4>2 DEF Creating
        <5>2. QED
          BY <1>1, <5>1 DEF HotColdInv, OneCreator
      <4>3. QED
        BY <4>1, <4>2
    <3>2. QED
      BY <3>1 DEF OneCreator
  <2>8. IndexesStay
    BY <1>1, <2>1 DEF IndexesStay
  <2>9. QED
    BY <1>1, <1>3, <2>2, <2>5, <2>6, <2>7, <2>8, HotColdKeeps
<1>6. QED
  BY <1>4, <1>5

LEMMA CreateIndexKeeps ==
  ASSUME HotColdInv, NEW t \in Workers, CreateIndex(t)
  PROVE  HotColdInv'
<1> DEFINE j == [job[t] EXCEPT !.index = Len(tiered) + 1, !.pc = "register"]
<1>1. /\ job[t].op \in IndexCalls /\ job[t].pc = "create"
      /\ tiered' = Append(tiered, TieredIndex(current_slot))
      /\ job' = [job EXCEPT ![t].index = Len(tiered'), ![t].pc = "register"]
      /\ UNCHANGED <<program_indexes, current_slot, done, twice>>
  BY DEF CreateIndex
<1>2. /\ job \in [Workers -> HotColdJob] /\ job[t] \in IndexJob
      /\ tiered \in Seq(Tiered) /\ Len(tiered) \in Nat /\ current_slot \in Nat
  BY <1>1 DEF HotColdInv, HotColdShape, HotColdJob, IndexJob, IndexCalls, NoJob, LockJob, WalkJob
<1>3. TieredIndex(current_slot) \in Tiered
  <2>1. EmptyMap \in MetadataMaps
    <3>1. EmptyMap \in [{} -> Metadata]
      BY DEF EmptyMap
    <3>2. QED
      BY <3>1 DEF MetadataMaps
  <2>2. QED
    BY <1>2, <2>1 DEF TieredIndex, Tiered, TieredRecord
<1>4. /\ tiered' \in Seq(Tiered) /\ Len(tiered') = Len(tiered) + 1
      /\ \A i \in 1 .. Len(tiered) : tiered'[i] = tiered[i]
  BY <1>1, <1>2, <1>3
<1>5. TiersGrow
  BY <1>2, <1>4 DEF TiersGrow
<1>6. job'[t] = j /\ \A u \in Workers : u # t => job'[u] = job[u]
  BY <1>1, <1>2, <1>4
<1>7. /\ j \in IndexJob /\ j.op = job[t].op /\ j.program = job[t].program
      /\ j.pc = "register" /\ j.index = Len(tiered) + 1
  <2>1. job[t] \in IndexJob /\ Len(tiered) + 1 \in Nat
    BY <1>2
  <2>2. QED
    BY <2>1 DEF IndexJob
<1> HIDE DEF j
<1>8. job' \in [Workers -> HotColdJob]
  BY <1>1, <1>2, <1>6, <1>7 DEF HotColdJob
<1>9. HotColdShape'
  BY <1>1, <1>2, <1>4, <1>8 DEF HotColdInv, HotColdShape
<1>10. Knows(t)'
  BY <1>1, <1>2, <1>4, <1>6, <1>7 DEF Knows, IndexCalls
<1>11. OneCreator'
  <2>1. \A q \in Programs : Creating(q)' \subseteq Creating(q)
    BY <1>1, <1>6, <1>7 DEF Creating
  <2>2. QED
    BY <1>1, <2>1, CreatorKept
<1>12. IndexesStay
  BY <1>1 DEF IndexesStay
<1>13. QED
  BY <1>1, <1>5, <1>6, <1>9, <1>10, <1>11, <1>12, HotColdKeeps

\* The one creator registers the index it works on; nothing was done in another.
LEMMA RegisterIndexKeeps ==
  ASSUME HotColdInv, NEW t \in Workers, RegisterIndex(t)
  PROVE  HotColdInv'
<1> SUFFICES ASSUME NEW p, p = job[t].program
             PROVE  HotColdInv'
  OBVIOUS
<1> DEFINE j == [job[t] EXCEPT !.pc = FirstStep(job[t].op)]
<1>1. /\ job[t].op \in IndexCalls /\ job[t].pc = "register"
      /\ program_indexes' = Put(program_indexes, p, job[t].index)
      /\ job' = [job EXCEPT ![t].pc = FirstStep(job[t].op)]
      /\ UNCHANGED <<tiered, current_slot, done, twice>>
  BY DEF RegisterIndex, Goto
<1>2. /\ job \in [Workers -> HotColdJob] /\ job[t] \in IndexJob /\ p \in Programs
  BY <1>1 DEF HotColdInv, HotColdShape, HotColdJob, IndexJob, IndexCalls, NoJob, LockJob, WalkJob
<1>3. job[t].index \in 1 .. Len(tiered)
  BY <1>1 DEF HotColdInv, HotColdWork, Knows
<1>4. /\ DOMAIN program_indexes' = DOMAIN program_indexes \cup {p}
      /\ program_indexes'[p] = job[t].index
      /\ \A q \in DOMAIN program_indexes : q # p => program_indexes'[q] = program_indexes[q]
  BY <1>1 DEF Put
<1>5. job'[t] = j /\ \A u \in Workers : u # t => job'[u] = job[u]
  BY <1>1, <1>2
<1>6. FirstStep(job[t].op) \in {"slot", "hot"}
  BY DEF FirstStep
<1>7. /\ j \in IndexJob /\ j.op = job[t].op /\ j.program = p
      /\ j.pc \in {"slot", "hot"} /\ j.index = job[t].index
  BY <1>2, <1>6 DEF IndexJob
<1> HIDE DEF j
<1>8. job' \in [Workers -> HotColdJob]
  BY <1>1, <1>2, <1>5, <1>7 DEF HotColdJob
<1>9. HotColdShape'
  BY <1>1, <1>2, <1>3, <1>4, <1>8 DEF HotColdInv, HotColdShape
<1>10. Knows(t)'
  BY <1>1, <1>3, <1>4, <1>5, <1>7 DEF Knows, IndexCalls
<1>11. t \in Creating(p)
  BY <1>1 DEF Creating
<1>12. OneCreator'
  <2>1. ASSUME NEW q \in Programs \ twice'
        PROVE  /\ \A u, v \in Creating(q)' : u = v
               /\ Creating(q)' # {} => q \notin DOMAIN program_indexes'
    <3>1. Creating(q)' \subseteq Creating(q) \ {t} /\ q \notin twice
      BY <1>1, <1>5, <1>7, <2>1 DEF Creating
    <3>2. CASE q = p
      <4>1. Creating(q)' = {}
        BY <1>2, <1>11, <3>1, <3>2 DEF HotColdInv, OneCreator
      <4>2. QED
        BY <4>1
    <3>3. CASE q # p
      BY <1>4, <3>1, <3>3 DEF HotColdInv, OneCreator
    <3>4. QED
      BY <3>2, <3>3
  <2>2. QED
    BY <2>1 DEF OneCreator
<1>13. IndexesStay
  <2>1. p \notin twice => p \notin DOMAIN program_indexes
    BY <1>2, <1>11 DEF HotColdInv, OneCreator
  <2>2. QED
    BY <1>1, <1>4, <2>1 DEF IndexesStay
<1>14. TiersGrow
  BY <1>1, SameTiers
<1>15. QED
  BY <1>1, <1>5, <1>9, <1>10, <1>12, <1>13, <1>14, HotColdKeeps

LEMMA ReadSlotKeeps ==
  ASSUME HotColdInv, NEW t \in Workers, ReadSlot(t)
  PROVE  HotColdInv'
<1> SUFFICES ASSUME NEW i, i = job[t].index, NEW s, s = tiered[i].slot,
                    NEW next, next = IF job[t].op = "access_account" THEN "metadata" ELSE "hot"
             PROVE  HotColdInv'
  OBVIOUS
<1> DEFINE j == [job[t] EXCEPT !.slot = s, !.pc = next]
<1>1. /\ job[t].op \in IndexCalls /\ job[t].pc = "slot"
      /\ job' = [job EXCEPT ![t].slot = s, ![t].pc = next]
      /\ UNCHANGED hotColdState
  BY DEF ReadSlot
<1>2. /\ job \in [Workers -> HotColdJob] /\ job[t] \in IndexJob
      /\ i \in 1 .. Len(tiered) /\ tiered \in Seq(Tiered)
  BY <1>1 DEF HotColdInv, HotColdShape, HotColdWork, Knows, HotColdJob, IndexJob, IndexCalls,
              NoJob, LockJob, WalkJob
<1>3. s \in Nat
  <2>1. tiered[i] \in Tiered
    BY <1>2
  <2>2. QED
    BY <2>1 DEF Tiered, TieredRecord
<1>4. job'[t] = j /\ \A u \in Workers : u # t => job'[u] = job[u]
  BY <1>1, <1>2
<1>5. j \in IndexJob /\ j.op = job[t].op /\ j.program = job[t].program /\ j.index = i /\ j.pc = next
  <2>1. job[t] \in IndexJob
    BY <1>2
  <2>2. QED
    BY <1>3, <2>1 DEF IndexJob
<1> HIDE DEF j
<1>6. job' \in [Workers -> HotColdJob]
  BY <1>1, <1>2, <1>4, <1>5 DEF HotColdJob
<1>7. HotColdShape'
  BY <1>1, <1>6 DEF HotColdInv, HotColdShape, hotColdState
<1>8. Knows(t)'
  BY <1>1, <1>4, <1>5 DEF HotColdInv, HotColdWork, Knows, IndexCalls, hotColdState
<1>9. OneCreator'
  <2>1. \A q \in Programs : Creating(q)' \subseteq Creating(q)
    BY <1>4, <1>5 DEF Creating
  <2>2. QED
    BY <1>1, <2>1, CreatorKept DEF hotColdState
<1>10. TiersGrow /\ IndexesStay /\ done' = done
  BY <1>1, SameTiers DEF hotColdState, IndexesStay
<1>11. QED
  BY <1>4, <1>7, <1>8, <1>9, <1>10, HotColdKeeps

LEMMA InsertHotKeeps ==
  ASSUME HotColdInv, NEW t \in Workers, InsertHot(t)
  PROVE  HotColdInv'
<1> SUFFICES ASSUME NEW i, i = job[t].index, NEW a, a = job[t].account,
                    NEW b, b = (tiered[i].lossy \/ Compacting(i) # {}),
                    NEW x, x = [tiered[i] EXCEPT !.Hot = @ \cup {a}, !.moving = @ \ {a},
                                                 !.lossy = b]
             PROVE  HotColdInv'
  OBVIOUS
<1> DEFINE j == [job[t] EXCEPT !.pc = "compact"]
<1>1. /\ job[t].op \in IndexCalls /\ job[t].pc = "hot"
      /\ tiered' = [tiered EXCEPT ![i].Hot = @ \cup {a}, ![i].moving = @ \ {a},
                                  ![i].lossy = @ \/ Compacting(i) # {}]
      /\ job' = [job EXCEPT ![t].pc = "compact"]
      /\ UNCHANGED <<program_indexes, current_slot, done, twice>>
  BY DEF InsertHot, Goto
<1>2. /\ job \in [Workers -> HotColdJob] /\ job[t] \in IndexJob /\ a \in TierIds
      /\ i \in 1 .. Len(tiered) /\ tiered \in Seq(Tiered)
  BY <1>1 DEF HotColdInv, HotColdShape, HotColdWork, Knows, HotColdJob, IndexJob, IndexCalls,
              NoJob, LockJob, WalkJob
<1>3. tiered[i] \in Tiered /\ b \in BOOLEAN
  BY <1>2
<1>4. /\ x \in Tiered /\ tiered[i].Hot \subseteq x.Hot /\ a \in x.Hot
      /\ x.metadata = tiered[i].metadata /\ (tiered[i].lossy => x.lossy)
  <2>1. /\ tiered[i] \in TieredRecord
        /\ tiered[i].moving # {} => tiered[i].compaction = "drained"
    BY <1>3 DEF Tiered
  <2>2. /\ x \in TieredRecord /\ x.Hot = tiered[i].Hot \cup {a} /\ x.lossy = b
        /\ x.metadata = tiered[i].metadata /\ x.moving = tiered[i].moving \ {a}
        /\ x.compaction = tiered[i].compaction
    BY <1>2, <1>3, <2>1 DEF TieredRecord
  <2>3. x \in Tiered
    BY <2>1, <2>2 DEF Tiered
  <2>4. tiered[i].lossy => x.lossy
    BY <2>2, Zenon
  <2>5. QED
    BY <2>2, <2>3, <2>4
<1>5. tiered' = [tiered EXCEPT ![i] = x]
  BY <1>1, <1>2
<1>6. TiersGrow /\ tiered' \in Seq(Tiered) /\ Len(tiered') = Len(tiered) /\ tiered'[i] = x
  BY <1>2, <1>4, <1>5, OneTiered
<1>7. job'[t] = j /\ \A u \in Workers : u # t => job'[u] = job[u]
  BY <1>1, <1>2
<1>8. /\ j \in IndexJob /\ j.op = job[t].op /\ j.program = job[t].program
      /\ j.pc = "compact" /\ j.index = i /\ j.account = a
  <2>1. job[t] \in IndexJob
    BY <1>2
  <2>2. QED
    BY <2>1 DEF IndexJob
<1> HIDE DEF j
<1>9. job' \in [Workers -> HotColdJob]
  BY <1>1, <1>2, <1>7, <1>8 DEF HotColdJob
<1>10. HotColdShape'
  BY <1>1, <1>6, <1>9 DEF HotColdInv, HotColdShape
<1>11. Knows(t)'
  BY <1>1, <1>2, <1>4, <1>6, <1>7, <1>8 DEF HotColdInv, HotColdWork, Knows, IndexCalls
<1>12. OneCreator'
  <2>1. \A q \in Programs : Creating(q)' \subseteq Creating(q)
    BY <1>7, <1>8 DEF Creating
  <2>2. QED
    BY <1>1, <2>1, CreatorKept
<1>13. IndexesStay
  BY <1>1 DEF IndexesStay
<1>14. QED
  BY <1>1, <1>6, <1>7, <1>10, <1>11, <1>12, <1>13, HotColdKeeps

\* Starting a compaction changes neither the ids nor the metadata.
LEMMA AfterInsertKeeps ==
  ASSUME HotColdInv, NEW t \in Workers, AfterInsert(t)
  PROVE  HotColdInv'
<1> SUFFICES ASSUME NEW i, i = job[t].index,
                    NEW x, x = [tiered[i] EXCEPT !.compaction = "started"]
             PROVE  HotColdInv'
  OBVIOUS
<1>1. /\ job[t].op \in IndexCalls /\ job[t].pc = "compact"
      /\ \/ UNCHANGED tiered
         \/ /\ tiered[i].compaction = "none"
            /\ tiered' = [tiered EXCEPT ![i].compaction = "started"]
      /\ UNCHANGED <<program_indexes, current_slot, done, twice>>
  BY DEF AfterInsert
<1>2. /\ job \in [Workers -> HotColdJob] /\ job[t] \in IndexJob
      /\ i \in 1 .. Len(tiered) /\ tiered \in Seq(Tiered)
  BY <1>1 DEF HotColdInv, HotColdShape, HotColdWork, Knows, HotColdJob, IndexJob, IndexCalls,
              NoJob, LockJob, WalkJob
<1>3. tiered[i] \in Tiered
  BY <1>2
<1>4. /\ TiersGrow /\ tiered' \in Seq(Tiered) /\ Len(tiered') = Len(tiered)
      /\ tiered'[i].Hot = tiered[i].Hot /\ tiered'[i].lossy = tiered[i].lossy
  <2>1. CASE UNCHANGED tiered
    BY <1>2, <2>1, SameTiers
  <2>2. CASE /\ tiered[i].compaction = "none"
             /\ tiered' = [tiered EXCEPT ![i].compaction = "started"]
    <3>1. /\ x \in Tiered /\ x.Hot = tiered[i].Hot /\ x.metadata = tiered[i].metadata
          /\ x.lossy = tiered[i].lossy
      BY <1>3, <2>2 DEF Tiered, TieredRecord
    <3>2. tiered' = [tiered EXCEPT ![i] = x]
      BY <1>2, <2>2
    <3>3. (tiered[i].lossy => x.lossy) /\ (x.lossy \/ tiered[i].Hot \subseteq x.Hot)
      BY <3>1
    <3>4. TiersGrow /\ tiered' \in Seq(Tiered) /\ Len(tiered') = Len(tiered) /\ tiered'[i] = x
      BY <1>2, <3>1, <3>2, <3>3, OneTiered
    <3>5. QED
      BY <3>1, <3>4
  <2>3. QED
    BY <1>1, <2>1, <2>2
<1>5. \/ /\ job' = [job EXCEPT ![t] = NoJob]
         /\ job[t].op = "promote_to_hot"
      \/ /\ job' = [job EXCEPT ![t].pc = "metadata"]
         /\ job[t].op # "promote_to_hot"
  BY DEF AfterInsert, Finish, Goto
<1>6. \A u \in Workers : u # t => job'[u] = job[u]
  BY <1>2, <1>5
<1>7. \/ job'[t] = NoJob
      \/ /\ job'[t] \in IndexJob /\ job'[t].op = job[t].op /\ job'[t].program = job[t].program
         /\ job'[t].pc = "metadata" /\ job'[t].index = i /\ job'[t].account = job[t].account
  <2>1. CASE job' = [job EXCEPT ![t] = NoJob]
    BY <1>2, <2>1
  <2>2. CASE job' = [job EXCEPT ![t].pc = "metadata"]
    <3>1. job'[t] = [job[t] EXCEPT !.pc = "metadata"]
      BY <1>2, <2>2
    <3>2. job[t] \in IndexJob
      BY <1>2
    <3>3. QED
      BY <3>1, <3>2 DEF IndexJob
  <2>3. QED
    BY <1>5, <2>1, <2>2
<1>8. job' \in [Workers -> HotColdJob]
  BY <1>2, <1>5, <1>7 DEF HotColdJob
<1>9. HotColdShape'
  BY <1>1, <1>4, <1>8 DEF HotColdInv, HotColdShape
<1>10. NoJob.op = "idle" /\ NoJob.pc = "start"
  BY DEF NoJob
<1>11. Knows(t)'
  <2>1. CASE job'[t] = NoJob
    BY <1>10, <2>1 DEF Knows, IndexCalls
  <2>2. CASE job'[t] # NoJob
    BY <1>1, <1>2, <1>4, <1>7, <2>2 DEF HotColdInv, HotColdWork, Knows, IndexCalls
  <2>3. QED
    BY <2>1, <2>2
<1>12. OneCreator'
  <2>1. \A q \in Programs : Creating(q)' \subseteq Creating(q)
    BY <1>6, <1>7, <1>10 DEF Creating
  <2>2. QED
    BY <1>1, <2>1, CreatorKept
<1>13. IndexesStay
  BY <1>1 DEF IndexesStay
<1>14. QED
  BY <1>1, <1>4, <1>6, <1>9, <1>11, <1>12, <1>13, HotColdKeeps

\* A compaction takes ids out of a bitmap only when insertions into it overlapped.
LEMMA CompactionKeeps ==
  ASSUME HotColdInv, NEW i \in DOMAIN tiered, DrainHot(i) \/ SwapHot(i)
  PROVE  HotColdInv'
<1>1. UNCHANGED <<program_indexes, current_slot, done, twice, job>>
  BY DEF DrainHot, SwapHot
<1>2. tiered \in Seq(Tiered) /\ i \in 1 .. Len(tiered) /\ tiered[i] \in Tiered
  BY DEF HotColdInv, HotColdShape
<1>3. TiersGrow /\ tiered' \in Seq(Tiered) /\ Len(tiered') = Len(tiered)
  <2>1. CASE DrainHot(i)
    <3>1. PICK S \in SUBSET tiered[i].Hot :
             tiered' = [tiered EXCEPT ![i].moving = S, ![i].compaction = "drained"]
      BY <2>1 DEF DrainHot
    <3> DEFINE x == [tiered[i] EXCEPT !.moving = S, !.compaction = "drained"]
    <3>2. /\ x \in Tiered /\ x.Hot = tiered[i].Hot /\ x.metadata = tiered[i].metadata
          /\ x.lossy = tiered[i].lossy
      BY <1>2 DEF Tiered, TieredRecord
    <3>3. tiered' = [tiered EXCEPT ![i] = x]
      BY <1>2, <3>1
    <3> HIDE DEF x
    <3>4. QED
      BY <1>2, <3>2, <3>3, OneTiered
  <2>2. CASE SwapHot(i)
    <3>1. PICK lost \in SUBSET tiered[i].Hot :
             /\ lost # {} => tiered[i].lossy
             /\ tiered' = [tiered EXCEPT ![i].Hot = @ \ lost, ![i].moving = {},
                                         ![i].compaction = "none"]
      BY <2>2 DEF SwapHot
    <3> DEFINE x == [tiered[i] EXCEPT !.Hot = @ \ lost, !.moving = {}, !.compaction = "none"]
    <3>2. /\ x \in Tiered /\ x.metadata = tiered[i].metadata /\ x.lossy = tiered[i].lossy
          /\ x.Hot = tiered[i].Hot \ lost
      BY <1>2 DEF Tiered, TieredRecord
    <3>3. tiered' = [tiered EXCEPT ![i] = x]
      BY <1>2, <3>1
    <3> HIDE DEF x
    <3>4. x.lossy \/ tiered[i].Hot \subseteq x.Hot
      BY <3>1, <3>2
    <3>5. QED
      BY <1>2, <3>2, <3>3, <3>4, OneTiered
  <2>3. QED
    BY <2>1, <2>2
<1>4. HotColdShape'
  BY <1>1, <1>3 DEF HotColdInv, HotColdShape
<1>5. OneCreator'
  BY <1>1 DEF HotColdInv, OneCreator, Creating
<1>6. IndexesStay
  BY <1>1 DEF IndexesStay
<1>7. PICK t : t \notin Workers
  BY NoSetContainsEverything
<1>8. QED
  BY <1>1, <1>3, <1>4, <1>5, <1>6, <1>7, HotColdKeeps

\* What an insertion writes last makes it done: the account is hot, and the program's
\* index is the one the call worked on.
LEMMA SaveMetadataKeeps ==
  ASSUME HotColdInv, NEW t \in Workers, SaveMetadata(t)
  PROVE  HotColdInv'
<1> SUFFICES ASSUME NEW i, i = job[t].index, NEW a, a = job[t].account,
                    NEW p, p = job[t].program, NEW known, known = tiered[i].metadata,
                    NEW m, m = IF job[t].op = "access_account" /\ a \in DOMAIN known
                                 THEN accessed(known[a], job[t].slot)
                                 ELSE AccountMetadata(job[t].slot),
                    NEW x, x = [tiered[i] EXCEPT !.metadata = Put(known, a, m)]
             PROVE  HotColdInv'
  OBVIOUS
<1>1. /\ job[t].op \in IndexCalls /\ job[t].pc = "metadata"
      /\ tiered' = [tiered EXCEPT ![i].metadata = Put(@, a, m)]
      /\ done' = IF job[t].op = "insert_account"
                   THEN [done EXCEPT ![p] = @ \cup {a}] ELSE done
      /\ job' = [job EXCEPT ![t] = NoJob]
      /\ UNCHANGED <<program_indexes, current_slot, twice>>
  BY DEF SaveMetadata, Finish
<1>2. /\ job \in [Workers -> HotColdJob] /\ job[t] \in IndexJob
      /\ a \in TierIds /\ p \in Programs /\ job[t].slot \in Nat
      /\ i \in 1 .. Len(tiered) /\ tiered \in Seq(Tiered)
  BY <1>1 DEF HotColdInv, HotColdShape, HotColdWork, Knows, HotColdJob, IndexJob, IndexCalls,
              NoJob, LockJob, WalkJob
<1>3. tiered[i] \in Tiered
  BY <1>2
<1>4. known \in MetadataMaps /\ \A b \in DOMAIN known : known[b] \in Metadata
  BY <1>3 DEF Tiered, TieredRecord, MetadataMaps
<1>5. m \in Metadata
  <2>1. AccountMetadata(job[t].slot) \in Metadata
    BY <1>2 DEF AccountMetadata, Metadata
  <2>2. a \in DOMAIN known => accessed(known[a], job[t].slot) \in Metadata
    BY <1>2, <1>4, AccessIsHot
  <2>3. QED
    BY <2>1, <2>2
<1>6. Put(known, a, m) \in MetadataMaps /\ DOMAIN Put(known, a, m) = DOMAIN known \cup {a}
  BY <1>2, <1>4, <1>5, PutMetadata
<1>7. /\ x \in Tiered /\ x.Hot = tiered[i].Hot /\ x.lossy = tiered[i].lossy
      /\ DOMAIN x.metadata = DOMAIN tiered[i].metadata \cup {a}
  BY <1>3, <1>6 DEF Tiered, TieredRecord
<1>8. tiered' = [tiered EXCEPT ![i] = x]
  BY <1>1, <1>2
<1>18. (tiered[i].lossy => x.lossy) /\ (x.lossy \/ tiered[i].Hot \subseteq x.Hot)
  BY <1>7
<1>9. TiersGrow /\ tiered' \in Seq(Tiered) /\ Len(tiered') = Len(tiered) /\ tiered'[i] = x
  BY <1>2, <1>7, <1>8, <1>18, OneTiered
<1>10. /\ job'[t] = NoJob /\ \A u \in Workers : u # t => job'[u] = job[u]
       /\ NoJob.op = "idle" /\ job' \in [Workers -> HotColdJob]
  BY <1>1, <1>2 DEF NoJob, HotColdJob
<1>11. done' \in [Programs -> SUBSET TierIds]
  BY <1>1, <1>2 DEF HotColdInv, HotColdShape
<1>12. HotColdShape'
  BY <1>1, <1>9, <1>10, <1>11 DEF HotColdInv, HotColdShape
<1>13. Knows(t)'
  BY <1>10 DEF Knows, IndexCalls
<1>14. OneCreator'
  <2>1. \A q \in Programs : Creating(q)' \subseteq Creating(q)
    BY <1>10 DEF Creating, IndexCalls
  <2>2. QED
    BY <1>1, <2>1, CreatorKept
<1>15. IndexesStay
  BY <1>1 DEF IndexesStay
<1>16. ASSUME NEW q \in Programs \ twice', NEW b \in done'[q]
       PROVE  \/ b \in done[q]
              \/ /\ q \in DOMAIN program_indexes'
                 /\ tiered'[program_indexes'[q]].lossy \/ b \in tiered'[program_indexes'[q]].Hot
                 /\ b \in DOMAIN tiered'[program_indexes'[q]].metadata
  <2>1. CASE b \in done[q]
    BY <2>1
  <2>2. CASE b \notin done[q]
    <3>1. job[t].op = "insert_account" /\ q = p /\ b = a
      BY <1>1, <1>2, <1>16, <2>2 DEF HotColdInv, HotColdShape
    <3>2. /\ q \in DOMAIN program_indexes /\ i = program_indexes[q]
          /\ tiered[i].lossy \/ a \in tiered[i].Hot
      BY <1>1, <1>16, <3>1 DEF HotColdInv, HotColdWork, Knows
    <3>3. QED
      BY <1>1, <1>7, <1>9, <3>1, <3>2
  <2>3. QED
    BY <2>1, <2>2
<1>17. QED
  BY <1>9, <1>10, <1>12, <1>13, <1>14, <1>15, <1>16, HotColdKeeps

LEMMA LockIndexesKeeps ==
  ASSUME HotColdInv, NEW t \in Workers, LockIndexes(t)
  PROVE  HotColdInv'
<1> SUFFICES ASSUME NEW todo, todo = {program_indexes[p] : p \in DOMAIN program_indexes}
             PROVE  HotColdInv'
  OBVIOUS
<1> DEFINE j == [op |-> "update_slot", pc |-> "walk", slot |-> job[t].slot, todo |-> todo]
<1>1. /\ job[t].op = "update_slot" /\ job[t].pc = "lock"
      /\ job' = [job EXCEPT ![t] = j] /\ UNCHANGED hotColdState
  BY DEF LockIndexes, At
<1>2. /\ job \in [Workers -> HotColdJob] /\ job[t] \in LockJob
  BY <1>1 DEF HotColdInv, HotColdShape, HotColdJob, IndexJob, IndexCalls, NoJob, LockJob, WalkJob
<1>3. todo \subseteq 1 .. Len(tiered) /\ todo \subseteq Nat
  BY DEF HotColdInv, HotColdShape
<1>4. /\ j \in WalkJob /\ j.op = "update_slot" /\ j.todo = todo
  BY <1>2, <1>3 DEF LockJob, WalkJob
<1> HIDE DEF j
<1>5. job'[t] = j /\ (\A u \in Workers : u # t => job'[u] = job[u]) /\ job' \in [Workers -> HotColdJob]
  BY <1>1, <1>2, <1>4 DEF HotColdJob
<1>6. HotColdShape'
  BY <1>1, <1>5 DEF HotColdInv, HotColdShape, hotColdState
<1>7. Knows(t)'
  BY <1>1, <1>3, <1>4, <1>5 DEF Knows, IndexCalls, hotColdState
<1>8. OneCreator'
  <2>1. \A q \in Programs : Creating(q)' \subseteq Creating(q)
    BY <1>4, <1>5 DEF Creating, IndexCalls
  <2>2. QED
    BY <1>1, <2>1, CreatorKept DEF hotColdState
<1>9. TiersGrow /\ IndexesStay /\ done' = done
  BY <1>1, SameTiers DEF hotColdState, IndexesStay
<1>10. QED
  BY <1>5, <1>6, <1>7, <1>8, <1>9, HotColdKeeps

LEMMA SetCurrentSlotKeeps ==
  ASSUME HotColdInv, NEW t \in Workers, SetCurrentSlot(t)
  PROVE  HotColdInv'
<1>1. /\ job[t].op = "update_slot" /\ job[t].pc = "walk"
      /\ UNCHANGED <<program_indexes, current_slot, done, twice>>
  BY DEF SetCurrentSlot, At
<1>2. /\ job \in [Workers -> HotColdJob] /\ job[t] \in WalkJob /\ tiered \in Seq(Tiered)
      /\ job[t].todo \subseteq 1 .. Len(tiered) /\ job[t].slot \in Nat /\ job[t].todo \in SUBSET Nat
  BY <1>1 DEF HotColdInv, HotColdShape, HotColdWork, Knows, HotColdJob, IndexJob, IndexCalls,
              NoJob, LockJob, WalkJob
<1>3. NoJob.op = "idle"
  BY DEF NoJob
<1>4. \/ /\ job' = [job EXCEPT ![t] = NoJob] /\ tiered' = tiered
      \/ \E i \in job[t].todo : /\ tiered' = [tiered EXCEPT ![i].slot = job[t].slot]
                                /\ job' = [job EXCEPT ![t].todo = @ \ {i}]
  BY DEF SetCurrentSlot, Finish
<1>5. IndexesStay
  BY <1>1 DEF IndexesStay
<1>6. CASE job' = [job EXCEPT ![t] = NoJob] /\ tiered' = tiered
  <2>1. /\ job'[t] = NoJob /\ \A u \in Workers : u # t => job'[u] = job[u]
        /\ job' \in [Workers -> HotColdJob]
    BY <1>2, <1>6 DEF HotColdJob
  <2>2. HotColdShape' /\ Knows(t)'
    BY <1>1, <1>3, <1>6, <2>1 DEF HotColdInv, HotColdShape, Knows, IndexCalls
  <2>3. OneCreator'
    <3>1. \A q \in Programs : Creating(q)' \subseteq Creating(q)
      BY <1>3, <2>1 DEF Creating, IndexCalls
    <3>2. QED
      BY <1>1, <3>1, CreatorKept
  <2>4. QED
    BY <1>1, <1>5, <1>6, <2>1, <2>2, <2>3, SameTiers, HotColdKeeps
<1>7. ASSUME NEW i \in job[t].todo, tiered' = [tiered EXCEPT ![i].slot = job[t].slot],
             job' = [job EXCEPT ![t].todo = @ \ {i}]
      PROVE  HotColdInv'
  <2> SUFFICES ASSUME NEW x, x = [tiered[i] EXCEPT !.slot = job[t].slot]
               PROVE  HotColdInv'
    OBVIOUS
  <2> DEFINE j == [job[t] EXCEPT !.todo = @ \ {i}]
  <2>1. i \in 1 .. Len(tiered) /\ tiered[i] \in Tiered
    BY <1>2
  <2>2. /\ x \in Tiered /\ x.Hot = tiered[i].Hot /\ x.metadata = tiered[i].metadata
        /\ x.lossy = tiered[i].lossy
    BY <1>2, <2>1 DEF Tiered, TieredRecord
  <2>3. tiered' = [tiered EXCEPT ![i] = x]
    BY <1>2, <1>7, <2>1
  <2>4. TiersGrow /\ tiered' \in Seq(Tiered) /\ Len(tiered') = Len(tiered)
    BY <2>1, <2>2, <2>3, OneTiered
  <2>5. job'[t] = j /\ \A u \in Workers : u # t => job'[u] = job[u]
    BY <1>2, <1>7
  <2>6. j \in WalkJob /\ j.op = "update_slot" /\ j.pc = "walk" /\ j.todo = job[t].todo \ {i}
    <3>1. job[t] \in WalkJob
      BY <1>2
    <3>2. QED
      BY <3>1 DEF WalkJob
  <2> HIDE DEF j
  <2>7. job' \in [Workers -> HotColdJob]
    BY <1>2, <1>7, <2>5, <2>6 DEF HotColdJob
  <2>8. HotColdShape'
    BY <1>1, <2>4, <2>7 DEF HotColdInv, HotColdShape
  <2>9. Knows(t)'
    BY <1>2, <2>4, <2>5, <2>6 DEF Knows, IndexCalls
  <2>10. OneCreator'
    <3>1. \A q \in Programs : Creating(q)' \subseteq Creating(q)
      BY <2>5, <2>6 DEF Creating, IndexCalls
    <3>2. QED
      BY <1>1, <3>1, CreatorKept
  <2>11. QED
    BY <1>1, <1>5, <2>4, <2>5, <2>8, <2>9, <2>10, HotColdKeeps
<1>8. QED
  BY <1>4, <1>6, <1>7

LEMMA HotColdStep ==
  ASSUME HotColdInv, [HotColdNext]_hotColdVars
  PROVE  HotColdInv'
<1>1. CASE HotColdNext
  BY <1>1, IndexCallKeeps, UpdateSlotKeeps, FindIndexKeeps, CreateIndexKeeps,
     RegisterIndexKeeps, ReadSlotKeeps, InsertHotKeeps, AfterInsertKeeps,
     CompactionKeeps, SaveMetadataKeeps, LockIndexesKeeps,
     SetCurrentSlotKeeps DEF HotColdNext
<1>2. CASE UNCHANGED hotColdVars
  BY <1>2 DEF hotColdVars, hotColdState, HotColdInv, HotColdShape, HotColdWork, Knows,
              OneCreator, DoneIsHot, Creating
<1>3. QED
  BY <1>1, <1>2

\* An account whose insertion has returned is in the metadata of the index the manager hands
\* out for the program, and in the answers of query_all() or held by the compaction that is
\* about to install it, however many callers, accesses, compactions and new slots come in
\* between: get_or_create_index(), insert_account(), LsmBitmap::insert().
THEOREM HotColdListed == HotColdSpec => []InsertedIsListed
<1>1. HotColdInit => HotColdInv
  <2> SUFFICES ASSUME HotColdInit PROVE HotColdInv
    OBVIOUS
  <2>1. /\ job \in [Workers -> {NoJob}] /\ tiered = <<>> /\ program_indexes = EmptyMap
        /\ current_slot = 0 /\ done = [p \in Programs |-> {}]
    BY DEF HotColdInit, JobsInit
  <2>2. DOMAIN EmptyMap = {} /\ NoJob.op = "idle"
    BY DEF EmptyMap, NoJob
  <2>3. HotColdShape
    BY <2>1, <2>2 DEF HotColdShape, HotColdJob
  <2>4. \A p : Creating(p) = {}
    BY <2>1, <2>2 DEF Creating, IndexCalls
  <2>5. HotColdWork
    BY <2>1, <2>2 DEF HotColdWork, Knows, IndexCalls
  <2>6. OneCreator /\ DoneIsHot
    BY <2>1, <2>4 DEF OneCreator, DoneIsHot
  <2>7. QED
    BY <2>3, <2>5, <2>6 DEF HotColdInv
<1>2. HotColdInv /\ [HotColdNext]_hotColdVars => HotColdInv'
  BY HotColdStep
<1>3. HotColdInv => InsertedIsListed
  <2> SUFFICES ASSUME HotColdInv, NEW p \in Programs \ twice, NEW a \in done[p],
                      NEW i, i = program_indexes[p]
               PROVE  /\ p \in DOMAIN program_indexes /\ a \in DOMAIN tiered[i].metadata
                      /\ \/ a \in query_all(i)
                         \/ tiered[i].compaction = "drained" /\ a \in tiered[i].moving
                         \/ tiered[i].lossy
    BY DEF InsertedIsListed
  <2>1. /\ p \in DOMAIN program_indexes /\ a \in DOMAIN tiered[i].metadata
        /\ tiered[i].lossy \/ a \in tiered[i].Hot
    BY DEF HotColdInv, DoneIsHot
  <2>2. tiered[i] \in Tiered
    BY <2>1 DEF HotColdInv, HotColdShape
  <2>3. tiered[i].moving # {} => tiered[i].compaction = "drained"
    BY <2>2 DEF Tiered
  <2>4. QED
    BY <2>1, <2>3 DEF query_all
<1>4. QED
  BY <1>1, <1>2, <1>3, PTL DEF HotColdSpec

----------------------------------------------------------------------------
(* TieredDictionary: the first account of a key survives the moves between  *)
(* the levels, which take only the first account of an entry along.         *)

DictLevel == {e \in [first : DictIds, account_ids : SUBSET DictIds] : e.first \in e.account_ids}

GetJob == [op : {"dict_get"}, pc : {"hot", "warm", "cold"}, key : DictKeys]
PromoteJob == [op : {"dict_get"}, pc : {"promote"}, key : DictKeys, first : DictIds]
DemoteJob == [op : {"demote_hot", "demote_warm"}, pc : {"insert", "again"}, key : DictKeys,
              first : DictIds]
DictJob == {NoJob} \cup GetJob \cup PromoteJob \cup DemoteJob

DictShape ==
    /\ job \in [Workers -> DictJob]
    /\ DOMAIN hotDict \subseteq DictKeys /\ DOMAIN warmDict \subseteq DictKeys
    /\ \A k \in DOMAIN hotDict : hotDict[k] \in DictLevel
    /\ \A k \in DOMAIN warmDict : warmDict[k] \in DictLevel

\* Only a key that was inserted once is in a level or on its way to one.
KeysFounded ==
    /\ DOMAIN hotDict \subseteq DOMAIN founder /\ DOMAIN warmDict \subseteq DOMAIN founder
    /\ \A t \in Workers : job[t] \in PromoteJob \cup DemoteJob => job[t].key \in DOMAIN founder

\* The founder of a key leads its entry in the first level, is in that of the second, or
\* is on its way from the one to the other; the third level is never needed.
Placed(k) ==
    \/ k \in DOMAIN hotDict /\ hotDict[k].first = founder[k]
    \/ k \in DOMAIN warmDict /\ founder[k] \in warmDict[k].account_ids
    \/ \E t \in Workers : job[t].op = "demote_hot" /\ job[t].key = k /\ job[t].first = founder[k]

FounderPlaced == \A k \in DOMAIN founder \ popped : Placed(k)

DictInv == DictShape /\ KeysFounded /\ FounderPlaced

\* An insertion into a level keeps the accounts and the first of every entry.
LEMMA AddedEntry ==
  ASSUME NEW f, \A k \in DOMAIN f : f[k] \in DictLevel, NEW k, NEW id \in DictIds
  PROVE  /\ DOMAIN Added(f, k, id) = DOMAIN f \cup {k}
         /\ \A x \in DOMAIN Added(f, k, id) : Added(f, k, id)[x] \in DictLevel
         /\ id \in Added(f, k, id)[k].account_ids
         /\ k \notin DOMAIN f => Added(f, k, id)[k].first = id
         /\ \A x \in DOMAIN f : /\ Added(f, k, id)[x].first = f[x].first
                                /\ f[x].account_ids \subseteq Added(f, k, id)[x].account_ids
<1>1. CASE k \in DOMAIN f
  <2> DEFINE e == add_account(f[k], id)
  <2>1. e \in DictLevel /\ e.first = f[k].first /\ e.account_ids = f[k].account_ids \cup {id}
    BY <1>1 DEF add_account, DictLevel
  <2>2. Added(f, k, id) = Put(f, k, e)
    BY <1>1 DEF Added
  <2> HIDE DEF e
  <2>3. QED
    BY <1>1, <2>1, <2>2 DEF Put
<1>2. CASE k \notin DOMAIN f
  <2> DEFINE e == DictEntry(id)
  <2>1. e \in DictLevel /\ e.first = id /\ e.account_ids = {id}
    BY DEF DictEntry, DictLevel
  <2>2. Added(f, k, id) = Put(f, k, e)
    BY <1>2 DEF Added
  <2> HIDE DEF e
  <2>3. QED
    BY <1>2, <2>1, <2>2 DEF Put
<1>3. QED
  BY <1>1, <1>2

\* A step of one thread that takes nothing out of the first level but to carry it, and
\* nothing out of the second that is not given up, and that delivers what it carried.
LEMMA DictKeeps ==
  ASSUME FounderPlaced, NEW t \in Workers, \A u \in Workers : u # t => job'[u] = job[u],
         founder' = founder, popped \subseteq popped',
         \A k \in DOMAIN hotDict :
            \/ k \in DOMAIN hotDict' /\ hotDict'[k].first = hotDict[k].first
            \/ job'[t].op = "demote_hot" /\ job'[t].key = k /\ job'[t].first = hotDict[k].first,
         \A k \in DOMAIN warmDict \ popped' :
            k \in DOMAIN warmDict' /\ warmDict[k].account_ids \subseteq warmDict'[k].account_ids,
         job[t].op = "demote_hot" =>
            \/ job[t].key \in popped'
            \/ job[t].key \in DOMAIN warmDict' /\ job[t].first \in warmDict'[job[t].key].account_ids
  PROVE  FounderPlaced'
<1> SUFFICES ASSUME NEW k \in DOMAIN founder \ popped'
             PROVE  Placed(k)'
  BY DEF FounderPlaced
<1>1. CASE k \in DOMAIN hotDict /\ hotDict[k].first = founder[k]
  BY <1>1 DEF Placed
<1>2. CASE k \in DOMAIN warmDict /\ founder[k] \in warmDict[k].account_ids
  BY <1>2 DEF Placed
<1>3. ASSUME NEW u \in Workers, job[u].op = "demote_hot", job[u].key = k, job[u].first = founder[k]
      PROVE  Placed(k)'
  <2>1. CASE u = t
    BY <1>3, <2>1 DEF Placed
  <2>2. CASE u # t
    BY <1>3, <2>2 DEF Placed
  <2>3. QED
    BY <2>1, <2>2
<1>4. QED
  BY <1>1, <1>2, <1>3 DEF FounderPlaced, Placed

LEMMA DictInsertKeeps ==
  ASSUME DictInv, NEW k \in DictKeys, NEW id \in DictIds, DictInsert(k, id)
  PROVE  DictInv'
<1> DEFINE h == Added(hotDict, k, id)
<1>1. /\ hotDict' = h
      /\ founder' = IF k \in DOMAIN founder THEN founder ELSE Put(founder, k, id)
      /\ UNCHANGED <<warmDict, popped, job>>
  BY DEF DictInsert
<1>2. \A x \in DOMAIN hotDict : hotDict[x] \in DictLevel
  BY DEF DictInv, DictShape
<1>3. /\ DOMAIN Added(hotDict, k, id) = DOMAIN hotDict \cup {k}
      /\ \A x \in DOMAIN Added(hotDict, k, id) : Added(hotDict, k, id)[x] \in DictLevel
      /\ id \in Added(hotDict, k, id)[k].account_ids
      /\ k \notin DOMAIN hotDict => Added(hotDict, k, id)[k].first = id
      /\ \A x \in DOMAIN hotDict :
           /\ Added(hotDict, k, id)[x].first = hotDict[x].first
           /\ hotDict[x].account_ids \subseteq Added(hotDict, k, id)[x].account_ids
  BY <1>2, AddedEntry
<1>4. /\ DOMAIN h = DOMAIN hotDict \cup {k}
      /\ \A x \in DOMAIN h : h[x] \in DictLevel
      /\ k \notin DOMAIN hotDict => h[k].first = id
      /\ \A x \in DOMAIN hotDict : h[x].first = hotDict[x].first
  BY <1>3
<1> HIDE DEF h
<1>5. DictShape'
  BY <1>1, <1>4 DEF DictInv, DictShape
<1>6. /\ DOMAIN founder' = DOMAIN founder \cup {k}
      /\ \A x \in DOMAIN founder : founder'[x] = founder[x]
      /\ k \notin DOMAIN founder => founder'[k] = id
  BY <1>1 DEF Put
<1>7. KeysFounded'
  BY <1>1, <1>4, <1>6 DEF DictInv, KeysFounded
<1>8. ASSUME NEW x \in DOMAIN founder' \ popped
      PROVE  Placed(x)'
  <2>1. CASE x \in DOMAIN founder
    <3>1. founder'[x] = founder[x] /\ Placed(x)
      BY <1>6, <2>1 DEF DictInv, FounderPlaced
    <3>2. CASE x \in DOMAIN hotDict /\ hotDict[x].first = founder[x]
      BY <1>1, <1>4, <3>1, <3>2 DEF Placed
    <3>3. CASE x \in DOMAIN warmDict /\ founder[x] \in warmDict[x].account_ids
      BY <1>1, <3>1, <3>3 DEF Placed
    <3>4. CASE \E t \in Workers :
                 job[t].op = "demote_hot" /\ job[t].key = x /\ job[t].first = founder[x]
      BY <1>1, <3>1, <3>4 DEF Placed
    <3>5. QED
      BY <3>1, <3>2, <3>3, <3>4 DEF Placed
  <2>2. CASE x \notin DOMAIN founder
    <3>1. x = k /\ founder'[x] = id /\ k \notin DOMAIN hotDict
      BY <1>6, <1>8, <2>2 DEF DictInv, KeysFounded
    <3>2. QED
      BY <1>1, <1>4, <3>1 DEF Placed
  <2>3. QED
    BY <2>1, <2>2
<1>9. FounderPlaced'
  BY <1>1, <1>8 DEF FounderPlaced
<1>10. QED
  BY <1>5, <1>7, <1>9 DEF DictInv

\* Steps that only read the levels or begin and end a call.
LEMMA DictReads ==
  ASSUME DictInv, NEW t \in Workers, UNCHANGED dictState, job[t].op # "demote_hot",
         job' = [job EXCEPT ![t] = job'[t]], job'[t] \in DictJob,
         job'[t] \in PromoteJob \cup DemoteJob => job'[t].key \in DOMAIN founder
  PROVE  DictInv'
<1>1. job \in [Workers -> DictJob] /\ DOMAIN job = Workers
  BY DEF DictInv, DictShape
<1>2. \A u \in Workers : u # t => job'[u] = job[u]
  BY <1>1
<1>3. job' \in [Workers -> DictJob]
  BY <1>1
<1>4. DictShape'
  BY <1>3 DEF DictInv, DictShape, dictState
<1>5. KeysFounded'
  BY <1>2 DEF DictInv, KeysFounded, dictState
<1>6. FounderPlaced'
  BY <1>2, DictKeeps DEF DictInv, dictState
<1>7. QED
  BY <1>4, <1>5, <1>6 DEF DictInv

\* What the actions of a lookup and of the demotions do to the call in progress.
LEMMA DictLookupKeeps ==
  ASSUME DictInv, NEW t \in Workers,
         (\E k \in DictKeys : DictGet(t, k) \/ DemoteWarm(t, k))
            \/ GetHot(t) \/ GetWarm(t) \/ GetCold(t)
  PROVE  DictInv'
<1>1. job \in [Workers -> DictJob] /\ job[t] \in DictJob
  BY DEF DictInv, DictShape
<1>2. ASSUME NEW k \in DictKeys, DictGet(t, k)
      PROVE  DictInv'
  <2> DEFINE j == [op |-> "dict_get", pc |-> "hot", key |-> k]
  <2>1. UNCHANGED dictState /\ job[t].op = "idle" /\ job' = [job EXCEPT ![t] = j]
    BY <1>2 DEF DictGet, Begin
  <2>2. j \in GetJob /\ j \notin PromoteJob \cup DemoteJob
    BY DEF GetJob, PromoteJob, DemoteJob
  <2>3. job'[t] = j
    BY <1>1, <2>1
  <2> HIDE DEF j
  <2>4. QED
    BY <1>1, <2>1, <2>2, <2>3, DictReads DEF DictJob
<1>3. ASSUME NEW k \in DictKeys, DemoteWarm(t, k)
      PROVE  DictInv'
  <2> DEFINE j == [op |-> "demote_warm", pc |-> "insert", key |-> k, first |-> warmDict[k].first]
  <2>1. UNCHANGED dictState /\ job[t].op = "idle" /\ job' = [job EXCEPT ![t] = j]
    BY <1>3 DEF DemoteWarm, Begin
  <2>2. k \in DOMAIN warmDict /\ warmDict[k] \in DictLevel /\ k \in DOMAIN founder
    BY <1>3 DEF DemoteWarm, DictInv, DictShape, KeysFounded
  <2>3. j \in DemoteJob /\ j.key = k
    BY <2>2 DEF DemoteJob, DictLevel
  <2>4. job'[t] = j
    BY <1>1, <2>1
  <2> HIDE DEF j
  <2>5. QED
    BY <1>1, <2>1, <2>2, <2>3, <2>4, DictReads DEF DictJob
<1>4. ASSUME job[t].op = "dict_get", job[t].pc \in {"hot", "warm", "cold"}
      PROVE  job[t] \in GetJob
  BY <1>1, <1>4 DEF DictJob, NoJob, GetJob, PromoteJob, DemoteJob
<1>5. ASSUME UNCHANGED dictState, Finish(t), job[t].op = "dict_get"
      PROVE  DictInv'
  <2>1. job' = [job EXCEPT ![t] = NoJob] /\ job'[t] = NoJob
    BY <1>1, <1>5 DEF Finish
  <2>2. NoJob \in DictJob /\ NoJob \notin PromoteJob \cup DemoteJob
    BY DEF DictJob, NoJob, PromoteJob, DemoteJob
  <2>3. QED
    BY <1>5, <2>1, <2>2, DictReads
<1>6. ASSUME UNCHANGED dictState, job[t] \in GetJob, NEW pc \in {"warm", "cold"}, Goto(t, pc)
      PROVE  DictInv'
  <2> DEFINE j == [job[t] EXCEPT !.pc = pc]
  <2>1. job' = [job EXCEPT ![t] = j] /\ job[t].op = "dict_get"
    BY <1>1, <1>6 DEF Goto, GetJob
  <2>2. j \in GetJob /\ j \notin PromoteJob \cup DemoteJob
    BY <1>6 DEF GetJob, PromoteJob, DemoteJob
  <2>3. job'[t] = j
    BY <1>1, <2>1
  <2> HIDE DEF j
  <2>4. QED
    BY <1>6, <2>1, <2>2, <2>3, DictReads DEF DictJob
<1>7. CASE GetHot(t)
  BY <1>4, <1>5, <1>6, <1>7 DEF GetHot, At
<1>8. CASE GetWarm(t)
  <2>1. job[t] \in GetJob /\ job[t].op = "dict_get" /\ UNCHANGED dictState
    BY <1>4, <1>8 DEF GetWarm, At
  <2>2. CASE job[t].key \in DOMAIN warmDict
    <3> DEFINE j == [op |-> job[t].op, pc |-> "promote", key |-> job[t].key,
                     first |-> warmDict[job[t].key].first]
    <3>1. job' = [job EXCEPT ![t] = j]
      BY <1>8, <2>2 DEF GetWarm, Found
    <3>2. warmDict[job[t].key] \in DictLevel /\ job[t].key \in DOMAIN founder
      BY <2>2 DEF DictInv, DictShape, KeysFounded
    <3>3. j \in PromoteJob /\ j.key = job[t].key
      BY <2>1, <3>2 DEF PromoteJob, GetJob, DictLevel
    <3>4. job'[t] = j
      BY <1>1, <3>1
    <3> HIDE DEF j
    <3>5. QED
      BY <2>1, <3>1, <3>2, <3>3, <3>4, DictReads DEF DictJob
  <2>3. CASE job[t].key \notin DOMAIN warmDict
    BY <1>6, <1>8, <2>1, <2>3 DEF GetWarm
  <2>4. QED
    BY <2>2, <2>3
<1>9. CASE GetCold(t)
  BY <1>5, <1>9 DEF GetCold, At
<1>10. QED
  BY <1>2, <1>3, <1>7, <1>8, <1>9

LEMMA PromoteKeeps ==
  ASSUME DictInv, NEW t \in Workers, PromoteEntry(t)
  PROVE  DictInv'
<1>1. job \in [Workers -> DictJob] /\ job[t] \in DictJob
  BY DEF DictInv, DictShape
<1>2. job[t].op = "dict_get" /\ job[t] \in PromoteJob
  BY <1>1 DEF PromoteEntry, At, DictJob, NoJob, GetJob, PromoteJob, DemoteJob
<1>3. job[t].key \in DictKeys /\ job[t].key \in DOMAIN founder /\ job[t].first \in DictIds
  BY <1>2 DEF DictInv, KeysFounded, PromoteJob
<1>4. job' = [job EXCEPT ![t] = NoJob] /\ NoJob \in DictJob /\ NoJob \notin PromoteJob \cup DemoteJob
  BY DEF PromoteEntry, Finish, DictJob, NoJob, PromoteJob, DemoteJob
<1>5. job' \in [Workers -> DictJob] /\ job'[t] = NoJob /\ \A u \in Workers : u # t => job'[u] = job[u]
  BY <1>1, <1>4
<1>6. hotDict' = Added(hotDict, job[t].key, job[t].first)
      /\ UNCHANGED <<warmDict, founder, popped>>
  BY DEF PromoteEntry
<1>7. SUFFICES ASSUME NEW k, k = job[t].key, NEW id, id = job[t].first
               PROVE  DictInv'
  OBVIOUS
<1>8. \A x \in DOMAIN hotDict : hotDict[x] \in DictLevel
  BY DEF DictInv, DictShape
<1>9. /\ DOMAIN Added(hotDict, k, id) = DOMAIN hotDict \cup {k}
      /\ \A x \in DOMAIN Added(hotDict, k, id) : Added(hotDict, k, id)[x] \in DictLevel
      /\ id \in Added(hotDict, k, id)[k].account_ids
      /\ k \notin DOMAIN hotDict => Added(hotDict, k, id)[k].first = id
      /\ \A x \in DOMAIN hotDict :
           /\ Added(hotDict, k, id)[x].first = hotDict[x].first
           /\ hotDict[x].account_ids \subseteq Added(hotDict, k, id)[x].account_ids
  <2>1. id \in DictIds
    BY <1>3, <1>7
  <2>2. QED
    BY <1>8, <2>1, AddedEntry
<1>10. hotDict' = Added(hotDict, k, id)
  BY <1>6, <1>7
<1>11. /\ DOMAIN hotDict' = DOMAIN hotDict \cup {k}
       /\ \A x \in DOMAIN hotDict' : hotDict'[x] \in DictLevel
       /\ \A x \in DOMAIN hotDict : hotDict'[x].first = hotDict[x].first
  BY <1>9, <1>10
<1>12. DictShape'
  BY <1>3, <1>5, <1>6, <1>7, <1>11 DEF DictInv, DictShape
<1>13. KeysFounded'
  BY <1>3, <1>4, <1>5, <1>6, <1>7, <1>11 DEF DictInv, KeysFounded
<1>14. FounderPlaced'
  BY <1>2, <1>5, <1>6, <1>11, DictKeeps DEF DictInv
<1>15. QED
  BY <1>12, <1>13, <1>14 DEF DictInv

LEMMA DemoteHotKeeps ==
  ASSUME DictInv, NEW t \in Workers, NEW k \in DictKeys, DemoteHot(t, k)
  PROVE  DictInv'
<1> DEFINE j == [op |-> "demote_hot", pc |-> "insert", key |-> k, first |-> hotDict[k].first]
<1>1. job \in [Workers -> DictJob] /\ job[t].op = "idle"
  BY DEF DictInv, DictShape, DemoteHot, Begin
<1>2. k \in DOMAIN hotDict /\ hotDict[k] \in DictLevel /\ k \in DOMAIN founder
  BY DEF DemoteHot, DictInv, DictShape, KeysFounded
<1>3. j \in DemoteJob /\ j.op = "demote_hot" /\ j.key = k /\ j.first = hotDict[k].first
  BY <1>2 DEF DemoteJob, DictLevel
<1>4. job' = [job EXCEPT ![t] = j]
  BY DEF DemoteHot, Begin
<1> HIDE DEF j
<1>5. job' \in [Workers -> DictJob] /\ job'[t] = j /\ \A u \in Workers : u # t => job'[u] = job[u]
  BY <1>1, <1>3, <1>4 DEF DictJob
<1>6. hotDict' = Drop(hotDict, k) /\ UNCHANGED <<warmDict, founder, popped>>
  BY DEF DemoteHot
<1>7. /\ DOMAIN hotDict' = DOMAIN hotDict \ {k}
      /\ \A x \in DOMAIN hotDict' : hotDict'[x] = hotDict[x]
  BY <1>6 DEF Drop
<1>8. DictShape'
  BY <1>5, <1>6, <1>7 DEF DictInv, DictShape
<1>9. KeysFounded'
  BY <1>2, <1>3, <1>5, <1>6, <1>7 DEF DictInv, KeysFounded
<1>10. FounderPlaced'
  BY <1>1, <1>3, <1>5, <1>6, <1>7, DictKeeps DEF DictInv
<1>11. QED
  BY <1>8, <1>9, <1>10 DEF DictInv

LEMMA DemoteIntoWarmKeeps ==
  ASSUME DictInv, NEW t \in Workers, DemoteIntoWarm(t)
  PROVE  DictInv'
<1>1. job \in [Workers -> DictJob] /\ job[t] \in DictJob
  BY DEF DictInv, DictShape
<1>2. job[t].op = "demote_hot" /\ job[t] \in DemoteJob
  BY <1>1 DEF DemoteIntoWarm, At, DictJob, NoJob, GetJob, PromoteJob, DemoteJob
<1>3. job[t].key \in DictKeys /\ job[t].key \in DOMAIN founder /\ job[t].first \in DictIds
  BY <1>2 DEF DictInv, KeysFounded, DemoteJob
<1>4. job' = [job EXCEPT ![t] = NoJob] /\ NoJob \in DictJob /\ NoJob \notin PromoteJob \cup DemoteJob
  BY DEF DemoteIntoWarm, Finish, DictJob, NoJob, PromoteJob, DemoteJob
<1>5. job' \in [Workers -> DictJob] /\ job'[t] = NoJob /\ \A u \in Workers : u # t => job'[u] = job[u]
  BY <1>1, <1>4
<1>6. UNCHANGED <<hotDict, founder>> /\ WarmInsert(job[t].key, job[t].first)
  BY DEF DemoteIntoWarm
<1>7. SUFFICES ASSUME NEW k, k = job[t].key, NEW id, id = job[t].first
               PROVE  DictInv'
  OBVIOUS
\* The level the account is added to, and the keys given up.
<1>8. PICK w, gone : /\ DOMAIN w = DOMAIN warmDict \ gone
                     /\ \A x \in DOMAIN w : w[x] = warmDict[x]
                     /\ warmDict' = Added(w, k, id) /\ popped' = popped \cup gone
  <2>1. WarmInsert(k, id)
    BY <1>6, <1>7
  <2> DEFINE full == k \notin DOMAIN warmDict /\ Cardinality(DOMAIN warmDict) >= WarmSize
             least == CHOOSE x \in DOMAIN warmDict : \A y \in DOMAIN warmDict : x <= y
  <2>2. /\ warmDict' = Added(IF full THEN Drop(warmDict, least) ELSE warmDict, k, id)
        /\ popped' = IF full THEN popped \cup {least} ELSE popped
    BY <2>1 DEF WarmInsert
  <2> HIDE DEF full, least
  <2>3. CASE full
    <3>1. /\ DOMAIN Drop(warmDict, least) = DOMAIN warmDict \ {least}
          /\ \A x \in DOMAIN Drop(warmDict, least) : Drop(warmDict, least)[x] = warmDict[x]
      BY DEF Drop
    <3>2. warmDict' = Added(Drop(warmDict, least), k, id) /\ popped' = popped \cup {least}
      BY <2>2, <2>3
    <3>3. QED
      BY <3>1, <3>2
  <2>4. CASE ~full
    <3>1. warmDict' = Added(warmDict, k, id) /\ popped' = popped \cup {}
      BY <2>2, <2>4
    <3>2. DOMAIN warmDict = DOMAIN warmDict \ {}
      OBVIOUS
    <3>3. QED
      BY <3>1, <3>2
  <2>5. QED
    BY <2>3, <2>4
<1>9. \A x \in DOMAIN w : w[x] \in DictLevel
  BY <1>8 DEF DictInv, DictShape
<1>10. /\ DOMAIN Added(w, k, id) = DOMAIN w \cup {k}
       /\ \A x \in DOMAIN Added(w, k, id) : Added(w, k, id)[x] \in DictLevel
       /\ id \in Added(w, k, id)[k].account_ids
       /\ k \notin DOMAIN w => Added(w, k, id)[k].first = id
       /\ \A x \in DOMAIN w : /\ Added(w, k, id)[x].first = w[x].first
                              /\ w[x].account_ids \subseteq Added(w, k, id)[x].account_ids
  <2>1. id \in DictIds
    BY <1>3, <1>7
  <2>2. QED
    BY <1>9, <2>1, AddedEntry
<1>11. /\ DOMAIN warmDict' \subseteq DOMAIN warmDict \cup {k}
       /\ \A x \in DOMAIN warmDict' : warmDict'[x] \in DictLevel
       /\ k \in DOMAIN warmDict' /\ id \in warmDict'[k].account_ids
       /\ \A x \in DOMAIN warmDict \ popped' :
            x \in DOMAIN warmDict' /\ warmDict[x].account_ids \subseteq warmDict'[x].account_ids
  BY <1>8, <1>10
<1>12. DictShape'
  BY <1>3, <1>5, <1>6, <1>7, <1>11 DEF DictInv, DictShape
<1>13. KeysFounded'
  BY <1>3, <1>4, <1>5, <1>6, <1>7, <1>11 DEF DictInv, KeysFounded
<1>14. FounderPlaced'
  BY <1>5, <1>6, <1>7, <1>8, <1>11, DictKeeps DEF DictInv
<1>15. QED
  BY <1>12, <1>13, <1>14 DEF DictInv

LEMMA DemoteIntoColdKeeps ==
  ASSUME DictInv, NEW t \in Workers, DemoteIntoCold(t)
  PROVE  DictInv'
<1>1. job \in [Workers -> DictJob] /\ job[t] \in DictJob
  BY DEF DictInv, DictShape
<1>2. job[t].op = "demote_warm" /\ job[t] \in DemoteJob
  BY <1>1 DEF DemoteIntoCold, At, DictJob, NoJob, GetJob, PromoteJob, DemoteJob
<1>3. job[t].key \in DOMAIN founder
  BY <1>2 DEF DictInv, KeysFounded
<1>4. PICK j \in DictJob : /\ job' = [job EXCEPT ![t] = j]
                           /\ j \in PromoteJob \cup DemoteJob => j.key \in DOMAIN founder
  <2>1. CASE job[t].pc = "insert"
    <3>1. job' = [job EXCEPT ![t] = [job[t] EXCEPT !.pc = "again"]]
      BY <1>1, <2>1 DEF DemoteIntoCold, Goto
    <3>2. [job[t] EXCEPT !.pc = "again"] \in DemoteJob
          /\ [job[t] EXCEPT !.pc = "again"].key = job[t].key
      BY <1>2 DEF DemoteJob
    <3>3. QED
      BY <1>3, <3>1, <3>2 DEF DictJob
  <2>2. CASE job[t].pc # "insert"
    <3>1. job' = [job EXCEPT ![t] = NoJob] /\ NoJob \in DictJob /\ NoJob \notin PromoteJob \cup DemoteJob
      BY <2>2 DEF DemoteIntoCold, Finish, DictJob, NoJob, PromoteJob, DemoteJob
    <3>2. QED
      BY <3>1
  <2>3. QED
    BY <2>1, <2>2
<1>5. job' \in [Workers -> DictJob] /\ job'[t] = j /\ \A u \in Workers : u # t => job'[u] = job[u]
  BY <1>1, <1>4
<1>6. UNCHANGED <<hotDict, warmDict, founder, popped>>
  BY DEF DemoteIntoCold
<1>7. DictShape'
  BY <1>5, <1>6 DEF DictInv, DictShape
<1>8. KeysFounded'
  BY <1>4, <1>5, <1>6 DEF DictInv, KeysFounded
<1>9. FounderPlaced'
  BY <1>2, <1>5, <1>6, DictKeeps DEF DictInv
<1>10. QED
  BY <1>7, <1>8, <1>9 DEF DictInv

LEMMA DictInvStarts == DictInit => DictInv
<1> SUFFICES ASSUME DictInit PROVE DictInv
  OBVIOUS
<1>1. job = [t \in Workers |-> NoJob] /\ DOMAIN hotDict = {} /\ DOMAIN warmDict = {} /\ DOMAIN founder = {}
  BY DEF DictInit, JobsInit, EmptyMap
<1>2. NoJob \notin PromoteJob \cup DemoteJob
  BY DEF NoJob, PromoteJob, DemoteJob
<1>3. QED
  BY <1>1, <1>2 DEF DictInv, DictShape, DictJob, KeysFounded, FounderPlaced

LEMMA DictInvKept == DictInv /\ [DictNext]_dictVars => DictInv'
<1> SUFFICES ASSUME DictInv, [DictNext]_dictVars PROVE DictInv'
  OBVIOUS
<1>1. CASE UNCHANGED dictVars
  BY <1>1 DEF dictVars, dictState, DictInv, DictShape, KeysFounded, FounderPlaced, Placed
<1>2. CASE DictNext
  <2>1. ASSUME NEW k \in DictKeys, NEW id \in DictIds, DictInsert(k, id)
        PROVE  DictInv'
    BY <2>1, DictInsertKeeps
  <2>2. ASSUME NEW t \in Workers, NEW k \in DictKeys, DemoteHot(t, k)
        PROVE  DictInv'
    BY <2>2, DemoteHotKeeps
  <2>3. QED
    BY <1>2, <2>1, <2>2, DictLookupKeeps, PromoteKeeps, DemoteIntoWarmKeeps, DemoteIntoColdKeeps
       DEF DictNext
<1>3. QED
  BY <1>1, <1>2

\* tiered_dictionary.rs: the account a key was first inserted with stays with it through
\* promotions and demotions, unless the second level gave the key up to make room.
THEOREM DictFounder == DictSpec => []FounderKept
<1>1. DictInit => DictInv
  BY DictInvStarts
<1>2. DictInv /\ [DictNext]_dictVars => DictInv'
  BY DictInvKept
<1>3. DictInv => FounderKept
  <2> SUFFICES ASSUME DictInv, NEW k \in DOMAIN founder \ popped
               PROVE  \/ \E f \in {hotDict, warmDict, coldDict} :
                            k \in DOMAIN f /\ founder[k] \in f[k].account_ids
                      \/ \E t \in Doing("demote_hot") : job[t].key = k /\ job[t].first = founder[k]
    BY DEF FounderKept
  <2>1. Placed(k)
    BY DEF DictInv, FounderPlaced
  <2>2. CASE k \in DOMAIN hotDict /\ hotDict[k].first = founder[k]
    <3>1. hotDict[k].first \in hotDict[k].account_ids
      BY <2>2 DEF DictInv, DictShape, DictLevel
    <3>2. QED
      BY <2>2, <3>1
  <2>3. QED
    BY <2>1, <2>2 DEF Placed, Doing
<1>4. QED
  BY <1>1, <1>2, <1>3, PTL DEF DictSpec

----------------------------------------------------------------------------
(* AdaptiveIndex: a query answers with what was inserted since the last     *)
(* switch of type, since one migration runs at a time and the store it      *)
(* switches to holds only what was stored after it was emptied.             *)

InsertJob == [op : {"adaptive_insert"}, pc : {"store", "stats"}, key : AdaptiveKeys,
              account : AdaptiveIds, type : Types, valid : BOOLEAN]
MigrateJob == [op : {"migrate"}, pc : {"clear", "switch"}, type : Types]
QueryJob == [op : AdaptiveQueries, from : AdaptiveKeys, to : AdaptiveKeys, type : Types,
             result : SUBSET AdaptiveIds, pc : {"read", "answered", "panicked"},
             whole : BOOLEAN, calm : BOOLEAN, due : SUBSET AdaptiveIds]
AdaptiveJob == {NoJob} \cup InsertJob \cup MigrateJob \cup QueryJob

AdaptiveShape ==
    /\ job \in [Workers -> AdaptiveJob]
    /\ index_type \in Types
    /\ stored \in [Stores -> SUBSET (Nat \X AdaptiveIds)]
    /\ stored["btree_index"] \subseteq AdaptiveKeys \X AdaptiveIds
    /\ fresh \subseteq AdaptiveKeys \X AdaptiveIds /\ current \subseteq AdaptiveKeys \X AdaptiveIds

\* A call that no switch overlapped works with the type in use.
ValidNow ==
    \A t \in Workers : job[t].op = "adaptive_insert" /\ job[t].valid => job[t].type = index_type

OneMigration ==
    \A t \in Workers : job[t].op = "migrate" =>
        migrating /\ \A u \in Workers : job[u].op = "migrate" => u = t

\* Whatever the store of a type holds was stored since a store was last emptied.
Backed(y) == \A q \in stored[StoreOf(y)] : \E p \in fresh : q = <<KeyIn(y, p[1]), p[2]>>

\* Whatever counts as inserted since the switch is in the store in use.
CurrentStored == \A p \in current : <<KeyIn(index_type, p[1]), p[2]>> \in stored[StoreOf(index_type)]

TargetBacked ==
    /\ ~migrating => Backed(index_type)
    /\ \A t \in Workers : job[t].op = "migrate" /\ job[t].pc = "switch" => Backed(job[t].type)

\* What a query will find is in the store it is about to read, and what it found is what
\* it promises.
Held(j) == \A a \in j.due : \E q \in stored[StoreOf(j.type)] :
               q[2] = a /\ Matches(j.type, j.from, j.to, q[1])
Own(j) == \A a \in j.result : \E p \in fresh :
              p[2] = a /\ Matches(j.type, j.from, j.to, KeyIn(j.type, p[1]))

QueryFine(j) ==
    j.op \in AdaptiveQueries =>
        /\ j.calm => ~migrating /\ j.type = index_type
        /\ j.pc = "read" /\ j.whole => Held(j)
        /\ j.pc = "answered" /\ j.whole => j.due \subseteq j.result
        /\ j.pc = "answered" /\ j.calm => Own(j)

QueriesFine == \A t \in Workers : QueryFine(job[t])

AdaptiveInv ==
    AdaptiveShape /\ ValidNow /\ OneMigration /\ CurrentStored /\ TargetBacked /\ QueriesFine

LEMMA StoreKinds ==
  /\ \A y \in Types : StoreOf(y) \in Stores
  /\ \A y, z \in Types : StoreOf(y) = StoreOf(z) => \A k : KeyIn(y, k) = KeyIn(z, k)
  /\ \A y \in Types : StoreOf(y) = "btree_index" => \A k : KeyIn(y, k) = k
  /\ \A y \in Types, k \in AdaptiveKeys : KeyIn(y, k) \in Nat
<1>1. \A y \in Types, k \in AdaptiveKeys : KeyIn(y, k) \in Nat
  BY AdaptiveAssumption DEF KeyIn
<1>2. QED
  BY <1>1 DEF Types, Stores, StoreOf, KeyIn

\* A query stays fine while the stores only grow and no migration starts or ends.
LEMMA QueryStays ==
  ASSUME NEW j, QueryFine(j), j \in AdaptiveJob, index_type' = index_type, migrating' = migrating,
         \A r \in Stores : stored[r] \subseteq stored'[r], fresh \subseteq fresh'
  PROVE  QueryFine(j)'
<1> SUFFICES ASSUME j.op \in AdaptiveQueries PROVE QueryFine(j)'
  BY DEF QueryFine
<1>1. j \in QueryJob
  BY DEF AdaptiveJob, NoJob, InsertJob, MigrateJob, AdaptiveQueries
<1>2. StoreOf(j.type) \in Stores
  BY <1>1, StoreKinds DEF QueryJob
<1>3. Held(j) => Held(j)'
  BY <1>2 DEF Held
<1>4. Own(j) => Own(j)'
  BY DEF Own
<1>5. QED
  BY <1>3, <1>4 DEF QueryFine

\* Steps that touch neither the stores nor a migration.
LEMMA AdaptiveReads ==
  ASSUME AdaptiveInv, NEW t \in Workers, UNCHANGED <<index_type, stored, migrating, fresh, current>>,
         job' = [job EXCEPT ![t] = job'[t]], job'[t] \in {NoJob} \cup InsertJob \cup QueryJob,
         job'[t].op = "adaptive_insert" /\ job'[t].valid => job'[t].type = index_type,
         QueryFine(job'[t])
  PROVE  AdaptiveInv'
<1>1. job \in [Workers -> AdaptiveJob]
  BY DEF AdaptiveInv, AdaptiveShape
<1>2. job'[t].op # "migrate" /\ job'[t] \in AdaptiveJob
  BY DEF NoJob, InsertJob, QueryJob, AdaptiveQueries, AdaptiveJob
<1>3. job' \in [Workers -> AdaptiveJob] /\ \A u \in Workers : u # t => job'[u] = job[u]
  BY <1>1, <1>2
<1>4. AdaptiveShape'
  BY <1>3 DEF AdaptiveInv, AdaptiveShape
<1>5. ValidNow'
  BY <1>3 DEF AdaptiveInv, ValidNow
<1>6. OneMigration'
  BY <1>2, <1>3 DEF AdaptiveInv, OneMigration
<1>7. CurrentStored'
  BY DEF AdaptiveInv, CurrentStored
<1>8. TargetBacked'
  BY <1>2, <1>3 DEF AdaptiveInv, TargetBacked, Backed
<1>9. QueriesFine'
  BY <1>3 DEF AdaptiveInv, QueriesFine, QueryFine, Held, Own
<1>10. QED
  BY <1>4, <1>5, <1>6, <1>7, <1>8, <1>9 DEF AdaptiveInv

LEMMA AdaptiveInsertKeeps ==
  ASSUME AdaptiveInv, NEW t \in Workers, NEW k \in AdaptiveKeys, NEW a \in AdaptiveIds,
         AdaptiveInsert(t, k, a)
  PROVE  AdaptiveInv'
<1> DEFINE j == [op |-> "adaptive_insert", pc |-> "store", key |-> k, account |-> a,
                 type |-> index_type, valid |-> TRUE]
<1>1. job \in [Workers -> AdaptiveJob] /\ index_type \in Types
  BY DEF AdaptiveInv, AdaptiveShape
<1>2. job' = [job EXCEPT ![t] = j] /\ UNCHANGED <<index_type, stored, migrating, fresh, current>>
  BY DEF AdaptiveInsert, Begin, adaptiveState
<1>3. j \in InsertJob /\ j.type = index_type
  BY <1>1 DEF InsertJob
<1>4. job'[t] = j
  BY <1>1, <1>2
<1>5. QueryFine(j)
  BY DEF QueryFine, AdaptiveQueries
<1> HIDE DEF j
<1>6. QED
  BY <1>2, <1>3, <1>4, <1>5, AdaptiveReads

LEMMA CountInsertKeeps ==
  ASSUME AdaptiveInv, NEW t \in Workers, CountInsert(t)
  PROVE  AdaptiveInv'
<1>1. job \in [Workers -> AdaptiveJob]
  BY DEF AdaptiveInv, AdaptiveShape
<1>2. job' = [job EXCEPT ![t] = NoJob] /\ UNCHANGED <<index_type, stored, migrating, fresh, current>>
  BY DEF CountInsert, Finish
<1>3. job'[t] = NoJob /\ NoJob.op # "adaptive_insert" /\ QueryFine(NoJob)
  BY <1>1, <1>2 DEF NoJob, QueryFine, AdaptiveQueries
<1>4. QED
  BY <1>2, <1>3, AdaptiveReads

\* A query that starts is due what the store in use has.
LEMMA AskingKeeps ==
  ASSUME AdaptiveInv, NEW t \in Workers, NEW op \in AdaptiveQueries,
         NEW from \in AdaptiveKeys, NEW to \in AdaptiveKeys, op = "query" => from = to,
         Begin(t, Asking(op, from, to)), UNCHANGED adaptiveState
  PROVE  AdaptiveInv'
<1> DEFINE j == Asking(op, from, to)
           none == op = "query_range" /\ StoreOf(index_type) # "btree_index"
<1>1. /\ job \in [Workers -> AdaptiveJob] /\ index_type \in Types
      /\ current \subseteq AdaptiveKeys \X AdaptiveIds
  BY DEF AdaptiveInv, AdaptiveShape
<1>2. job' = [job EXCEPT ![t] = j] /\ UNCHANGED <<index_type, stored, migrating, fresh, current>>
  BY DEF Begin, adaptiveState
<1>3. /\ j.op = op /\ j.from = from /\ j.to = to /\ j.type = index_type /\ j.result = {}
      /\ j.pc = (IF none THEN "answered" ELSE "read") /\ j.whole = TRUE /\ j.calm = ~migrating
      /\ j.due = IF none THEN {} ELSE {p[2] : p \in {q \in current : from <= q[1] /\ q[1] <= to}}
  BY DEF Asking
<1>4. j.due \subseteq AdaptiveIds
  BY <1>1, <1>3
<1>5. j \in QueryJob
  BY <1>1, <1>4 DEF Asking, QueryJob
<1>6. job'[t] = j
  BY <1>1, <1>2
<1>7. QueryFine(j)
  <2>1. j.calm => ~migrating /\ j.type = index_type
    BY <1>3
  <2>2. ASSUME j.pc = "read"
        PROVE  Held(j)
    <3> SUFFICES ASSUME NEW a \in j.due
                 PROVE  \E q \in stored[StoreOf(index_type)] :
                           q[2] = a /\ Matches(index_type, from, to, q[1])
      BY <1>3 DEF Held
    <3>1. ~none
      BY <1>3, <2>2
    <3>2. PICK p \in current : from <= p[1] /\ p[1] <= to /\ p[2] = a
      BY <1>3, <3>1
    <3>3. <<KeyIn(index_type, p[1]), p[2]>> \in stored[StoreOf(index_type)]
      BY <3>2 DEF AdaptiveInv, CurrentStored
    <3>4. p[1] \in AdaptiveKeys
      BY <1>1
    <3>5. Matches(index_type, from, to, KeyIn(index_type, p[1]))
      <4>1. CASE index_type = "Bitmap"
        <5>1. StoreOf(index_type) # "btree_index"
          BY <4>1 DEF StoreOf
        <5>2. op = "query"
          BY <3>1, <5>1 DEF AdaptiveQueries
        <5>3. from = p[1]
          BY <3>2, <3>4, <5>2, AdaptiveAssumption
        <5>4. QED
          BY <4>1, <5>3 DEF Matches
      <4>2. CASE index_type # "Bitmap"
        BY <3>2, <4>2 DEF Matches, KeyIn
      <4>3. QED
        BY <4>1, <4>2
    <3>6. QED
      BY <3>2, <3>3, <3>5
  <2>3. j.pc = "answered" => j.due \subseteq j.result /\ Own(j)
    BY <1>3 DEF Own
  <2>4. QED
    BY <2>1, <2>2, <2>3 DEF QueryFine
<1> HIDE DEF j
<1>8. j.op # "adaptive_insert"
  BY <1>5 DEF QueryJob, AdaptiveQueries
<1>9. QED
  BY <1>2, <1>5, <1>6, <1>7, <1>8, AdaptiveReads

\* What a query finds is what the store holds under its keys.
LEMMA ReadStoreKeeps ==
  ASSUME AdaptiveInv, NEW t \in Workers, ReadStore(t)
  PROVE  AdaptiveInv'
<1> SUFFICES ASSUME NEW y, y = job[t].type, NEW from, from = job[t].from, NEW to, to = job[t].to,
                    NEW found, found = {p[2] : p \in {q \in stored[StoreOf(y)] : Matches(y, from, to, q[1])}}
             PROVE  AdaptiveInv'
  OBVIOUS
<1> DEFINE panicked == [job[t] EXCEPT !.pc = "panicked"]
           answered == [job[t] EXCEPT !.result = found, !.pc = "answered"]
<1>1. /\ job \in [Workers -> AdaptiveJob] /\ job[t] \in AdaptiveJob
      /\ stored \in [Stores -> SUBSET (Nat \X AdaptiveIds)]
  BY DEF AdaptiveInv, AdaptiveShape
<1>2. /\ job[t].op \in AdaptiveQueries /\ job[t].pc = "read"
      /\ \/ job' = [job EXCEPT ![t].pc = "panicked"]
         \/ job' = [job EXCEPT ![t].result = found, ![t].pc = "answered"]
      /\ UNCHANGED <<index_type, stored, migrating, fresh, current>>
  BY DEF ReadStore, adaptiveState
<1>3. job[t] \in QueryJob
  BY <1>1, <1>2 DEF AdaptiveJob, NoJob, InsertJob, MigrateJob, AdaptiveQueries
<1>4. y \in Types /\ StoreOf(y) \in Stores
  BY <1>3, StoreKinds DEF QueryJob
<1>5. found \subseteq AdaptiveIds
  BY <1>1, <1>4
<1>6. QueryFine(job[t])
  BY DEF AdaptiveInv, QueriesFine
<1>7. panicked \in QueryJob /\ answered \in QueryJob
  BY <1>3, <1>5 DEF QueryJob
<1>8. /\ panicked.op = job[t].op /\ panicked.pc = "panicked"
      /\ panicked.calm = job[t].calm /\ panicked.type = y
  BY <1>3 DEF QueryJob
<1>9. /\ answered.op = job[t].op /\ answered.pc = "answered" /\ answered.calm = job[t].calm
      /\ answered.type = y /\ answered.from = from /\ answered.to = to
      /\ answered.result = found /\ answered.due = job[t].due /\ answered.whole = job[t].whole
  BY <1>3 DEF QueryJob
<1>10. QueryFine(panicked)
  BY <1>2, <1>6, <1>8 DEF QueryFine
<1>11. QueryFine(answered)
  <2>1. answered.calm => ~migrating /\ answered.type = index_type
    BY <1>2, <1>6, <1>9 DEF QueryFine
  <2>2. ASSUME answered.whole PROVE answered.due \subseteq answered.result
    <3>1. Held(job[t])
      BY <1>2, <1>6, <1>9, <2>2 DEF QueryFine
    <3>2. ASSUME NEW a \in job[t].due PROVE a \in found
      <4>1. PICK q \in stored[StoreOf(y)] : q[2] = a /\ Matches(y, from, to, q[1])
        BY <3>1, <3>2 DEF Held
      <4>2. QED
        BY <4>1
    <3>3. QED
      BY <1>9, <3>2
  <2>3. ASSUME answered.calm PROVE Own(answered)
    <3>1. ~migrating /\ y = index_type
      BY <1>9, <2>1, <2>3
    <3>2. Backed(index_type)
      BY <3>1 DEF AdaptiveInv, TargetBacked
    <3>3. ASSUME NEW a \in found
          PROVE  \E p \in fresh : p[2] = a /\ Matches(y, from, to, KeyIn(y, p[1]))
      <4>1. PICK q \in stored[StoreOf(y)] : q[2] = a /\ Matches(y, from, to, q[1])
        OBVIOUS
      <4>2. PICK p \in fresh : q = <<KeyIn(y, p[1]), p[2]>>
        BY <3>1, <3>2 DEF Backed
      <4>3. q[1] = KeyIn(y, p[1]) /\ q[2] = p[2]
        BY <4>2
      <4>4. QED
        BY <4>1, <4>3
    <3>4. QED
      BY <1>9, <3>3 DEF Own
  <2>4. QED
    BY <2>1, <2>2, <2>3, <1>9 DEF QueryFine
<1>12. job' = [job EXCEPT ![t] = panicked] \/ job' = [job EXCEPT ![t] = answered]
  BY <1>1, <1>2
<1> HIDE DEF panicked, answered
<1>13. \A j \in QueryJob : j.op # "adaptive_insert"
  BY DEF QueryJob, AdaptiveQueries
<1>14. CASE job' = [job EXCEPT ![t] = panicked]
  <2>1. job'[t] = panicked
    BY <1>1, <1>14
  <2>2. QED
    BY <1>2, <1>7, <1>10, <1>13, <1>14, <2>1, AdaptiveReads
<1>15. CASE job' = [job EXCEPT ![t] = answered]
  <2>1. job'[t] = answered
    BY <1>1, <1>15
  <2>2. QED
    BY <1>2, <1>7, <1>11, <1>13, <1>15, <2>1, AdaptiveReads
<1>16. QED
  BY <1>12, <1>14, <1>15

LEMMA EndQueryKeeps ==
  ASSUME AdaptiveInv, NEW t \in Workers, EndQuery(t)
  PROVE  AdaptiveInv'
<1>1. job \in [Workers -> AdaptiveJob]
  BY DEF AdaptiveInv, AdaptiveShape
<1>2. job' = [job EXCEPT ![t] = NoJob] /\ UNCHANGED <<index_type, stored, migrating, fresh, current>>
  BY DEF EndQuery, Finish
<1>3. job'[t] = NoJob /\ NoJob.op # "adaptive_insert" /\ QueryFine(NoJob)
  BY <1>1, <1>2 DEF NoJob, QueryFine, AdaptiveQueries
<1>4. QED
  BY <1>2, <1>3, AdaptiveReads

LEMMA StoreEntryKeeps ==
  ASSUME AdaptiveInv, NEW t \in Workers, StoreEntry(t)
  PROVE  AdaptiveInv'
<1>1. job \in [Workers -> AdaptiveJob] /\ job[t] \in AdaptiveJob
  BY DEF AdaptiveInv, AdaptiveShape
<1>2. job[t] \in InsertJob
  BY <1>1 DEF StoreEntry, At, AdaptiveJob, NoJob, MigrateJob, QueryJob, AdaptiveQueries
<1>3. SUFFICES ASSUME NEW y, y = job[t].type, NEW k, k = job[t].key, NEW a, a = job[t].account
               PROVE  AdaptiveInv'
  OBVIOUS
<1>4. y \in Types /\ k \in AdaptiveKeys /\ a \in AdaptiveIds
  BY <1>2, <1>3 DEF InsertJob
<1> DEFINE e == <<KeyIn(y, k), a>>
           s == StoreOf(y)
<1>5. /\ stored' = [stored EXCEPT ![s] = @ \cup {e}]
      /\ fresh' = fresh \cup {<<k, a>>}
      /\ current' = IF job[t].valid THEN current \cup {<<k, a>>} ELSE current
      /\ UNCHANGED <<index_type, migrating>>
  BY <1>3 DEF StoreEntry
<1>6. job' = [job EXCEPT ![t] = [job[t] EXCEPT !.pc = "stats"]]
  BY <1>1 DEF StoreEntry, Goto
<1>7. PICK j \in InsertJob : /\ job' = [job EXCEPT ![t] = j] /\ j.op = "adaptive_insert"
                             /\ j.type = y /\ j.valid = job[t].valid
  <2>1. [job[t] EXCEPT !.pc = "stats"] \in InsertJob
    BY <1>2 DEF InsertJob
  <2>2. /\ [job[t] EXCEPT !.pc = "stats"].op = "adaptive_insert"
        /\ [job[t] EXCEPT !.pc = "stats"].type = y
        /\ [job[t] EXCEPT !.pc = "stats"].valid = job[t].valid
    BY <1>2, <1>3 DEF InsertJob
  <2>3. QED
    BY <1>6, <2>1, <2>2
<1>8. job' \in [Workers -> AdaptiveJob] /\ job'[t] = j /\ \A u \in Workers : u # t => job'[u] = job[u]
  BY <1>1, <1>7 DEF AdaptiveJob
<1>9. s \in Stores /\ KeyIn(y, k) \in Nat /\ e \in Nat \X AdaptiveIds
      /\ (s = "btree_index" => e \in AdaptiveKeys \X AdaptiveIds)
  BY <1>4, StoreKinds
<1>10. stored \in [Stores -> SUBSET (Nat \X AdaptiveIds)]
  BY DEF AdaptiveInv, AdaptiveShape
<1> HIDE DEF e, s
<1>11. /\ stored' \in [Stores -> SUBSET (Nat \X AdaptiveIds)]
       /\ stored'[s] = stored[s] \cup {e}
       /\ \A r \in Stores : r # s => stored'[r] = stored[r]
  BY <1>5, <1>9, <1>10
<1>12. stored'["btree_index"] \subseteq AdaptiveKeys \X AdaptiveIds
  BY <1>9, <1>11 DEF AdaptiveInv, AdaptiveShape, Stores
<1>13. AdaptiveShape'
  <2>1. <<k, a>> \in AdaptiveKeys \X AdaptiveIds
    BY <1>4
  <2>2. QED
    BY <1>5, <1>8, <1>11, <1>12, <2>1 DEF AdaptiveInv, AdaptiveShape
<1>14. ValidNow'
  <2>1. job[t].op = "adaptive_insert"
    BY DEF StoreEntry, At
  <2>2. QED
    BY <1>3, <1>5, <1>7, <1>8, <2>1 DEF AdaptiveInv, ValidNow
<1>15. OneMigration'
  BY <1>5, <1>7, <1>8 DEF AdaptiveInv, OneMigration
<1>16. CurrentStored'
  <2> SUFFICES ASSUME NEW p \in current'
               PROVE  <<KeyIn(index_type, p[1]), p[2]>> \in stored'[StoreOf(index_type)]
    BY <1>5 DEF CurrentStored
  <2>1. index_type \in Types /\ StoreOf(index_type) \in Stores
    BY StoreKinds DEF AdaptiveInv, AdaptiveShape
  <2>2. stored[StoreOf(index_type)] \subseteq stored'[StoreOf(index_type)]
    BY <1>11, <2>1
  <2>3. CASE p \in current
    BY <2>2, <2>3 DEF AdaptiveInv, CurrentStored
  <2>4. CASE p \notin current
    <3>1. p = <<k, a>> /\ job[t].valid
      BY <1>5, <2>4
    <3>2. job[t].op = "adaptive_insert"
      BY DEF StoreEntry, At
    <3>3. y = index_type
      BY <1>3, <3>1, <3>2 DEF AdaptiveInv, ValidNow
    <3>4. p[1] = k /\ p[2] = a
      BY <3>1
    <3>5. <<KeyIn(index_type, p[1]), p[2]>> = e /\ s = StoreOf(index_type)
      BY <3>3, <3>4 DEF e, s
    <3>6. QED
      BY <1>11, <3>5
  <2>5. QED
    BY <2>3, <2>4
<1>17. ASSUME NEW z \in Types, Backed(z)
       PROVE  Backed(z)'
  <2> SUFFICES ASSUME NEW q \in stored'[StoreOf(z)]
               PROVE  \E p \in fresh' : q = <<KeyIn(z, p[1]), p[2]>>
    BY DEF Backed
  <2>1. StoreOf(z) \in Stores
    BY StoreKinds
  <2>2. CASE q \in stored[StoreOf(z)]
    BY <1>5, <1>17, <2>2 DEF Backed
  <2>3. CASE q \notin stored[StoreOf(z)]
    <3>1. StoreOf(z) = s /\ q = e
      BY <1>11, <2>1, <2>3
    <3>2. KeyIn(z, k) = KeyIn(y, k)
      BY <1>4, <3>1, StoreKinds DEF s
    <3>3. <<k, a>>[1] = k /\ <<k, a>>[2] = a
      OBVIOUS
    <3>4. q = <<KeyIn(z, <<k, a>>[1]), <<k, a>>[2]>>
      BY <3>1, <3>2, <3>3 DEF e
    <3>5. QED
      BY <1>5, <3>4
  <2>4. QED
    BY <2>2, <2>3
<1>18. TargetBacked'
  <2>1. ~migrating' => Backed(index_type)'
    <3>1. ~migrating => Backed(index_type) /\ index_type \in Types
      BY DEF AdaptiveInv, TargetBacked, AdaptiveShape
    <3>2. ASSUME Backed(index_type), index_type \in Types
          PROVE  Backed(index_type)'
      <4>1. SUFFICES ASSUME NEW z, z = index_type PROVE Backed(index_type)'
        OBVIOUS
      <4>2. Backed(z)'
        BY <1>17, <3>2, <4>1
      <4>3. index_type' = z
        BY <1>5, <4>1
      <4>4. QED
        BY <4>2, <4>3 DEF Backed
    <3>3. QED
      BY <1>5, <3>1, <3>2
  <2>2. ASSUME NEW u \in Workers, job'[u].op = "migrate", job'[u].pc = "switch"
        PROVE  Backed(job[u].type)'
    <3>1. job'[u] = job[u] /\ Backed(job[u].type)
      BY <1>7, <1>8, <2>2 DEF AdaptiveInv, TargetBacked
    <3>2. job[u] \in MigrateJob
      BY <1>1, <2>2, <3>1 DEF AdaptiveJob, NoJob, InsertJob, QueryJob, AdaptiveQueries
    <3>3. SUFFICES ASSUME NEW z, z = job[u].type PROVE Backed(job[u].type)'
      OBVIOUS
    <3>4. z \in Types /\ Backed(z)
      BY <3>1, <3>2, <3>3 DEF MigrateJob, Backed
    <3>5. Backed(z)' /\ job'[u].type = z
      BY <1>17, <3>1, <3>3, <3>4
    <3>6. QED
      BY <3>5 DEF Backed
  <2>3. QED
    BY <2>1, <2>2 DEF TargetBacked
<1>19. QueriesFine'
  <2> SUFFICES ASSUME NEW u \in Workers PROVE QueryFine(job[u])'
    BY DEF QueriesFine
  <2>1. CASE u = t
    <3>1. job'[u] = j /\ j.op \notin AdaptiveQueries
      BY <1>7, <1>8, <2>1 DEF AdaptiveQueries
    <3>2. QED
      BY <3>1 DEF QueryFine
  <2>2. CASE u # t
    <3> SUFFICES ASSUME NEW c, c = job[u] PROVE QueryFine(job[u])'
      OBVIOUS
    <3>1. job'[u] = c /\ c \in AdaptiveJob /\ QueryFine(c)
      BY <1>1, <1>8, <2>2 DEF AdaptiveInv, QueriesFine
    <3>2. \A r \in Stores : stored[r] \subseteq stored'[r]
      BY <1>11
    <3>3. QueryFine(c)'
      BY <1>5, <3>1, <3>2, QueryStays
    <3>4. QED
      BY <3>1, <3>3 DEF QueryFine, Held, Own
  <2>3. QED
    BY <2>1, <2>2
<1>20. QED
  BY <1>13, <1>14, <1>15, <1>16, <1>18, <1>19 DEF AdaptiveInv

\* A migration tells the queries that run.
LEMMA MigrateToKeeps ==
  ASSUME AdaptiveInv, NEW t \in Workers, NEW y \in Types, MigrateTo(t, y)
  PROVE  AdaptiveInv'
<1> DEFINE j == [op |-> "migrate", pc |-> "clear", type |-> y]
<1>1. job \in [Workers -> AdaptiveJob]
  BY DEF AdaptiveInv, AdaptiveShape
<1>2. /\ job' = [u \in Workers |->
                   IF u = t THEN j
                   ELSE IF job[u].op \in AdaptiveQueries THEN [job[u] EXCEPT !.calm = FALSE]
                   ELSE job[u]]
      /\ ~migrating /\ migrating' = TRUE
      /\ UNCHANGED <<index_type, stored, fresh, current>>
  BY DEF MigrateTo
<1>3. j \in MigrateJob /\ j.op = "migrate" /\ j.pc = "clear"
  BY DEF MigrateJob
<1> HIDE DEF j
<1>4. job'[t] = j
  BY <1>2
<1>5. ASSUME NEW u \in Workers, u # t
      PROVE  /\ job'[u] \in AdaptiveJob /\ job'[u].op = job[u].op
             /\ job[u].op \notin AdaptiveQueries => job'[u] = job[u]
             /\ QueryFine(job[u])'
  <2>1. CASE job[u].op \notin AdaptiveQueries
    BY <1>1, <1>2, <1>5, <2>1 DEF QueryFine
  <2>2. CASE job[u].op \in AdaptiveQueries
    <3> SUFFICES ASSUME NEW c, c = [job[u] EXCEPT !.calm = FALSE], job'[u] = c
                 PROVE  c \in AdaptiveJob /\ c.op = job[u].op /\ QueryFine(c)'
      BY <1>2, <1>5, <2>2 DEF QueryFine, Held, Own
    <3>1. job[u] \in QueryJob
      BY <1>1, <2>2 DEF AdaptiveJob, NoJob, InsertJob, MigrateJob, AdaptiveQueries
    <3>2. /\ c \in QueryJob /\ c.op = job[u].op /\ c.calm = FALSE /\ c.pc = job[u].pc
          /\ c.whole = job[u].whole /\ c.due = job[u].due /\ c.result = job[u].result
          /\ c.type = job[u].type /\ c.from = job[u].from /\ c.to = job[u].to
      BY <3>1 DEF QueryJob
    <3>3. QueryFine(job[u])
      BY DEF AdaptiveInv, QueriesFine
    <3>4. Held(job[u]) => Held(c)'
      BY <1>2, <3>2 DEF Held
    <3>5. QueryFine(c)'
      BY <2>2, <3>2, <3>3, <3>4 DEF QueryFine
    <3>6. QED
      BY <3>2, <3>5 DEF AdaptiveJob
  <2>3. QED
    BY <2>1, <2>2
<1>6. job' \in [Workers -> AdaptiveJob]
  <2>1. \A u \in Workers : job'[u] \in AdaptiveJob
    BY <1>3, <1>4, <1>5 DEF AdaptiveJob
  <2>2. \E f : job' = [u \in Workers |-> f[u]]
    <3>1. job' = [u \in Workers |-> job'[u]]
      BY <1>2
    <3>2. QED
      BY <3>1
  <2>3. QED
    BY <2>1, <2>2
<1>7. \A u \in Workers : job[u].op # "migrate"
  BY <1>2 DEF AdaptiveInv, OneMigration
<1>8. AdaptiveShape'
  BY <1>2, <1>6 DEF AdaptiveInv, AdaptiveShape
<1>9. ValidNow'
  BY <1>2, <1>3, <1>4, <1>5 DEF AdaptiveInv, ValidNow, AdaptiveQueries
<1>10. OneMigration'
  BY <1>2, <1>4, <1>5, <1>7 DEF OneMigration
<1>11. CurrentStored'
  BY <1>2 DEF AdaptiveInv, CurrentStored
<1>12. TargetBacked'
  BY <1>2, <1>3, <1>4, <1>5, <1>7 DEF TargetBacked
<1>13. QueriesFine'
  <2> SUFFICES ASSUME NEW u \in Workers PROVE QueryFine(job[u])'
    BY DEF QueriesFine
  <2>1. CASE u = t
    BY <1>3, <1>4, <2>1 DEF QueryFine, AdaptiveQueries
  <2>2. QED
    BY <1>5, <2>1
<1>14. QED
  BY <1>8, <1>9, <1>10, <1>11, <1>12, <1>13 DEF AdaptiveInv

LEMMA AdaptKeeps ==
  ASSUME AdaptiveInv, NEW t \in Workers, Adapt(t)
  PROVE  AdaptiveInv'
<1>1. evaluate_migration \subseteq Types
  BY DEF evaluate_migration, Types
<1>2. QED
  BY <1>1, MigrateToKeeps DEF Adapt

LEMMA ClearTargetKeeps ==
  ASSUME AdaptiveInv, NEW t \in Workers, ClearTarget(t)
  PROVE  AdaptiveInv'
<1>1. job \in [Workers -> AdaptiveJob] /\ job[t] \in AdaptiveJob /\ job[t].op = "migrate"
  BY DEF AdaptiveInv, AdaptiveShape, ClearTarget, At
<1>2. job[t] \in MigrateJob
  BY <1>1 DEF AdaptiveJob, NoJob, InsertJob, QueryJob, AdaptiveQueries
<1>3. migrating /\ \A u \in Workers : job[u].op = "migrate" => u = t
  BY <1>1 DEF AdaptiveInv, OneMigration
<1>4. SUFFICES ASSUME NEW y, y = job[t].type PROVE AdaptiveInv'
  OBVIOUS
<1>5. y \in Types /\ StoreOf(y) \in Stores
  BY <1>2, <1>4, StoreKinds DEF MigrateJob
<1>6. /\ stored' = [stored EXCEPT ![StoreOf(y)] = {}] /\ fresh' = {}
      /\ current' = IF StoreOf(y) = StoreOf(index_type) THEN {} ELSE current
      /\ UNCHANGED <<index_type, migrating>>
  BY <1>4 DEF ClearTarget
<1>7. job' = [u \in Workers |->
                IF u = t THEN [job[t] EXCEPT !.pc = "switch"]
                ELSE IF job[u].op \in AdaptiveQueries /\ StoreOf(job[u].type) = StoreOf(y)
                  THEN [job[u] EXCEPT !.whole = FALSE]
                ELSE job[u]]
  BY <1>4 DEF ClearTarget
<1>17. PICK j \in MigrateJob : job'[t] = j /\ j.op = "migrate" /\ j.type = y
  <2>1. job'[t] = [job[t] EXCEPT !.pc = "switch"]
    BY <1>7
  <2>2. /\ [job[t] EXCEPT !.pc = "switch"] \in MigrateJob
        /\ [job[t] EXCEPT !.pc = "switch"].op = "migrate"
        /\ [job[t] EXCEPT !.pc = "switch"].type = y
    BY <1>2, <1>4 DEF MigrateJob
  <2>3. QED
    BY <2>1, <2>2
<1>9. stored \in [Stores -> SUBSET (Nat \X AdaptiveIds)] /\ index_type \in Types
  BY DEF AdaptiveInv, AdaptiveShape
<1>10. /\ stored' \in [Stores -> SUBSET (Nat \X AdaptiveIds)] /\ stored'[StoreOf(y)] = {}
       /\ \A r \in Stores : r # StoreOf(y) => stored'[r] = stored[r]
  BY <1>5, <1>6, <1>9
<1>18. ASSUME NEW u \in Workers, u # t
       PROVE  /\ job'[u] \in AdaptiveJob /\ job'[u].op = job[u].op
              /\ job[u].op \notin AdaptiveQueries => job'[u] = job[u]
              /\ QueryFine(job[u])'
  <2>1. CASE job[u].op \notin AdaptiveQueries
    BY <1>1, <1>7, <1>18, <2>1 DEF QueryFine
  <2>2. CASE job[u].op \in AdaptiveQueries
    <3> SUFFICES ASSUME NEW c, c = job'[u]
                 PROVE  c \in AdaptiveJob /\ c.op = job[u].op /\ QueryFine(c)'
      BY <2>2 DEF QueryFine, Held, Own
    <3>1. job[u] \in QueryJob
      BY <1>1, <2>2 DEF AdaptiveJob, NoJob, InsertJob, MigrateJob, AdaptiveQueries
    <3>2. StoreOf(job[u].type) \in Stores
      BY <3>1, StoreKinds DEF QueryJob
    <3>3. QueryFine(job[u]) /\ migrating /\ job[u].calm \in BOOLEAN
      BY <1>3, <3>1 DEF AdaptiveInv, QueriesFine, QueryJob
    <3>4. job[u].calm = FALSE
      BY <2>2, <3>3 DEF QueryFine
    <3>5. /\ c \in QueryJob /\ c.op = job[u].op /\ c.calm = FALSE /\ c.pc = job[u].pc
          /\ c.due = job[u].due /\ c.result = job[u].result
          /\ c.type = job[u].type /\ c.from = job[u].from /\ c.to = job[u].to
          /\ IF StoreOf(job[u].type) = StoreOf(y) THEN c.whole = FALSE ELSE c.whole = job[u].whole
      <4>1. CASE StoreOf(job[u].type) = StoreOf(y)
        <5>1. c = [job[u] EXCEPT !.whole = FALSE]
          BY <1>7, <1>18, <2>2, <4>1
        <5>2. QED
          BY <3>1, <3>4, <4>1, <5>1 DEF QueryJob
      <4>2. CASE StoreOf(job[u].type) # StoreOf(y)
        <5>1. c = job[u]
          BY <1>7, <1>18, <2>2, <4>2
        <5>2. QED
          BY <3>1, <3>4, <4>2, <5>1
      <4>3. QED
        BY <4>1, <4>2
    <3>6. c.whole => job[u].whole /\ (Held(job[u]) => Held(c)')
      <4>1. CASE StoreOf(job[u].type) = StoreOf(y)
        BY <3>5, <4>1
      <4>2. CASE StoreOf(job[u].type) # StoreOf(y)
        <5>1. stored'[StoreOf(job[u].type)] = stored[StoreOf(job[u].type)]
          BY <1>10, <3>2, <4>2
        <5>2. Held(job[u]) => Held(c)'
          BY <3>5, <5>1 DEF Held
        <5>3. c.whole => job[u].whole
          BY <3>5, <4>2
        <5>4. QED
          BY <5>2, <5>3
      <4>3. QED
        BY <4>1, <4>2
    <3>7. QueryFine(c)'
      BY <2>2, <3>3, <3>5, <3>6 DEF QueryFine
    <3>8. QED
      BY <3>5, <3>7 DEF AdaptiveJob
  <2>3. QED
    BY <2>1, <2>2
<1>8. job' \in [Workers -> AdaptiveJob]
  <2>1. \A u \in Workers : job'[u] \in AdaptiveJob
    BY <1>17, <1>18 DEF AdaptiveJob
  <2>2. \E f : job' = [u \in Workers |-> f[u]]
    <3>1. job' = [u \in Workers |-> job'[u]]
      BY <1>7
    <3>2. QED
      BY <3>1
  <2>3. QED
    BY <2>1, <2>2
<1>11. AdaptiveShape'
  BY <1>6, <1>8, <1>10 DEF AdaptiveInv, AdaptiveShape, Stores
<1>12. ValidNow'
  BY <1>6, <1>17, <1>18 DEF AdaptiveInv, ValidNow, AdaptiveQueries
<1>13. OneMigration'
  BY <1>3, <1>6, <1>17, <1>18 DEF OneMigration
<1>14. CurrentStored'
  <2> SUFFICES ASSUME NEW p \in current'
               PROVE  <<KeyIn(index_type, p[1]), p[2]>> \in stored'[StoreOf(index_type)]
    BY <1>6 DEF CurrentStored
  <2>1. p \in current /\ StoreOf(index_type) # StoreOf(y) /\ StoreOf(index_type) \in Stores
    BY <1>6, <1>9, StoreKinds
  <2>2. stored'[StoreOf(index_type)] = stored[StoreOf(index_type)]
    BY <1>10, <2>1
  <2>3. QED
    BY <2>1, <2>2 DEF AdaptiveInv, CurrentStored
<1>15. TargetBacked'
  <2>1. ASSUME NEW u \in Workers, job'[u].op = "migrate"
        PROVE  Backed(job[u].type)'
    <3>1. u = t
      BY <1>3, <1>18, <2>1
    <3>2. stored'[StoreOf(job'[u].type)] = {}
      BY <1>10, <1>17, <3>1
    <3>3. QED
      BY <3>2 DEF Backed
  <2>2. migrating'
    BY <1>3, <1>6
  <2>3. QED
    BY <2>1, <2>2 DEF TargetBacked
<1>16. QueriesFine'
  <2> SUFFICES ASSUME NEW u \in Workers PROVE QueryFine(job[u])'
    BY DEF QueriesFine
  <2>1. CASE u = t
    BY <1>17, <2>1 DEF QueryFine, AdaptiveQueries
  <2>2. QED
    BY <1>18, <2>1
<1>19. QED
  BY <1>11, <1>12, <1>13, <1>14, <1>15, <1>16 DEF AdaptiveInv

LEMMA SwitchTypeKeeps ==
  ASSUME AdaptiveInv, NEW t \in Workers, SwitchType(t)
  PROVE  AdaptiveInv'
<1>1. /\ job \in [Workers -> AdaptiveJob] /\ job[t] \in AdaptiveJob
      /\ job[t].op = "migrate" /\ job[t].pc = "switch"
  BY DEF AdaptiveInv, AdaptiveShape, SwitchType, At
<1>2. job[t] \in MigrateJob
  BY <1>1 DEF AdaptiveJob, NoJob, InsertJob, QueryJob, AdaptiveQueries
<1>3. /\ index_type' = job[t].type /\ migrating' = FALSE /\ current' = {}
      /\ UNCHANGED <<stored, fresh>>
  BY DEF SwitchType
<1>4. Backed(job[t].type)
  BY <1>1 DEF AdaptiveInv, TargetBacked
<1>5. ASSUME NEW u \in Workers
      PROVE  /\ job'[u] \in AdaptiveJob /\ job'[u].op # "migrate"
             /\ job'[u].op = "adaptive_insert" => job'[u].valid = FALSE
  <2>1. CASE u = t
    <3>1. job'[u] = NoJob
      BY <2>1 DEF SwitchType
    <3>2. QED
      BY <3>1 DEF NoJob, AdaptiveJob
  <2>2. CASE u # t /\ job[u].op = "adaptive_insert"
    <3>1. job'[u] = [job[u] EXCEPT !.valid = FALSE]
      BY <2>2 DEF SwitchType
    <3>2. job[u] \in InsertJob
      BY <1>1, <2>2 DEF AdaptiveJob, NoJob, MigrateJob, QueryJob, AdaptiveQueries
    <3>3. job'[u] \in InsertJob /\ job'[u].valid = FALSE
      BY <3>1, <3>2 DEF InsertJob
    <3>4. QED
      BY <3>3 DEF AdaptiveJob, InsertJob
  <2>3. CASE u # t /\ job[u].op # "adaptive_insert"
    <3>1. job'[u] = job[u] /\ job[u] \in AdaptiveJob
      BY <1>1, <2>3 DEF SwitchType
    <3>2. job[u].op # "migrate"
      BY <1>1, <2>3 DEF AdaptiveInv, OneMigration
    <3>3. QED
      BY <2>3, <3>1, <3>2
  <2>4. QED
    BY <2>1, <2>2, <2>3
<1>6. job' \in [Workers -> AdaptiveJob]
  <2>1. \E f : job' = [u \in Workers |-> f[u]]
    <3>1. job' = [u \in Workers |-> job'[u]]
      BY DEF SwitchType
    <3>2. QED
      BY <3>1
  <2>2. QED
    BY <1>5, <2>1
<1>7. AdaptiveShape'
  BY <1>2, <1>3, <1>6 DEF AdaptiveInv, AdaptiveShape, MigrateJob
<1>8. ValidNow'
  BY <1>5 DEF ValidNow
<1>9. OneMigration'
  BY <1>5 DEF OneMigration
<1>10. CurrentStored'
  BY <1>3 DEF CurrentStored
<1>11. TargetBacked'
  BY <1>3, <1>4, <1>5 DEF TargetBacked, Backed
<1>12. QueriesFine'
  <2> SUFFICES ASSUME NEW u \in Workers, job'[u].op \in AdaptiveQueries PROVE QueryFine(job[u])'
    BY DEF QueriesFine, QueryFine
  <2>1. job'[u] = job[u]
    <3>1. u # t
      BY DEF SwitchType, NoJob, AdaptiveQueries
    <3>2. job[u].op # "adaptive_insert"
      <4>1. CASE job[u].op = "adaptive_insert"
        <5>1. job'[u] = [job[u] EXCEPT !.valid = FALSE]
          BY <3>1, <4>1 DEF SwitchType
        <5>2. job[u] \in InsertJob
          BY <1>1, <4>1 DEF AdaptiveJob, NoJob, MigrateJob, QueryJob, AdaptiveQueries
        <5>3. job'[u].op = "adaptive_insert"
          BY <5>1, <5>2 DEF InsertJob
        <5>4. QED
          BY <5>3 DEF AdaptiveQueries
      <4>2. QED
        BY <4>1
    <3>3. QED
      BY <3>1, <3>2 DEF SwitchType
  <2> SUFFICES ASSUME NEW c, c = job[u] PROVE QueryFine(c)'
    BY <2>1
  <2>2. QueryFine(c) /\ migrating /\ c \in QueryJob
    BY <1>1, <2>1 DEF AdaptiveInv, QueriesFine, OneMigration, AdaptiveJob, NoJob, InsertJob,
                      MigrateJob, AdaptiveQueries
  <2>3. ~c.calm
    BY <2>1, <2>2 DEF QueryFine
  <2>4. Held(c) => Held(c)'
    BY <1>3 DEF Held
  <2>5. QED
    BY <2>1, <2>2, <2>3, <2>4 DEF QueryFine
<1>13. QED
  BY <1>7, <1>8, <1>9, <1>10, <1>11, <1>12 DEF AdaptiveInv

LEMMA AdaptiveInvKept == AdaptiveInv /\ [AdaptiveNext]_adaptiveVars => AdaptiveInv'
<1> SUFFICES ASSUME AdaptiveInv, [AdaptiveNext]_adaptiveVars PROVE AdaptiveInv'
  OBVIOUS
<1>1. CASE UNCHANGED adaptiveVars
  BY <1>1 DEF adaptiveVars, adaptiveState, AdaptiveInv, AdaptiveShape, ValidNow, OneMigration,
              CurrentStored, TargetBacked, Backed, QueriesFine, QueryFine, Held, Own
<1>2. ASSUME NEW t \in Workers, NEW k \in AdaptiveKeys, NEW a \in AdaptiveIds,
             AdaptiveInsert(t, k, a)
      PROVE  AdaptiveInv'
  BY <1>2, AdaptiveInsertKeeps
<1>3. ASSUME NEW t \in Workers, NEW y \in Types, MigrateTo(t, y)
      PROVE  AdaptiveInv'
  BY <1>3, MigrateToKeeps
<1>4. ASSUME NEW t \in Workers, NEW k \in AdaptiveKeys, Query(t, k)
      PROVE  AdaptiveInv'
  <2>1. "query" \in AdaptiveQueries /\ "query_range" \in AdaptiveQueries
    BY DEF AdaptiveQueries
  <2>2. QED
    BY <1>4, <2>1, AskingKeeps DEF Query
<1>5. ASSUME NEW t \in Workers, NEW k \in AdaptiveKeys, NEW l \in AdaptiveKeys, query_range(t, k, l)
      PROVE  AdaptiveInv'
  <2>1. "query_range" \in AdaptiveQueries /\ "query_range" # "query"
    BY DEF AdaptiveQueries
  <2>2. QED
    BY <1>5, <2>1, AskingKeeps DEF query_range
<1>6. QED
  BY <1>1, <1>2, <1>3, <1>4, <1>5, StoreEntryKeeps, CountInsertKeeps, ReadStoreKeeps,
     EndQueryKeeps, AdaptKeeps, ClearTargetKeeps, SwitchTypeKeeps DEF AdaptiveNext

\* adaptive_index.rs: a query finds what was inserted under its keys since the last switch of
\* type, unless a migration emptied the store it reads, and, when no migration overlaps it,
\* nothing that an earlier use of the store left behind.
THEOREM AdaptiveAnswers == AdaptiveSpec => []AnswersSinceSwitch
<1>1. AdaptiveInit => AdaptiveInv
  <2> SUFFICES ASSUME AdaptiveInit PROVE AdaptiveInv
    OBVIOUS
  <2>1. /\ job = [t \in Workers |-> NoJob] /\ index_type = "Bitmap" /\ fresh = {} /\ current = {}
        /\ stored = [s \in Stores |-> {}]
    BY DEF AdaptiveInit, JobsInit
  <2>2. AdaptiveShape
    BY <2>1 DEF AdaptiveShape, AdaptiveJob, Types, Stores
  <2>3. \A t \in Workers : job[t].op = "idle"
    BY <2>1 DEF NoJob
  <2>4. stored[StoreOf(index_type)] = {}
    BY <2>1, StoreKinds DEF Types
  <2>5. QED
    BY <2>1, <2>2, <2>3, <2>4
       DEF AdaptiveInv, ValidNow, OneMigration, CurrentStored, TargetBacked, Backed,
           QueriesFine, QueryFine, AdaptiveQueries
<1>2. AdaptiveInv /\ [AdaptiveNext]_adaptiveVars => AdaptiveInv'
  BY AdaptiveInvKept
<1>3. AdaptiveInv => AnswersSinceSwitch
  BY DEF AdaptiveInv, QueriesFine, QueryFine, Own, AnswersSinceSwitch
<1>4. QED
  BY <1>1, <1>2, <1>3, PTL DEF AdaptiveSpec

----------------------------------------------------------------------------
(* SharedMemory: the name of a region that one call created keeps a file    *)
(* that begins with the magic number, whatever is written through mappings. *)

CellValues == Nat \cup Results
Cell == {"SHME", "sizes", "slot", "data"} \X CellValues
File == {f \in [1 .. Capacity -> Cell] : f[1][1] = "SHME"}
Header == {h \in [1 .. HeaderCells -> Cell] : h[1][1] = "SHME"}
Region == [file : Nat, header : Header \cup {<<>>}]

RegionJob == [op : {"get_region"}, pc : {"open", "create", "insert"}, name : RegionNames]

ShmShape ==
    /\ job \in [Workers -> {NoJob} \cup RegionJob]
    /\ inodes \in Seq(File)
    /\ DOMAIN paths \subseteq RegionNames /\ \A n \in DOMAIN paths : paths[n] \in 1 .. Len(inodes)
    /\ regions \subseteq RegionNames
    /\ region \in [Workers -> Region]
    /\ \A t \in Workers : region[t] # NoRegion =>
          region[t].file \in 1 .. Len(inodes) /\ region[t].header \in Header

LEMMA CellKeepsTag ==
  ASSUME NEW c \in Cell, NEW v \in CellValues
  PROVE  [c EXCEPT ![2] = v] \in Cell /\ [c EXCEPT ![2] = v][1] = c[1]
  BY DEF Cell

LEMMA NewHeader == SharedMemHeader(0, 0) \in Header
  BY SharedMemoryAssumption DEF SharedMemHeader, Header, HeaderCells, Cell, CellValues, Zero

LEMMA HeaderOfFile ==
  ASSUME NEW f \in File
  PROVE  SubSeq(f, 1, HeaderCells) \in Header
<1>1. f \in Seq(Cell) /\ Len(f) = Capacity /\ Capacity \in Nat /\ 5 =< Capacity
  BY SharedMemoryAssumption DEF File, HeaderCells
<1>2. /\ SubSeq(f, 1, 5) \in Seq(Cell) /\ Len(SubSeq(f, 1, 5)) = 5
      /\ \A i \in 1 .. 5 : SubSeq(f, 1, 5)[i] = f[i]
  BY <1>1
<1>3. SubSeq(f, 1, 5) \in [1 .. 5 -> Cell]
  <2>1. \A s \in Seq(Cell) : s \in [1 .. Len(s) -> Cell]
    OBVIOUS
  <2>2. QED
    BY <1>2, <2>1
<1>4. SubSeq(f, 1, 5)[1] = f[1]
  BY <1>2
<1>5. QED
  BY <1>3, <1>4 DEF File, Header, HeaderCells

LEMMA HeaderUpdated ==
  ASSUME NEW h \in Header, NEW c \in Counts, NEW s \in Counts
  PROVE  [h EXCEPT ![1][2] = c, ![3][2] = s] \in Header
  BY SharedMemoryAssumption DEF Header, HeaderCells, Cell, CellValues

\* A name that no two calls created at once has one maker, which finds it unregistered and
\* registers it once its file is there; removals take name and file together.
OneMaker(n) ==
    /\ \A t, u \in MakingRegion(n) : t = u
    /\ \A t \in MakingRegion(n) : n \notin regions /\ (job[t].pc = "insert" => n \in DOMAIN paths)
    /\ n \in regions => n \in DOMAIN paths

NamesInv == \A n \in RegionNames \ doubled : OneMaker(n)

ShmInv == ShmShape /\ NamesInv

\* Steps that only write through a mapping or give it up.
LEMMA NamesStay ==
  ASSUME NamesInv, UNCHANGED <<paths, regions, doubled, job>>
  PROVE  NamesInv'
  BY DEF NamesInv, OneMaker, MakingRegion

LEMMA GetRegionKeeps ==
  ASSUME ShmInv, NEW t \in Workers, NEW n \in RegionNames, GetRegion(t, n)
  PROVE  ShmInv'
<1> DEFINE pc == IF n \in regions THEN "open" ELSE "create"
           j == [op |-> "get_region", pc |-> pc, name |-> n]
<1>1. job \in [Workers -> {NoJob} \cup RegionJob] /\ job[t].op = "idle"
  BY DEF ShmInv, ShmShape, GetRegion, Begin
<1>2. /\ job' = [job EXCEPT ![t] = j]
      /\ doubled' = IF n \notin regions /\ MakingRegion(n) # {} THEN doubled \cup {n} ELSE doubled
      /\ UNCHANGED <<inodes, paths, regions, region>>
  BY DEF GetRegion, Begin
<1>3. j \in RegionJob /\ j.name = n /\ j.pc = pc /\ j.op = "get_region"
  BY DEF RegionJob
<1>4. (pc = "open" /\ n \in regions) \/ (pc = "create" /\ n \notin regions)
  OBVIOUS
<1> HIDE DEF j, pc
<1>5. /\ job' \in [Workers -> {NoJob} \cup RegionJob] /\ job'[t] = j
      /\ \A u \in Workers : u # t => job'[u] = job[u]
  BY <1>1, <1>2, <1>3
<1>6. ShmShape'
  BY <1>2, <1>5 DEF ShmInv, ShmShape
<1>7. ASSUME NEW m \in RegionNames \ doubled'
      PROVE  OneMaker(m)'
  <2>1. OneMaker(m)
    BY <1>2 DEF ShmInv, NamesInv
  <2>2. CASE m # n \/ n \in regions
    <3>1. MakingRegion(m)' = MakingRegion(m) /\ t \notin MakingRegion(m)
      BY <1>1, <1>3, <1>4, <1>5, <2>2 DEF MakingRegion
    <3>2. \A u \in MakingRegion(m) : job'[u] = job[u]
      BY <1>5, <3>1 DEF MakingRegion
    <3>3. QED
      BY <1>2, <2>1, <3>1, <3>2 DEF OneMaker
  <2>3. CASE m = n /\ n \notin regions
    <3>1. MakingRegion(n) = {}
      BY <1>2, <2>3
    <3>2. \A u \in MakingRegion(n)' : u = t
      BY <1>5, <3>1 DEF MakingRegion
    <3>3. job'[t].pc = "create"
      BY <1>3, <1>4, <1>5, <2>3
    <3>4. QED
      BY <1>2, <2>3, <3>2, <3>3 DEF OneMaker
  <2>4. QED
    BY <2>2, <2>3
<1>8. QED
  BY <1>6, <1>7 DEF ShmInv, NamesInv

LEMMA OpenRegionKeeps ==
  ASSUME ShmInv, NEW t \in Workers, OpenRegion(t)
  PROVE  ShmInv'
<1>1. /\ job \in [Workers -> {NoJob} \cup RegionJob] /\ job[t].pc = "open"
      /\ inodes \in Seq(File) /\ region \in [Workers -> Region]
  BY DEF ShmInv, ShmShape, OpenRegion, At
<1>2. job' = [job EXCEPT ![t] = NoJob] /\ UNCHANGED <<inodes, paths, regions, doubled>>
  BY DEF OpenRegion, Finish
<1>3. /\ job' \in [Workers -> {NoJob} \cup RegionJob] /\ job'[t] = NoJob
      /\ \A u \in Workers : u # t => job'[u] = job[u]
  BY <1>1, <1>2
<1>4. SUFFICES ASSUME NEW n, n = job[t].name PROVE ShmInv'
  OBVIOUS
<1>5. CASE region' = region
  <2>1. ShmShape'
    BY <1>2, <1>3, <1>5 DEF ShmInv, ShmShape
  <2>2. QED
    BY <1>1, <1>2, <1>3, <2>1 DEF ShmInv, NamesInv, OneMaker, MakingRegion, NoJob
<1>6. CASE n \in DOMAIN paths /\ region' = [region EXCEPT ![t] =
              [file |-> paths[n], header |-> SubSeq(inodes[paths[n]], 1, HeaderCells)]]
  <2> DEFINE r == [file |-> paths[n], header |-> SubSeq(inodes[paths[n]], 1, HeaderCells)]
  <2>1. paths[n] \in 1 .. Len(inodes)
    BY <1>6 DEF ShmInv, ShmShape
  <2>2. paths[n] \in Nat /\ inodes[paths[n]] \in File
    BY <1>1, <2>1
  <2>3. SubSeq(inodes[paths[n]], 1, HeaderCells) \in Header
    BY <2>2, HeaderOfFile
  <2>4. r \in Region /\ r.file \in 1 .. Len(inodes) /\ r.header \in Header
    BY <2>1, <2>2, <2>3 DEF Region
  <2>5. region' = [region EXCEPT ![t] = r]
    BY <1>6
  <2> HIDE DEF r
  <2>6. region' \in [Workers -> Region] /\ region'[t] = r /\ \A u \in Workers : u # t => region'[u] = region[u]
    BY <1>1, <2>4, <2>5
  <2>7. ShmShape'
    BY <1>2, <1>3, <2>4, <2>6 DEF ShmInv, ShmShape
  <2>8. QED
    BY <1>1, <1>2, <1>3, <2>7 DEF ShmInv, NamesInv, OneMaker, MakingRegion, NoJob
<1>7. QED
  BY <1>4, <1>5, <1>6 DEF OpenRegion

LEMMA CreateRegionKeeps ==
  ASSUME ShmInv, NEW t \in Workers, CreateRegion(t)
  PROVE  ShmInv'
<1>1. /\ job \in [Workers -> {NoJob} \cup RegionJob]
      /\ inodes \in Seq(File) /\ region \in [Workers -> Region]
  BY DEF ShmInv, ShmShape
<1>2. job[t] \in RegionJob /\ job[t].op = "get_region" /\ job[t].pc = "create"
  BY <1>1 DEF CreateRegion, At, NoJob
<1>3. SUFFICES ASSUME NEW n, n = job[t].name,
                      NEW i, i = IF n \in DOMAIN paths THEN paths[n] ELSE Len(inodes) + 1
               PROVE  ShmInv'
  OBVIOUS
<1>4. n \in RegionNames
  BY <1>2, <1>3 DEF RegionJob
<1> DEFINE header == SharedMemHeader(0, 0)
           cells == [c \in 1 .. Capacity |-> IF c <= HeaderCells THEN header[c] ELSE Zero]
           r == [file |-> i, header |-> header]
<1>5. /\ inodes' = IF i \in DOMAIN inodes THEN [inodes EXCEPT ![i] = cells] ELSE Append(inodes, cells)
      /\ paths' = Put(paths, n, i)
      /\ region' = [region EXCEPT ![t] = r]
      /\ UNCHANGED <<regions, doubled>>
  BY <1>3 DEF CreateRegion
<1>6. header \in Header
  BY NewHeader
<1>7. cells \in File
  <2> HIDE DEF header
  <2>1. header \in [1 .. 5 -> Cell] /\ header[1][1] = "SHME" /\ Zero \in Cell
    BY <1>6 DEF Header, HeaderCells, Zero, Cell, CellValues
  <2>2. Capacity \in Nat /\ 5 =< Capacity
    BY SharedMemoryAssumption DEF HeaderCells
  <2>3. cells \in [1 .. Capacity -> Cell]
    <3>1. ASSUME NEW c \in 1 .. Capacity PROVE (IF c <= 5 THEN header[c] ELSE Zero) \in Cell
      BY <2>1, <2>2
    <3>2. QED
      BY <3>1 DEF HeaderCells
  <2>4. cells[1] = header[1]
    BY <2>2 DEF HeaderCells
  <2>5. QED
    BY <2>1, <2>3, <2>4 DEF File
<1>8. i \in 1 .. Len(inodes) + 1 /\ (i \notin DOMAIN inodes => i = Len(inodes) + 1)
  BY <1>1, <1>3 DEF ShmInv, ShmShape
<1> HIDE DEF header, cells
<1>9. inodes' \in Seq(File) /\ Len(inodes') \in Nat /\ Len(inodes) =< Len(inodes') /\ i \in 1 .. Len(inodes')
  <2>1. CASE i \in DOMAIN inodes
    BY <1>1, <1>5, <1>7, <2>1
  <2>2. CASE i \notin DOMAIN inodes
    BY <1>1, <1>5, <1>7, <1>8, <2>2
  <2>3. QED
    BY <2>1, <2>2
<1>10. r \in Region /\ r.file = i /\ r.header \in Header
  BY <1>1, <1>6, <1>8 DEF Region
<1> HIDE DEF r
<1>11. region' \in [Workers -> Region] /\ region'[t] = r /\ \A u \in Workers : u # t => region'[u] = region[u]
  BY <1>1, <1>5, <1>10
<1>12. PICK j \in RegionJob : job' = [job EXCEPT ![t] = j] /\ j.op = "get_region" /\ j.name = n
                              /\ j.pc = "insert"
  <2>1. job' = [job EXCEPT ![t] = [job[t] EXCEPT !.pc = "insert"]]
    BY <1>1 DEF CreateRegion, Goto
  <2>2. /\ [job[t] EXCEPT !.pc = "insert"] \in RegionJob
        /\ [job[t] EXCEPT !.pc = "insert"].op = "get_region"
        /\ [job[t] EXCEPT !.pc = "insert"].name = n
        /\ [job[t] EXCEPT !.pc = "insert"].pc = "insert"
    BY <1>2, <1>3 DEF RegionJob
  <2>3. QED
    BY <2>1, <2>2
<1>13. /\ job' \in [Workers -> {NoJob} \cup RegionJob] /\ job'[t] = j
       /\ \A u \in Workers : u # t => job'[u] = job[u]
  BY <1>1, <1>12
<1>14. DOMAIN paths' = DOMAIN paths \cup {n} /\ paths'[n] = i
       /\ \A m \in DOMAIN paths : m # n => paths'[m] = paths[m]
  BY <1>5 DEF Put
<1>15. ShmShape'
  <2>1. \A m \in DOMAIN paths' : paths'[m] \in 1 .. Len(inodes')
    BY <1>1, <1>9, <1>14 DEF ShmInv, ShmShape
  <2>2. \A u \in Workers : region'[u] # NoRegion =>
           region'[u].file \in 1 .. Len(inodes') /\ region'[u].header \in Header
    BY <1>1, <1>9, <1>10, <1>11 DEF ShmInv, ShmShape
  <2>3. QED
    BY <1>4, <1>5, <1>9, <1>11, <1>13, <1>14, <2>1, <2>2 DEF ShmInv, ShmShape
<1>16. \A m : MakingRegion(m)' = MakingRegion(m)
  BY <1>2, <1>3, <1>12, <1>13 DEF MakingRegion
<1>17. ASSUME NEW m \in RegionNames \ doubled'
       PROVE  OneMaker(m)'
  <2>1. OneMaker(m)
    BY <1>5, <1>17 DEF ShmInv, NamesInv
  <2>2. ASSUME NEW u \in MakingRegion(m) PROVE job'[u].pc = "insert" => m \in DOMAIN paths'
    <3>1. CASE u = t
      BY <1>3, <1>14, <3>1 DEF MakingRegion
    <3>2. CASE u # t
      <4>1. job'[u] = job[u]
        BY <1>13, <3>2 DEF MakingRegion
      <4>2. QED
        BY <1>14, <2>1, <4>1 DEF OneMaker
    <3>3. QED
      BY <3>1, <3>2
  <2>3. QED
    BY <1>5, <1>14, <1>16, <2>1, <2>2 DEF OneMaker
<1>18. QED
  BY <1>15, <1>17 DEF ShmInv, NamesInv

LEMMA InsertRegionKeeps ==
  ASSUME ShmInv, NEW t \in Workers, InsertRegion(t)
  PROVE  ShmInv'
<1>1. job \in [Workers -> {NoJob} \cup RegionJob]
  BY DEF ShmInv, ShmShape
<1>2. job[t] \in RegionJob /\ job[t].op = "get_region" /\ job[t].pc = "insert"
  BY <1>1 DEF InsertRegion, At, NoJob
<1>3. SUFFICES ASSUME NEW n, n = job[t].name PROVE ShmInv'
  OBVIOUS
<1>4. n \in RegionNames /\ t \in MakingRegion(n)
  BY <1>2, <1>3 DEF RegionJob, MakingRegion
<1>5. /\ job' = [job EXCEPT ![t] = NoJob] /\ regions' = regions \cup {n}
      /\ UNCHANGED <<inodes, paths, region, doubled>>
  BY <1>3 DEF InsertRegion, Finish
<1>6. /\ job' \in [Workers -> {NoJob} \cup RegionJob] /\ job'[t] = NoJob
      /\ \A u \in Workers : u # t => job'[u] = job[u]
  BY <1>1, <1>5
<1>7. ShmShape'
  BY <1>4, <1>5, <1>6 DEF ShmInv, ShmShape
<1>8. \A m : MakingRegion(m)' = MakingRegion(m) \ {t}
  BY <1>6 DEF MakingRegion, NoJob
<1>9. ASSUME NEW m \in RegionNames \ doubled'
      PROVE  OneMaker(m)'
  <2>1. OneMaker(m)
    BY <1>5, <1>9 DEF ShmInv, NamesInv
  <2>2. \A u \in MakingRegion(m) \ {t} : job'[u] = job[u]
    BY <1>6 DEF MakingRegion
  <2>3. CASE m = n
    <3>1. n \in DOMAIN paths /\ MakingRegion(n) \ {t} = {}
      BY <1>2, <1>4, <2>1, <2>3 DEF OneMaker
    <3>2. QED
      BY <1>5, <1>8, <2>3, <3>1 DEF OneMaker
  <2>4. CASE m # n
    BY <1>5, <1>8, <2>1, <2>2, <2>4 DEF OneMaker
  <2>5. QED
    BY <2>3, <2>4
<1>10. QED
  BY <1>7, <1>9 DEF ShmInv, NamesInv

LEMMA RemoveRegionsKeeps ==
  ASSUME ShmInv, NEW t \in Workers, NEW names, RemoveRegions(t, names)
  PROVE  ShmInv'
<1>1. /\ paths' = Without(paths, names \cap regions) /\ regions' = regions \ names
      /\ UNCHANGED <<inodes, region, doubled, job>>
  BY DEF RemoveRegions
<1>2. /\ DOMAIN paths' = DOMAIN paths \ (names \cap regions)
      /\ \A n \in DOMAIN paths' : paths'[n] = paths[n]
  BY <1>1 DEF Without
<1>3. ShmShape'
  BY <1>1, <1>2 DEF ShmInv, ShmShape
<1>4. \A n : MakingRegion(n)' = MakingRegion(n)
  BY <1>1 DEF MakingRegion
<1>5. ASSUME NEW n \in RegionNames \ doubled PROVE OneMaker(n)'
  BY <1>1, <1>2, <1>4 DEF ShmInv, NamesInv, OneMaker
<1>6. QED
  BY <1>1, <1>3, <1>5 DEF ShmInv, NamesInv

LEMMA WriteDataKeeps ==
  ASSUME ShmInv, NEW t \in Workers, NEW o \in 0 .. Capacity - DataOffset - 1, NEW v \in Results,
         WriteData(t, o, v)
  PROVE  ShmInv'
<1>1. inodes \in Seq(File) /\ region[t] # NoRegion
  BY DEF ShmInv, ShmShape, WriteData, HasRegion
<1>2. SUFFICES ASSUME NEW i, i = region[t].file PROVE ShmInv'
  OBVIOUS
<1>3. i \in 1 .. Len(inodes) /\ inodes[i] \in File
  BY <1>1, <1>2 DEF ShmInv, ShmShape
<1>4. /\ inodes' = [inodes EXCEPT ![i] = [inodes[i] EXCEPT ![DataOffset + o + 1] = <<"data", v>>]]
      /\ UNCHANGED <<paths, regions, region, doubled, job>>
  BY <1>1, <1>2, <1>3 DEF WriteData
<1>5. [inodes[i] EXCEPT ![DataOffset + o + 1] = <<"data", v>>] \in File
  <2>1. <<"data", v>> \in Cell
    BY DEF Cell, CellValues
  <2>2. DataOffset + o + 1 # 1 /\ Capacity \in Nat /\ 5 =< Capacity
    BY SharedMemoryAssumption DEF DataOffset, HeaderCells
  <2>3. inodes[i] \in [1 .. Capacity -> Cell] /\ inodes[i][1][1] = "SHME"
    BY <1>3 DEF File
  <2>4. [inodes[i] EXCEPT ![DataOffset + o + 1] = <<"data", v>>] \in [1 .. Capacity -> Cell]
    BY <2>1, <2>3
  <2>5. [inodes[i] EXCEPT ![DataOffset + o + 1] = <<"data", v>>][1] = inodes[i][1]
    BY <2>2, <2>3
  <2>6. QED
    BY <2>3, <2>4, <2>5 DEF File
<1>6. inodes' \in Seq(File) /\ Len(inodes') = Len(inodes)
  BY <1>1, <1>3, <1>4, <1>5
<1>7. ShmShape'
  BY <1>4, <1>6 DEF ShmInv, ShmShape
<1>8. QED
  BY <1>4, <1>7, NamesStay DEF ShmInv

LEMMA UpdateHeaderKeeps ==
  ASSUME ShmInv, NEW t \in Workers, NEW count \in Counts, NEW slot \in Counts,
         UpdateHeader(t, count, slot)
  PROVE  ShmInv'
<1>1. /\ inodes \in Seq(File) /\ region \in [Workers -> Region] /\ region[t] # NoRegion
      /\ region[t] \in Region
  BY DEF ShmInv, ShmShape, UpdateHeader, HasRegion
<1>2. SUFFICES ASSUME NEW i, i = region[t].file,
                      NEW h, h = [region[t].header EXCEPT ![1][2] = count, ![3][2] = slot]
               PROVE  ShmInv'
  OBVIOUS
<1>3. i \in 1 .. Len(inodes) /\ inodes[i] \in File /\ region[t].header \in Header
  BY <1>1, <1>2 DEF ShmInv, ShmShape
<1>4. h \in Header
  BY <1>2, <1>3, HeaderUpdated
<1> DEFINE r == [region[t] EXCEPT !.header = h]
           f == [c \in DOMAIN inodes[i] |-> IF c <= HeaderCells THEN h[c] ELSE inodes[i][c]]
<1>5. UNCHANGED <<paths, regions, doubled, job>>
  BY DEF UpdateHeader
<1>6. region' = [region EXCEPT ![t] = r]
  BY <1>1, <1>2 DEF UpdateHeader
<1>7. inodes' = [inodes EXCEPT ![i] = f]
  BY <1>1, <1>2, <1>3 DEF UpdateHeader, Overwrite
<1>8. r \in Region /\ r.file = i /\ r.header = h
  BY <1>1, <1>2, <1>4 DEF Region
<1>9. f \in File
  <2>1. Capacity \in Nat /\ 5 =< Capacity
    BY SharedMemoryAssumption DEF HeaderCells
  <2>2. inodes[i] \in [1 .. Capacity -> Cell]
    BY <1>3 DEF File
  <2>3. h \in [1 .. 5 -> Cell] /\ h[1][1] = "SHME"
    BY <1>4 DEF Header, HeaderCells
  <2>4. f \in [1 .. Capacity -> Cell]
    <3>1. ASSUME NEW c \in 1 .. Capacity PROVE (IF c <= 5 THEN h[c] ELSE inodes[i][c]) \in Cell
      BY <2>1, <2>2, <2>3
    <3>2. QED
      BY <2>2, <3>1 DEF HeaderCells
  <2>5. f[1] = h[1]
    BY <2>1, <2>2 DEF HeaderCells
  <2>6. QED
    BY <2>3, <2>4, <2>5 DEF File
<1> HIDE DEF r, f
<1>10. inodes' \in Seq(File) /\ Len(inodes') = Len(inodes)
  BY <1>1, <1>3, <1>7, <1>9
<1>11. region' \in [Workers -> Region] /\ region'[t] = r /\ \A u \in Workers : u # t => region'[u] = region[u]
  BY <1>1, <1>6, <1>8
<1>12. ShmShape'
  <2>1. \A u \in Workers : region'[u] # NoRegion =>
           region'[u].file \in 1 .. Len(inodes') /\ region'[u].header \in Header
    BY <1>3, <1>4, <1>8, <1>10, <1>11 DEF ShmInv, ShmShape
  <2>2. QED
    BY <1>5, <1>10, <1>11, <2>1 DEF ShmInv, ShmShape
<1>13. QED
  BY <1>5, <1>12, NamesStay DEF ShmInv

LEMMA DropRegionKeeps ==
  ASSUME ShmInv, NEW t \in Workers, DropRegion(t)
  PROVE  ShmInv'
<1>1. region \in [Workers -> Region] /\ region' = [region EXCEPT ![t] = NoRegion]
      /\ UNCHANGED <<inodes, paths, regions, doubled, job>>
  BY DEF DropRegion, ShmInv, ShmShape
<1>2. NoRegion \in Region
  BY DEF NoRegion, Region
<1>3. region' \in [Workers -> Region] /\ region'[t] = NoRegion
      /\ \A u \in Workers : u # t => region'[u] = region[u]
  BY <1>1, <1>2
<1>4. ShmShape'
  BY <1>1, <1>3 DEF ShmInv, ShmShape
<1>5. QED
  BY <1>1, <1>4, NamesStay DEF ShmInv

LEMMA ShmInvKept == ShmInv /\ [ShmNext]_shmVars => ShmInv'
<1> SUFFICES ASSUME ShmInv, [ShmNext]_shmVars PROVE ShmInv'
  OBVIOUS
<1>1. CASE UNCHANGED shmVars
  <2>1. UNCHANGED <<inodes, paths, regions, region, doubled, job>>
    BY <1>1 DEF shmVars, shmState
  <2>2. ShmShape'
    BY <2>1 DEF ShmInv, ShmShape
  <2>3. QED
    BY <2>1, <2>2, NamesStay DEF ShmInv
<1>2. ASSUME NEW t \in Workers, NEW n \in RegionNames, GetRegion(t, n) PROVE ShmInv'
  BY <1>2, GetRegionKeeps
<1>3. ASSUME NEW t \in Workers, NEW names, RemoveRegions(t, names) PROVE ShmInv'
  BY <1>3, RemoveRegionsKeeps
<1>4. ASSUME NEW t \in Workers, NEW o \in 0 .. Capacity - DataOffset - 1, NEW v \in Results,
             WriteData(t, o, v)
      PROVE  ShmInv'
  BY <1>4, WriteDataKeeps
<1>5. ASSUME NEW t \in Workers, NEW c \in Counts, NEW s \in Counts, UpdateHeader(t, c, s)
      PROVE  ShmInv'
  BY <1>5, UpdateHeaderKeeps
<1>6. QED
  BY <1>1, <1>2, <1>3, <1>4, <1>5, OpenRegionKeeps, CreateRegionKeeps, InsertRegionKeeps,
     DropRegionKeeps DEF ShmNext

\* shared_memory.rs: a registered name has a file with a valid header, so that getting the
\* region succeeds, unless two calls created it at once.
THEOREM RegionsOpen == ShmSpec => []RegisteredOpens
<1>1. ShmInit => ShmInv
  <2> SUFFICES ASSUME ShmInit PROVE ShmInv
    OBVIOUS
  <2>1. /\ job = [t \in Workers |-> NoJob] /\ inodes = <<>> /\ DOMAIN paths = {} /\ regions = {}
        /\ region = [t \in Workers |-> NoRegion]
    BY DEF ShmInit, JobsInit, EmptyMap
  <2>2. ShmShape
    BY <2>1 DEF ShmShape, NoRegion, Region
  <2>3. \A n : MakingRegion(n) = {}
    BY <2>1 DEF MakingRegion, NoJob
  <2>4. QED
    BY <2>1, <2>2, <2>3 DEF ShmInv, NamesInv, OneMaker
<1>2. ShmInv /\ [ShmNext]_shmVars => ShmInv'
  BY ShmInvKept
<1>3. ShmInv => RegisteredOpens
  <2> SUFFICES ASSUME ShmInv, NEW n \in regions \ doubled
               PROVE  n \in DOMAIN paths /\ inodes[paths[n]][1][1] = "SHME"
    BY DEF RegisteredOpens
  <2>1. n \in DOMAIN paths
    BY DEF ShmInv, ShmShape, NamesInv, OneMaker
  <2>2. inodes[paths[n]] \in File
    BY <2>1 DEF ShmInv, ShmShape
  <2>3. QED
    BY <2>1, <2>2 DEF File
<1>4. QED
  BY <1>1, <1>2, <1>3, PTL DEF ShmSpec

----------------------------------------------------------------------------
(* QueryResultCache: whatever calls interleave, a level that knows a key holds *)
(* the result inserted last, with the life it was given.                       *)

IsEntry(e) == DOMAIN e = {"data", "created_at", "access_count", "last_access", "ttl_secs"}

\* A call has a key; an insertion, and a lookup that promotes, has an entry of a result
\* that was inserted, as has every level.
CallOk(t) ==
    /\ job[t].op \in {"idle", "insert", "lookup"}
    /\ job[t].op # "idle" => {"op", "pc", "key"} \subseteq DOMAIN job[t] /\ job[t].key \in QueryKeys
    /\ job[t].op = "insert" => job[t].pc \in {"l1", "l2", "file", "write", "meta"}
    /\ job[t].op = "lookup" => job[t].pc \in {"l1", "l2", "l3", "promote1", "promote2"}
    /\ job[t].op = "insert" \/ (job[t].op = "lookup" /\ job[t].pc \in {"promote1", "promote2"}) =>
         "entry" \in DOMAIN job[t] /\ IsEntry(job[t].entry) /\ job[t].key \in DOMAIN inserted

LevelShape(f) == DOMAIN f \subseteq DOMAIN inserted /\ \A k \in DOMAIN f : IsEntry(f[k])

ResultShape ==
    /\ DOMAIN job = Workers /\ \A t \in Workers : CallOk(t)
    /\ LevelShape(level1) /\ LevelShape(level2) /\ LevelShape(metadata)
    /\ DOMAIN file \subseteq DOMAIN inserted /\ DOMAIN inserted \subseteq QueryKeys

\* An entry of the result inserted last; its life is the result's, unless the file of the
\* key outlived its metadata.
Current(e, k) ==
    /\ e.data = inserted[k].data
    /\ k \notin revived => e.created_at = inserted[k].created_at /\ e.ttl_secs = inserted[k].ttl_secs

LevelCurrent(f, k) == k \in DOMAIN f => Current(f[k], k)

\* A key that no insertion works on: all levels are current, the file has metadata unless
\* it was left behind, and so are the entries about to be promoted.
Quiet(k) ==
    Upon("insert", k) = {} =>
        /\ LevelCurrent(level1, k) /\ LevelCurrent(level2, k) /\ LevelCurrent(metadata, k)
        /\ k \in DOMAIN file => file[k] = inserted[k].data /\ (k \in revived \/ k \in DOMAIN metadata)
        /\ \A t \in Upon("lookup", k) :
             job[t].pc \in {"promote1", "promote2"} => Current(job[t].entry, k)

\* A key that an insertion works on: no other call does, and what the insertion has been
\* through is current.
Busy(k) ==
    \A t \in Upon("insert", k) :
        /\ Upon("insert", k) = {t} /\ Upon("lookup", k) = {}
        /\ job[t].entry = inserted[k]
        /\ job[t].pc # "l1" => LevelCurrent(level1, k)
        /\ job[t].pc \in {"file", "write", "meta"} => LevelCurrent(level2, k)
        /\ job[t].pc = "write" /\ k \in DOMAIN file => file[k] = Torn
        /\ job[t].pc = "meta" /\ k \in DOMAIN file => file[k] = inserted[k].data

KeyOk(k) == k \in mixed \/ (Quiet(k) /\ Busy(k))

ResultInv == ResultShape /\ \A k \in QueryKeys : KeyOk(k)

\* Storing an entry in a level: the key has it, and other keys keep theirs or leave.
LEMMA StoredEffect ==
  ASSUME NEW f, NEW size, NEW rank, NEW k, NEW e, NEW g \in Stored(f, size, rank, k, e)
  PROVE  /\ k \in DOMAIN g /\ g[k] = e /\ DOMAIN g \subseteq DOMAIN f \cup {k}
         /\ \A x \in DOMAIN g : x # k => x \in DOMAIN f /\ g[x] = f[x]
<1>1. PICK h : g = Put(h, k, e) /\ (h = f \/ \E v : h = Drop(f, v))
  BY DEF Stored
<1>2. DOMAIN h \subseteq DOMAIN f /\ \A x \in DOMAIN h : h[x] = f[x]
  BY <1>1 DEF Drop
<1>3. DOMAIN g = DOMAIN h \cup {k} /\ g[k] = e /\ \A x \in DOMAIN h : x # k => g[x] = h[x]
  BY <1>1 DEF Put
<1>4. QED
  BY <1>2, <1>3

\* A lookup in a level touches its key only: the entry is dropped or its use recorded.
LEMMA LookedEffect ==
  ASSUME NEW f, NEW k, k \in DOMAIN f => IsEntry(f[k])
  PROVE  /\ DOMAIN Looked(f, k) \subseteq DOMAIN f
         /\ \A x : x # k => (x \in DOMAIN Looked(f, k) <=> x \in DOMAIN f)
         /\ \A x \in DOMAIN Looked(f, k) : x # k => Looked(f, k)[x] = f[x]
         /\ k \in DOMAIN Looked(f, k) => ~Miss(f, k)
         /\ ~Miss(f, k) => /\ k \in DOMAIN Looked(f, k) /\ k \in DOMAIN f
                           /\ IsEntry(Looked(f, k)[k])
                           /\ Looked(f, k)[k].data = f[k].data
                           /\ Looked(f, k)[k].created_at = f[k].created_at
                           /\ Looked(f, k)[k].ttl_secs = f[k].ttl_secs
<1>1. CASE k \notin DOMAIN f
  BY <1>1 DEF Looked, Miss
<1>2. CASE k \in DOMAIN f /\ is_expired(f[k])
  BY <1>2 DEF Looked, Miss, Drop
<1>3. CASE k \in DOMAIN f /\ ~is_expired(f[k])
  <2>1. PICK e : e = access(f[k])
    OBVIOUS
  <2>2. IsEntry(e) /\ e.data = f[k].data /\ e.created_at = f[k].created_at /\ e.ttl_secs = f[k].ttl_secs
    BY <1>3, <2>1 DEF access, IsEntry
  <2>3. Looked(f, k) = Put(f, k, e)
    BY <1>3, <2>1 DEF Looked
  <2>4. /\ DOMAIN Looked(f, k) = DOMAIN f /\ Looked(f, k)[k] = e
        /\ \A x \in DOMAIN f : x # k => Looked(f, k)[x] = f[x]
    BY <1>3, <2>3 DEF Put
  <2>5. QED
    BY <1>3, <2>2, <2>4 DEF Miss
<1>4. QED
  BY <1>1, <1>2, <1>3

\* The calls on a key after thread t has moved to j.
LEMMA UponAfter ==
  ASSUME DOMAIN job = Workers, NEW t \in Workers, NEW j, job' = [job EXCEPT ![t] = j]
  PROVE  /\ job'[t] = j /\ DOMAIN job' = Workers
         /\ \A u \in Workers : u # t => job'[u] = job[u]
         /\ \A op, x, u : u \in Upon(op, x)' <=> (IF u = t THEN j.op = op /\ j.key = x ELSE u \in Upon(op, x))
<1>1. /\ job'[t] = j /\ DOMAIN job' = Workers
      /\ \A u \in Workers : u # t => job'[u] = job[u]
  OBVIOUS
<1>2. QED
  BY <1>1 DEF Upon, Doing

\* What a step that works on another key leaves of key x.
SameAt(x) ==
    /\ x \in DOMAIN level1' => x \in DOMAIN level1 /\ level1'[x] = level1[x]
    /\ x \in DOMAIN level2' => x \in DOMAIN level2 /\ level2'[x] = level2[x]
    /\ x \in DOMAIN metadata' <=> x \in DOMAIN metadata
    /\ x \in DOMAIN metadata => metadata'[x] = metadata[x]
    /\ x \in DOMAIN file' <=> x \in DOMAIN file
    /\ x \in DOMAIN file => file'[x] = file[x]
    /\ x \in DOMAIN inserted => x \in DOMAIN inserted' /\ inserted'[x] = inserted[x]
    /\ x \in DOMAIN inserted' => x \in DOMAIN inserted
    /\ x \in revived' <=> x \in revived

LEMMA SameKeeps ==
  ASSUME ResultShape, NEW x, KeyOk(x), SameAt(x), mixed \subseteq mixed',
         \A op \in {"insert", "lookup"} : Upon(op, x)' = Upon(op, x),
         \A op \in {"insert", "lookup"} : \A t \in Upon(op, x) : job'[t] = job[t]
  PROVE  KeyOk(x)'
<1> SUFFICES ASSUME x \notin mixed', x \notin mixed, Quiet(x), Busy(x)
             PROVE  Quiet(x)' /\ Busy(x)'
  BY DEF KeyOk
<1>1. \A e : x \in DOMAIN inserted => (Current(e, x)' <=> Current(e, x))
  BY DEF Current, SameAt
<1>2. /\ x \in DOMAIN level1 \cup DOMAIN level2 \cup DOMAIN metadata \cup DOMAIN file => x \in DOMAIN inserted
      /\ \A t \in Upon("insert", x) : x \in DOMAIN inserted
      /\ \A t \in Upon("lookup", x) : job[t].pc \in {"promote1", "promote2"} => x \in DOMAIN inserted
  BY DEF ResultShape, LevelShape, CallOk, Upon, Doing
<1>3. /\ LevelCurrent(level1, x) => LevelCurrent(level1, x)'
      /\ LevelCurrent(level2, x) => LevelCurrent(level2, x)'
      /\ LevelCurrent(metadata, x) => LevelCurrent(metadata, x)'
  BY <1>1, <1>2 DEF SameAt, LevelCurrent, Current
<1>4. Quiet(x)'
  <2> SUFFICES ASSUME Upon("insert", x)' = {}
               PROVE  /\ LevelCurrent(level1, x)' /\ LevelCurrent(level2, x)'
                      /\ LevelCurrent(metadata, x)'
                      /\ x \in DOMAIN file' => /\ file'[x] = inserted'[x].data
                                               /\ x \in revived' \/ x \in DOMAIN metadata'
                      /\ \A t \in Upon("lookup", x)' :
                           job'[t].pc \in {"promote1", "promote2"} => Current(job[t].entry, x)'
    BY DEF Quiet, Current
  <2>1. Upon("insert", x) = {}
    OBVIOUS
  <2>2. LevelCurrent(level1, x)' /\ LevelCurrent(level2, x)' /\ LevelCurrent(metadata, x)'
    BY <1>3, <2>1 DEF Quiet
  <2>3. x \in DOMAIN file' => /\ file'[x] = inserted'[x].data
                              /\ x \in revived' \/ x \in DOMAIN metadata'
    BY <1>2, <2>1 DEF Quiet, SameAt
  <2>4. \A t \in Upon("lookup", x)' :
           job'[t].pc \in {"promote1", "promote2"} => Current(job[t].entry, x)'
    BY <1>1, <1>2, <2>1 DEF Quiet, Current
  <2>5. QED
    BY <2>2, <2>3, <2>4
<1>5. Busy(x)'
  <2> SUFFICES ASSUME NEW t \in Upon("insert", x)'
               PROVE  /\ Upon("insert", x)' = {t} /\ Upon("lookup", x)' = {}
                      /\ job'[t].entry = inserted'[x]
                      /\ job'[t].pc # "l1" => LevelCurrent(level1, x)'
                      /\ job'[t].pc \in {"file", "write", "meta"} => LevelCurrent(level2, x)'
                      /\ job'[t].pc = "write" /\ x \in DOMAIN file' => file'[x] = Torn
                      /\ job'[t].pc = "meta" /\ x \in DOMAIN file' => file'[x] = inserted'[x].data
    BY DEF Busy, LevelCurrent, Current, Torn
  <2>1. t \in Upon("insert", x) /\ job'[t] = job[t] /\ x \in DOMAIN inserted
    BY <1>2
  <2>2. QED
    BY <1>3, <2>1 DEF Busy, SameAt
<1>6. QED
  BY <1>4, <1>5

\* A step of thread t on key k: the other keys are as they were.
LEMMA OneKey ==
  ASSUME ResultShape, \A x \in QueryKeys : KeyOk(x), NEW t \in Workers, NEW j, NEW k \in QueryKeys,
         job' = [job EXCEPT ![t] = j], CallOk(t)',
         job[t].op = "idle" \/ job[t].key = k, j.op = "idle" \/ j.key = k,
         mixed \subseteq mixed', \A x \in QueryKeys : x # k => SameAt(x),
         DOMAIN inserted \subseteq DOMAIN inserted', DOMAIN inserted' \subseteq QueryKeys,
         DOMAIN file' \subseteq DOMAIN inserted',
         LevelShape(level1)', LevelShape(level2)', LevelShape(metadata)',
         KeyOk(k)'
  PROVE  ResultInv'
<1>1. /\ job'[t] = j /\ DOMAIN job' = Workers
      /\ \A u \in Workers : u # t => job'[u] = job[u]
      /\ \A op, x, u : u \in Upon(op, x)' <=> (IF u = t THEN j.op = op /\ j.key = x ELSE u \in Upon(op, x))
  BY UponAfter DEF ResultShape
<1>2. ResultShape'
  <2>1. \A u \in Workers : CallOk(u)'
    <3>1. ASSUME NEW u \in Workers, u # t
          PROVE  CallOk(u)'
      <4>1. CallOk(u) /\ job'[u] = job[u]
        BY <1>1, <3>1 DEF ResultShape
      <4>2. QED
        BY <4>1 DEF CallOk
    <3>2. QED
      BY <3>1
  <2>2. QED
    BY <1>1, <2>1 DEF ResultShape
<1>3. ASSUME NEW x \in QueryKeys, x # k
      PROVE  KeyOk(x)'
  <2>1. \A op \in {"insert", "lookup"} : t \notin Upon(op, x)
    BY <1>3 DEF Upon, Doing
  <2>2. \A op \in {"insert", "lookup"} : Upon(op, x)' = Upon(op, x)
    BY <1>1, <1>3, <2>1
  <2>3. \A op \in {"insert", "lookup"} : \A u \in Upon(op, x) : job'[u] = job[u]
    BY <1>1, <2>1 DEF Upon, Doing
  <2>4. QED
    BY <1>3, <2>2, <2>3, SameKeeps
<1>4. QED
  BY <1>2, <1>3 DEF ResultInv

\* An insertion of t under key k moves on to pc: what it has been through is current.
LEMMA InsertGoesOn ==
  ASSUME ResultInv, NEW t \in Workers, job[t].op = "insert", NEW pc, Goto(t, pc),
         pc \in {"l2", "file", "write", "meta"}, NEW k, k = job[t].key,
         UNCHANGED <<inserted, mixed, revived>>,
         \A x \in QueryKeys : x # k => SameAt(x),
         LevelShape(level1)', LevelShape(level2)', LevelShape(metadata)',
         DOMAIN file' \subseteq DOMAIN inserted,
         k \notin mixed => /\ LevelCurrent(level1, k)'
                           /\ pc # "l2" => LevelCurrent(level2, k)'
                           /\ pc = "write" /\ k \in DOMAIN file' => file'[k] = Torn
                           /\ pc = "meta" /\ k \in DOMAIN file' => file'[k] = inserted[k].data
  PROVE  ResultInv'
<1>1. /\ DOMAIN job = Workers /\ CallOk(t) /\ ResultShape /\ k \in QueryKeys
      /\ t \in Upon("insert", k)
  BY DEF ResultInv, ResultShape, CallOk, Upon, Doing
<1>2. PICK j : j = [job[t] EXCEPT !.pc = pc]
  OBVIOUS
<1>3. job' = [job EXCEPT ![t] = j]
  BY <1>1, <1>2 DEF Goto
<1>4. /\ DOMAIN j = DOMAIN job[t] /\ j.op = "insert" /\ j.key = k /\ j.pc = pc
      /\ j.entry = job[t].entry
  BY <1>1, <1>2 DEF CallOk
<1>5. /\ job'[t] = j /\ \A op, x, u : u \in Upon(op, x)' <=> (IF u = t THEN j.op = op /\ j.key = x ELSE u \in Upon(op, x))
  BY <1>1, <1>3, UponAfter
<1>6. CallOk(t)'
  BY <1>1, <1>4, <1>5 DEF CallOk
<1>7. KeyOk(k)'
  <2> SUFFICES ASSUME k \notin mixed
               PROVE  Quiet(k)' /\ Busy(k)'
    BY DEF KeyOk
  <2>1. Upon("insert", k) = {t} /\ Upon("lookup", k) = {} /\ job[t].entry = inserted[k]
    BY <1>1 DEF ResultInv, KeyOk, Busy
  <2>2. Upon("insert", k)' = {t} /\ Upon("lookup", k)' = {}
    BY <1>4, <1>5, <2>1
  <2>3. Quiet(k)'
    BY <2>2 DEF Quiet
  <2>4. Busy(k)'
    BY <1>4, <1>5, <2>1, <2>2 DEF Busy
  <2>5. QED
    BY <2>3, <2>4
<1>8. QED
  BY <1>1, <1>3, <1>4, <1>6, <1>7, OneKey DEF ResultInv, ResultShape

\* A lookup of t on key k ends or moves on to pc with job j.
LEMMA LookupGoesOn ==
  ASSUME ResultInv, NEW t \in Workers, job[t].op = "lookup", NEW k, k = job[t].key, NEW j,
         job' = [job EXCEPT ![t] = j], CallOk(t)', j.op = "idle" \/ (j.op = "lookup" /\ j.key = k),
         UNCHANGED <<inserted, mixed>>, revived \subseteq revived',
         \A x \in QueryKeys : x # k => SameAt(x),
         LevelShape(level1)', LevelShape(level2)', LevelShape(metadata)',
         DOMAIN file' \subseteq DOMAIN inserted,
         k \notin mixed /\ Quiet(k) /\ Upon("insert", k) = {} =>
            /\ LevelCurrent(level1, k)' /\ LevelCurrent(level2, k)' /\ LevelCurrent(metadata, k)'
            /\ k \in DOMAIN file' => /\ file'[k] = inserted[k].data
                                     /\ k \in revived' \/ k \in DOMAIN metadata'
            /\ j.op = "lookup" /\ j.pc \in {"promote1", "promote2"} => Current(j.entry, k)
  PROVE  ResultInv'
<1>1. /\ DOMAIN job = Workers /\ CallOk(t) /\ ResultShape /\ k \in QueryKeys
      /\ t \in Upon("lookup", k)
  BY DEF ResultInv, ResultShape, CallOk, Upon, Doing
<1>2. /\ job'[t] = j /\ \A op, x, u : u \in Upon(op, x)' <=> (IF u = t THEN j.op = op /\ j.key = x ELSE u \in Upon(op, x))
      /\ \A u \in Workers : u # t => job'[u] = job[u]
  BY <1>1, UponAfter
<1>3. KeyOk(k)'
  <2> SUFFICES ASSUME k \notin mixed
               PROVE  Quiet(k)' /\ Busy(k)'
    BY DEF KeyOk
  <2>1. Quiet(k) /\ Busy(k)
    BY <1>1 DEF ResultInv, KeyOk
  <2>2. Upon("insert", k) = {}
    BY <1>1, <2>1 DEF Busy
  <2>3. Upon("insert", k)' = {}
    BY <1>2, <2>2
  <2>4. Busy(k)'
    BY <2>3 DEF Busy
  <2>5. \A u \in Upon("lookup", k)' :
          job'[u].pc \in {"promote1", "promote2"} => Current(job[u].entry, k)'
    <3> SUFFICES ASSUME NEW u \in Upon("lookup", k)', job'[u].pc \in {"promote1", "promote2"}
                 PROVE  Current(job[u].entry, k)'
      OBVIOUS
    <3>1. CASE u = t
      <4>1. j.op = "lookup" /\ j.pc \in {"promote1", "promote2"}
        BY <1>2, <3>1 DEF Upon, Doing
      <4>2. Current(j.entry, k)
        BY <2>1, <2>2, <4>1
      <4>3. QED
        BY <1>2, <3>1, <4>2 DEF Current
    <3>2. CASE u # t
      <4>1. u \in Upon("lookup", k) /\ job'[u] = job[u]
        BY <1>2, <3>2 DEF Upon, Doing
      <4>2. QED
        BY <2>1, <2>2, <4>1 DEF Quiet, Current
    <3>3. QED
      BY <3>1, <3>2
  <2>6. Quiet(k)'
    BY <2>1, <2>2, <2>5 DEF Quiet
  <2>7. QED
    BY <2>4, <2>6
<1>4. QED
  BY <1>1, <1>2, <1>3, OneKey DEF ResultInv, ResultShape

\* The levels a step stores to, drops from or leaves alone, as far as other keys go.
Elsewhere(f, g, k) == \A x : x # k /\ x \in DOMAIN g => x \in DOMAIN f /\ g[x] = f[x]

LEMMA StoredLevel ==
  ASSUME NEW f, NEW size, NEW rank, NEW k, NEW e, NEW g \in Stored(f, size, rank, k, e),
         NEW D, k \in D, IsEntry(e), DOMAIN f \subseteq D, \A x \in DOMAIN f : IsEntry(f[x])
  PROVE  /\ Elsewhere(f, g, k) /\ k \in DOMAIN g /\ g[k] = e
         /\ DOMAIN g \subseteq D /\ \A x \in DOMAIN g : IsEntry(g[x])
<1>1. /\ k \in DOMAIN g /\ g[k] = e /\ DOMAIN g \subseteq DOMAIN f \cup {k}
      /\ \A x \in DOMAIN g : x # k => x \in DOMAIN f /\ g[x] = f[x]
  BY StoredEffect
<1>2. \A x \in DOMAIN g : IsEntry(g[x])
  BY <1>1
<1>3. QED
  BY <1>1, <1>2 DEF Elsewhere

\* A call of insert() or get() begins.
LEMMA InsertBegins ==
  ASSUME ResultInv, NEW t \in Workers, NEW k \in QueryKeys, NEW ttl, InsertResult(t, k, ttl)
  PROVE  ResultInv'
<1>1. PICK e, j : /\ e = CacheEntry(jobs + 1, ttl)
                  /\ j = [op |-> "insert", pc |-> "l1", key |-> k, entry |-> e]
  OBVIOUS
<1>2. /\ job[t].op = "idle" /\ job' = [job EXCEPT ![t] = j]
      /\ inserted' = Put(inserted, k, e)
      /\ mixed' = IF Upon("insert", k) \cup Upon("lookup", k) # {} THEN mixed \cup {k} ELSE mixed
      /\ revived' = revived \ {k} /\ UNCHANGED <<level1, level2, metadata, file>>
  BY <1>1 DEF InsertResult, Begin
<1>3. /\ DOMAIN j = {"op", "pc", "key", "entry"}
      /\ j.op = "insert" /\ j.pc = "l1" /\ j.key = k /\ j.entry = e /\ IsEntry(e)
  BY <1>1 DEF CacheEntry, IsEntry
<1>4. ResultShape /\ DOMAIN job = Workers
  BY DEF ResultInv, ResultShape
<1>5. /\ job'[t] = j /\ \A op, x, u : u \in Upon(op, x)' <=> (IF u = t THEN j.op = op /\ j.key = x ELSE u \in Upon(op, x))
  BY <1>2, <1>4, UponAfter
<1>6. /\ DOMAIN inserted' = DOMAIN inserted \cup {k} /\ inserted'[k] = e
      /\ \A x \in DOMAIN inserted : x # k => inserted'[x] = inserted[x]
  BY <1>2 DEF Put
<1>7. CallOk(t)'
  BY <1>3, <1>5, <1>6 DEF CallOk
<1>8. KeyOk(k)'
  <2> SUFFICES ASSUME k \notin mixed'
               PROVE  Quiet(k)' /\ Busy(k)'
    BY DEF KeyOk
  <2>1. Upon("insert", k) = {} /\ Upon("lookup", k) = {}
    BY <1>2
  <2>2. Upon("insert", k)' = {t} /\ Upon("lookup", k)' = {}
    BY <1>3, <1>5, <2>1
  <2>3. Quiet(k)'
    BY <2>2 DEF Quiet
  <2>4. Busy(k)'
    BY <1>3, <1>5, <1>6, <2>2 DEF Busy
  <2>5. QED
    BY <2>3, <2>4
<1>9. \A x \in QueryKeys : x # k => SameAt(x)
  BY <1>2, <1>6 DEF SameAt
<1>10. LevelShape(level1)' /\ LevelShape(level2)' /\ LevelShape(metadata)' /\ DOMAIN file' \subseteq DOMAIN inserted'
       /\ DOMAIN inserted' \subseteq QueryKeys
  BY <1>2, <1>4, <1>6 DEF ResultShape, LevelShape
<1>11. mixed \subseteq mixed'
  BY <1>2
<1>12. QED
  BY <1>2, <1>3, <1>4, <1>6, <1>7, <1>8, <1>9, <1>10, <1>11, OneKey DEF ResultInv

LEMMA LookupBegins ==
  ASSUME ResultInv, NEW t \in Workers, NEW k \in QueryKeys, GetResult(t, k)
  PROVE  ResultInv'
<1>1. PICK j : j = [op |-> "lookup", pc |-> "l1", key |-> k]
  OBVIOUS
<1>2. /\ job[t].op = "idle" /\ job' = [job EXCEPT ![t] = j]
      /\ mixed' = IF Upon("insert", k) # {} THEN mixed \cup {k} ELSE mixed
      /\ UNCHANGED <<level1, level2, metadata, file, inserted, revived>>
  BY <1>1 DEF GetResult, Begin
<1>3. DOMAIN j = {"op", "pc", "key"} /\ j.op = "lookup" /\ j.pc = "l1" /\ j.key = k
  BY <1>1
<1>4. ResultShape /\ DOMAIN job = Workers
  BY DEF ResultInv, ResultShape
<1>5. /\ job'[t] = j /\ \A op, x, u : u \in Upon(op, x)' <=> (IF u = t THEN j.op = op /\ j.key = x ELSE u \in Upon(op, x))
      /\ \A u \in Workers : u # t => job'[u] = job[u]
  BY <1>2, <1>4, UponAfter
<1>6. CallOk(t)'
  BY <1>3, <1>5 DEF CallOk
<1>7. KeyOk(k)'
  <2> SUFFICES ASSUME k \notin mixed'
               PROVE  Quiet(k)' /\ Busy(k)'
    BY DEF KeyOk
  <2>1. Upon("insert", k) = {} /\ Quiet(k)
    BY <1>2 DEF ResultInv, KeyOk
  <2>2. Upon("insert", k)' = {}
    BY <1>3, <1>5, <2>1
  <2>3. \A u \in Upon("lookup", k)' :
          job'[u].pc \in {"promote1", "promote2"} => u \in Upon("lookup", k) /\ job'[u] = job[u]
    BY <1>3, <1>5 DEF Upon, Doing
  <2>4. \A u \in Upon("lookup", k)' :
          job'[u].pc \in {"promote1", "promote2"} => Current(job[u].entry, k)'
    BY <1>2, <2>1, <2>3 DEF Quiet, Current
  <2>5. Quiet(k)'
    BY <1>2, <2>1, <2>4 DEF Quiet, LevelCurrent, Current
  <2>6. Busy(k)'
    BY <2>2 DEF Busy
  <2>7. QED
    BY <2>5, <2>6
<1>8. \A x \in QueryKeys : x # k => SameAt(x)
  BY <1>2 DEF SameAt
<1>9. LevelShape(level1)' /\ LevelShape(level2)' /\ LevelShape(metadata)' /\ DOMAIN file' \subseteq DOMAIN inserted'
      /\ DOMAIN inserted' \subseteq QueryKeys
  BY <1>2, <1>4 DEF ResultShape, LevelShape
<1>10. mixed \subseteq mixed'
  BY <1>2
<1>11. QED
  BY <1>2, <1>3, <1>4, <1>6, <1>7, <1>8, <1>9, <1>10, OneKey DEF ResultInv

\* The steps of insert().
LEMMA InsertSteps ==
  ASSUME ResultInv, NEW t \in Workers,
         \/ InsertL1(t) \/ InsertL2(t) \/ CreateFile(t) \/ WriteFile(t)
  PROVE  ResultInv'
<1> SUFFICES ASSUME NEW k, k = job[t].key PROVE ResultInv'
  OBVIOUS
<1>1. job[t].op = "insert" /\ UNCHANGED <<inserted, mixed, revived>>
  BY DEF InsertL1, InsertL2, CreateFile, WriteFile, At
<1>2. /\ ResultShape /\ CallOk(t) /\ k \in DOMAIN inserted /\ IsEntry(job[t].entry)
      /\ t \in Upon("insert", k) /\ k \in QueryKeys
      /\ LevelShape(level1) /\ LevelShape(level2) /\ LevelShape(metadata)
      /\ DOMAIN file \subseteq DOMAIN inserted
  BY <1>1 DEF ResultInv, ResultShape, CallOk, Upon, Doing
<1>3. k \notin mixed => Busy(k)
  BY <1>2 DEF ResultInv, KeyOk
<1>4. k \notin mixed => /\ job[t].entry = inserted[k] /\ Upon("insert", k) = {t}
                        /\ job[t].pc # "l1" => LevelCurrent(level1, k)
                        /\ job[t].pc \in {"file", "write", "meta"} => LevelCurrent(level2, k)
                        /\ job[t].pc = "write" /\ k \in DOMAIN file => file[k] = Torn
  BY <1>2, <1>3 DEF Busy
<1>5. CASE InsertL1(t)
  <2>1. Goto(t, "l2") /\ level1' \in Stored(level1, L1Size, LastAccess, k, job[t].entry)
        /\ UNCHANGED <<level2, metadata, file>>
    BY <1>5 DEF InsertL1, StoreL1
  <2>2. /\ Elsewhere(level1, level1', k) /\ level1'[k] = job[t].entry
        /\ DOMAIN level1' \subseteq DOMAIN inserted /\ \A x \in DOMAIN level1' : IsEntry(level1'[x])
    BY <1>2, <2>1, StoredLevel DEF LevelShape
  <2>3. LevelShape(level1)' /\ LevelShape(level2)' /\ LevelShape(metadata)'
    BY <1>1, <1>2, <2>1, <2>2 DEF LevelShape
  <2>4. \A x \in QueryKeys : x # k => SameAt(x)
    BY <1>1, <2>1, <2>2 DEF SameAt, Elsewhere
  <2>5. k \notin mixed => LevelCurrent(level1, k)'
    BY <1>1, <1>4, <2>2 DEF LevelCurrent, Current
  <2>6. QED
    BY <1>1, <1>2, <2>1, <2>3, <2>4, <2>5, InsertGoesOn
<1>6. CASE InsertL2(t)
  <2>1. Goto(t, "file") /\ level2' \in Stored(level2, L2Size, AccessCount, k, job[t].entry)
        /\ job[t].pc = "l2" /\ UNCHANGED <<level1, metadata, file>>
    BY <1>6 DEF InsertL2, StoreL2, At
  <2>2. /\ Elsewhere(level2, level2', k) /\ level2'[k] = job[t].entry
        /\ DOMAIN level2' \subseteq DOMAIN inserted /\ \A x \in DOMAIN level2' : IsEntry(level2'[x])
    BY <1>2, <2>1, StoredLevel DEF LevelShape
  <2>3. LevelShape(level1)' /\ LevelShape(level2)' /\ LevelShape(metadata)'
    BY <1>1, <1>2, <2>1, <2>2 DEF LevelShape
  <2>4. \A x \in QueryKeys : x # k => SameAt(x)
    BY <1>1, <2>1, <2>2 DEF SameAt, Elsewhere
  <2>5. k \notin mixed => LevelCurrent(level1, k)' /\ LevelCurrent(level2, k)'
    BY <1>1, <1>4, <2>1, <2>2 DEF LevelCurrent, Current
  <2>6. QED
    BY <1>1, <1>2, <2>1, <2>3, <2>4, <2>5, InsertGoesOn
<1>7. CASE CreateFile(t) \/ WriteFile(t)
  <2>1. PICK pc \in {"write", "meta"} : Goto(t, pc)
    BY <1>7 DEF CreateFile, WriteFile
  <2>2. job[t].pc \in {"file", "write"} /\ UNCHANGED <<level1, level2, metadata>>
    BY <1>7 DEF CreateFile, WriteFile, At
  <2>3. LevelShape(level1)' /\ LevelShape(level2)' /\ LevelShape(metadata)'
    BY <1>1, <1>2, <2>2 DEF LevelShape
  <2>4. k \notin mixed => LevelCurrent(level1, k)' /\ LevelCurrent(level2, k)'
    BY <1>1, <1>4, <2>2 DEF LevelCurrent, Current
  <2>5. file' = file \/ (\E d : file' = Put(file, k, d))
    BY <1>7 DEF CreateFile, WriteFile
  <2>6. /\ \A x : x # k => (x \in DOMAIN file' <=> x \in DOMAIN file)
        /\ \A x \in DOMAIN file : x # k => file'[x] = file[x]
        /\ DOMAIN file' \subseteq DOMAIN inserted
    BY <1>2, <2>5 DEF Put
  <2>7. \A x \in QueryKeys : x # k => SameAt(x)
    BY <1>1, <2>2, <2>6 DEF SameAt
  <2>8. CASE CreateFile(t)
    <3>1. file' = Put(file, k, Torn) /\ Goto(t, "write")
      BY <2>8 DEF CreateFile
    <3>2. file'[k] = Torn
      BY <3>1 DEF Put
    <3>3. QED
      BY <1>1, <1>2, <2>3, <2>4, <2>6, <2>7, <3>1, <3>2, InsertGoesOn
  <2>9. CASE WriteFile(t)
    <3>1. Goto(t, "meta") /\ job[t].pc = "write"
      BY <2>9 DEF WriteFile, At
    <3>2. ASSUME k \notin mixed
          PROVE  k \in DOMAIN file' => file'[k] = inserted[k].data
      <4>1. {u \in Upon("insert", k) \ {t} : job[u].pc = "write"} = {}
        BY <1>4, <3>2
      <4>2. CASE k \in DOMAIN file
        <5>1. file[k] = Torn
          BY <1>4, <3>1, <3>2, <4>2
        <5>2. file' = Put(file, k, job[t].entry.data)
          BY <2>9, <4>1, <4>2, <5>1 DEF WriteFile
        <5>3. file'[k] = job[t].entry.data
          BY <5>2 DEF Put
        <5>4. QED
          BY <1>4, <3>2, <5>3
      <4>3. CASE k \notin DOMAIN file
        BY <2>9, <4>3 DEF WriteFile
      <4>4. QED
        BY <4>2, <4>3
    <3>3. QED
      BY <1>1, <1>2, <2>3, <2>4, <2>6, <2>7, <3>1, <3>2, InsertGoesOn
  <2>10. QED
    BY <1>7, <2>8, <2>9
<1>8. QED
  BY <1>5, <1>6, <1>7

LEMMA InsertEnds ==
  ASSUME ResultInv, NEW t \in Workers, InsertMetadata(t) \/ FileFails(t)
  PROVE  ResultInv'
<1> SUFFICES ASSUME NEW k, k = job[t].key PROVE ResultInv'
  OBVIOUS
<1>1. PICK j : j = NoJob
  OBVIOUS
<1>2. /\ job[t].op = "insert" /\ job' = [job EXCEPT ![t] = j] /\ j.op = "idle"
      /\ UNCHANGED <<level1, level2, file, inserted, revived>>
  BY <1>1 DEF InsertMetadata, FileFails, At, Finish, NoJob
<1>3. /\ ResultShape /\ CallOk(t) /\ k \in DOMAIN inserted /\ IsEntry(job[t].entry)
      /\ t \in Upon("insert", k) /\ k \in QueryKeys /\ DOMAIN job = Workers
      /\ LevelShape(level1) /\ LevelShape(level2) /\ LevelShape(metadata)
      /\ DOMAIN file \subseteq DOMAIN inserted /\ DOMAIN inserted \subseteq QueryKeys
  BY <1>2 DEF ResultInv, ResultShape, CallOk, Upon, Doing
<1>4. /\ job'[t] = j /\ \A op, x, u : u \in Upon(op, x)' <=> (IF u = t THEN j.op = op /\ j.key = x ELSE u \in Upon(op, x))
  BY <1>2, <1>3, UponAfter
<1>5. CallOk(t)'
  BY <1>2, <1>4 DEF CallOk
<1>6. CASE InsertMetadata(t)
  <2>1. metadata' = Put(metadata, k, job[t].entry) /\ job[t].pc = "meta" /\ mixed' = mixed
    BY <1>6 DEF InsertMetadata, At
  <2>2. /\ DOMAIN metadata' = DOMAIN metadata \cup {k} /\ metadata'[k] = job[t].entry
        /\ \A x \in DOMAIN metadata : x # k => metadata'[x] = metadata[x]
    BY <2>1 DEF Put
  <2>3. LevelShape(level1)' /\ LevelShape(level2)' /\ LevelShape(metadata)'
    <3>1. \A x \in DOMAIN metadata' : IsEntry(metadata'[x])
      BY <1>3, <2>2 DEF LevelShape
    <3>2. QED
      BY <1>2, <1>3, <2>2, <3>1 DEF LevelShape
  <2>4. \A x \in QueryKeys : x # k => SameAt(x)
    BY <1>2, <2>2 DEF SameAt
  <2>5. KeyOk(k)'
    <3> SUFFICES ASSUME k \notin mixed
                 PROVE  Quiet(k)' /\ Busy(k)'
      BY <2>1 DEF KeyOk
    <3>1. Busy(k)
      BY <1>3 DEF ResultInv, KeyOk
    <3>2. /\ Upon("insert", k) = {t} /\ Upon("lookup", k) = {} /\ job[t].entry = inserted[k]
          /\ LevelCurrent(level1, k) /\ LevelCurrent(level2, k)
          /\ k \in DOMAIN file => file[k] = inserted[k].data
      BY <1>3, <2>1, <3>1 DEF Busy
    <3>3. Upon("insert", k)' = {} /\ Upon("lookup", k)' = {}
      BY <1>2, <1>4, <3>2
    <3>4. LevelCurrent(metadata, k)' /\ LevelCurrent(level1, k)' /\ LevelCurrent(level2, k)'
      BY <1>2, <2>2, <3>2 DEF LevelCurrent, Current
    <3>5. Quiet(k)'
      BY <1>2, <2>2, <3>2, <3>3, <3>4 DEF Quiet
    <3>6. Busy(k)'
      BY <3>3 DEF Busy
    <3>7. QED
      BY <3>5, <3>6
  <2>6. DOMAIN file' \subseteq DOMAIN inserted' /\ DOMAIN inserted' \subseteq QueryKeys
        /\ mixed \subseteq mixed' /\ revived' = revived /\ DOMAIN inserted \subseteq DOMAIN inserted'
    BY <1>2, <1>3, <2>1
  <2>7. QED
    BY <1>2, <1>3, <1>5, <2>3, <2>4, <2>5, <2>6, OneKey DEF ResultInv
<1>7. CASE FileFails(t)
  <2>1. mixed' = mixed \cup {k} /\ metadata' = metadata
    BY <1>7 DEF FileFails
  <2>2. LevelShape(level1)' /\ LevelShape(level2)' /\ LevelShape(metadata)'
    BY <1>2, <1>3, <2>1 DEF LevelShape
  <2>3. \A x \in QueryKeys : x # k => SameAt(x)
    BY <1>2, <2>1 DEF SameAt
  <2>4. KeyOk(k)'
    BY <2>1 DEF KeyOk
  <2>5. DOMAIN file' \subseteq DOMAIN inserted' /\ DOMAIN inserted' \subseteq QueryKeys
        /\ mixed \subseteq mixed' /\ revived' = revived /\ DOMAIN inserted \subseteq DOMAIN inserted'
    BY <1>2, <1>3, <2>1
  <2>6. QED
    BY <1>2, <1>3, <1>5, <2>2, <2>3, <2>4, <2>5, OneKey DEF ResultInv
<1>8. QED
  BY <1>6, <1>7

\* Where a step of get() leaves its call: at an end, at the next level or about to promote
\* an entry.
LEMMA NextJob ==
  ASSUME ResultShape, NEW t \in Workers, job[t].op = "lookup",
         \/ Finish(t)
         \/ Goto(t, "l2") \/ Goto(t, "l3")
         \/ \E pc \in {"promote1", "promote2"} : \E e :
              Promote(t, pc, e) /\ IsEntry(e) /\ job[t].key \in DOMAIN inserted,
         inserted' = inserted
  PROVE  \E j : /\ job' = [job EXCEPT ![t] = j] /\ CallOk(t)'
                /\ j.op = "idle" \/ (j.op = "lookup" /\ j.key = job[t].key)
                /\ Finish(t) \/ Goto(t, "l2") \/ Goto(t, "l3") =>
                     ~(j.op = "lookup" /\ j.pc \in {"promote1", "promote2"})
                /\ \A pc, e : Promote(t, pc, e) => j.entry = e
<1>1. DOMAIN job = Workers /\ CallOk(t)
  BY DEF ResultShape
<1>2. CASE Finish(t)
  <2>1. job' = [job EXCEPT ![t] = NoJob] /\ NoJob.op = "idle"
    BY <1>2 DEF Finish, NoJob
  <2>2. job'[t] = NoJob
    BY <1>1, <2>1
  <2>3. CallOk(t)'
    BY <2>1, <2>2 DEF CallOk
  <2>4. \A pc, e : ~Promote(t, pc, e)
    <3> SUFFICES ASSUME NEW pc, NEW e, Promote(t, pc, e) PROVE FALSE
      OBVIOUS
    <3>1. job'[t] = [op |-> "lookup", pc |-> pc, key |-> job[t].key, entry |-> e]
      BY <1>1 DEF Promote
    <3>2. job'[t].op = "lookup"
      BY <3>1
    <3>3. QED
      BY <2>1, <2>2, <3>2
  <2>5. QED
    BY <2>1, <2>3, <2>4
<1>3. ASSUME NEW q \in {"l2", "l3"}, Goto(t, q)
      PROVE  \E j : /\ job' = [job EXCEPT ![t] = j] /\ CallOk(t)'
                    /\ j.op = "lookup" /\ j.key = job[t].key
                    /\ ~(j.pc \in {"promote1", "promote2"})
                    /\ \A pc, e : Promote(t, pc, e) => j.entry = e
  <2>1. PICK j : j = [job[t] EXCEPT !.pc = q]
    OBVIOUS
  <2>2. job' = [job EXCEPT ![t] = j] /\ job'[t] = j
    BY <1>1, <1>3, <2>1 DEF Goto
  <2>3. j.op = "lookup" /\ j.key = job[t].key /\ j.pc = q /\ DOMAIN j = DOMAIN job[t]
    BY <1>1, <2>1 DEF CallOk
  <2>4. CallOk(t)'
    BY <1>1, <2>2, <2>3 DEF CallOk
  <2>5. \A pc, e : Promote(t, pc, e) => j.entry = e
    <3> SUFFICES ASSUME NEW pc, NEW e, Promote(t, pc, e) PROVE j.entry = e
      OBVIOUS
    <3>1. j = [op |-> "lookup", pc |-> pc, key |-> job[t].key, entry |-> e]
      BY <1>1, <2>2 DEF Promote
    <3>2. QED
      BY <3>1
  <2>6. QED
    BY <2>2, <2>3, <2>4, <2>5
<1>4. ASSUME NEW q \in {"promote1", "promote2"}, NEW d, Promote(t, q, d), IsEntry(d),
             job[t].key \in DOMAIN inserted, ~Finish(t), ~Goto(t, "l2"), ~Goto(t, "l3")
      PROVE  \E j : /\ job' = [job EXCEPT ![t] = j] /\ CallOk(t)'
                    /\ j.op = "lookup" /\ j.key = job[t].key
                    /\ \A pc, e : Promote(t, pc, e) => j.entry = e
  <2>1. PICK j : j = [op |-> "lookup", pc |-> q, key |-> job[t].key, entry |-> d]
    OBVIOUS
  <2>2. job' = [job EXCEPT ![t] = j] /\ job'[t] = j
    BY <1>1, <1>4, <2>1 DEF Promote
  <2>3. j.op = "lookup" /\ j.key = job[t].key /\ j.pc = q /\ j.entry = d
        /\ DOMAIN j = {"op", "pc", "key", "entry"}
    BY <2>1
  <2>4. CallOk(t)'
    BY <1>1, <1>4, <2>2, <2>3 DEF CallOk
  <2>5. \A pc, e : Promote(t, pc, e) => j.entry = e
    <3> SUFFICES ASSUME NEW pc, NEW e, Promote(t, pc, e) PROVE j.entry = e
      OBVIOUS
    <3>1. j = [op |-> "lookup", pc |-> pc, key |-> job[t].key, entry |-> e]
      BY <1>1, <2>2 DEF Promote
    <3>2. QED
      BY <3>1
  <2>6. QED
    BY <2>2, <2>3, <2>4, <2>5
<1>5. QED
  BY <1>2, <1>3, <1>4


\* A step of get() on key k that ends its call, goes on to the next level or finds an entry.
LEMMA LookupMoves ==
  ASSUME ResultInv, NEW t \in Workers, job[t].op = "lookup", NEW k, k = job[t].key,
         \/ Finish(t) \/ Goto(t, "l2") \/ Goto(t, "l3")
         \/ \E pc \in {"promote1", "promote2"} : \E e :
              /\ Promote(t, pc, e) /\ IsEntry(e) /\ k \in DOMAIN inserted
              /\ k \notin mixed /\ Quiet(k) /\ Upon("insert", k) = {} => Current(e, k),
         UNCHANGED <<inserted, mixed>>, revived \subseteq revived',
         \A x \in QueryKeys : x # k => SameAt(x),
         LevelShape(level1)', LevelShape(level2)', LevelShape(metadata)',
         DOMAIN file' \subseteq DOMAIN inserted,
         k \notin mixed /\ Quiet(k) /\ Upon("insert", k) = {} =>
            /\ LevelCurrent(level1, k)' /\ LevelCurrent(level2, k)' /\ LevelCurrent(metadata, k)'
            /\ k \in DOMAIN file' => /\ file'[k] = inserted[k].data
                                     /\ k \in revived' \/ k \in DOMAIN metadata'
  PROVE  ResultInv'
<1>1. PICK j : /\ job' = [job EXCEPT ![t] = j] /\ CallOk(t)'
               /\ j.op = "idle" \/ (j.op = "lookup" /\ j.key = k)
               /\ Finish(t) \/ Goto(t, "l2") \/ Goto(t, "l3") =>
                    ~(j.op = "lookup" /\ j.pc \in {"promote1", "promote2"})
               /\ \A q, d : Promote(t, q, d) => j.entry = d
  <2>1. \/ Finish(t)
        \/ Goto(t, "l2") \/ Goto(t, "l3")
        \/ \E pc \in {"promote1", "promote2"} : \E e :
             Promote(t, pc, e) /\ IsEntry(e) /\ job[t].key \in DOMAIN inserted
    OBVIOUS
  <2>2. ResultShape
    BY DEF ResultInv
  <2>3. QED
    BY <2>1, <2>2, NextJob
<1>2. k \notin mixed /\ Quiet(k) /\ Upon("insert", k) = {} =>
        (j.op = "lookup" /\ j.pc \in {"promote1", "promote2"} => Current(j.entry, k))
  BY <1>1
<1>3. QED
  BY <1>1, <1>2, LookupGoesOn

\* What a lookup leaves of a level: other entries, and its own current entry if it was.
LEMMA LookedLevel ==
  ASSUME NEW f, LevelShape(f), NEW k, NEW g, g = Looked(f, k)
  PROVE  /\ Elsewhere(f, g, k) /\ DOMAIN g \subseteq DOMAIN f
         /\ \A x \in DOMAIN g : IsEntry(g[x])
         /\ \A x : x # k => (x \in DOMAIN g <=> x \in DOMAIN f)
         /\ LevelCurrent(f, k) /\ k \in DOMAIN g => Current(g[k], k)
         /\ k \in DOMAIN g <=> ~Miss(f, k)
         /\ k \in DOMAIN g => k \in DOMAIN f
<1>1. k \in DOMAIN f => IsEntry(f[k])
  BY DEF LevelShape
<1>2. /\ DOMAIN g \subseteq DOMAIN f
      /\ \A x : x # k => (x \in DOMAIN g <=> x \in DOMAIN f)
      /\ \A x \in DOMAIN g : x # k => g[x] = f[x]
      /\ k \in DOMAIN g <=> ~Miss(f, k)
      /\ ~Miss(f, k) => /\ k \in DOMAIN f /\ IsEntry(g[k])
                        /\ g[k].data = f[k].data
                        /\ g[k].created_at = f[k].created_at
                        /\ g[k].ttl_secs = f[k].ttl_secs
  BY <1>1, LookedEffect
<1>3. \A x \in DOMAIN g : IsEntry(g[x])
  BY <1>2 DEF LevelShape
<1>4. LevelCurrent(f, k) /\ k \in DOMAIN g => Current(g[k], k)
  BY <1>2 DEF LevelCurrent, Current
<1>5. QED
  BY <1>2, <1>3, <1>4 DEF Elsewhere

\* The steps of get().
LEMMA LookupSteps ==
  ASSUME ResultInv, NEW t \in Workers,
         GetL1(t) \/ GetL2(t) \/ PromoteToL1(t) \/ GetL3(t) \/ PromoteToL2(t)
  PROVE  ResultInv'
<1> SUFFICES ASSUME NEW k, k = job[t].key PROVE ResultInv'
  OBVIOUS
<1>1. job[t].op = "lookup" /\ UNCHANGED <<inserted, mixed, revived>>
  BY DEF GetL1, GetL2, PromoteToL1, GetL3, PromoteToL2, At
<1>2. /\ ResultShape /\ CallOk(t) /\ t \in Upon("lookup", k) /\ k \in QueryKeys
      /\ LevelShape(level1) /\ LevelShape(level2) /\ LevelShape(metadata)
      /\ DOMAIN file \subseteq DOMAIN inserted
  BY <1>1 DEF ResultInv, ResultShape, CallOk, Upon, Doing
<1>3. Quiet(k) /\ Upon("insert", k) = {} =>
        /\ LevelCurrent(level1, k) /\ LevelCurrent(level2, k) /\ LevelCurrent(metadata, k)
        /\ k \in DOMAIN file => file[k] = inserted[k].data /\ (k \in revived \/ k \in DOMAIN metadata)
        /\ job[t].pc \in {"promote1", "promote2"} => Current(job[t].entry, k)
  BY <1>2 DEF Quiet
<1>4. /\ level1' = level1 => LevelShape(level1)' /\ (LevelCurrent(level1, k) => LevelCurrent(level1, k)')
      /\ level2' = level2 => LevelShape(level2)' /\ (LevelCurrent(level2, k) => LevelCurrent(level2, k)')
      /\ metadata' = metadata => LevelShape(metadata)' /\ (LevelCurrent(metadata, k) => LevelCurrent(metadata, k)')
  BY <1>1, <1>2 DEF LevelShape, LevelCurrent, Current
<1>5. \A e : Current(e, k)' <=> Current(e, k)
  BY <1>1 DEF Current
<1>6. CASE GetL1(t)
  <2>1. level1' = Looked(level1, k) /\ UNCHANGED <<level2, metadata, file>> /\ (Goto(t, "l2") \/ Finish(t))
    BY <1>6 DEF GetL1
  <2>2. /\ Elsewhere(level1, level1', k) /\ DOMAIN level1' \subseteq DOMAIN level1
        /\ \A x \in DOMAIN level1' : IsEntry(level1'[x])
        /\ LevelCurrent(level1, k) /\ k \in DOMAIN level1' => Current(level1'[k], k)
    BY <1>2, <2>1, LookedLevel
  <2>3. LevelShape(level1)' /\ (LevelCurrent(level1, k) => LevelCurrent(level1, k)')
    BY <1>1, <1>2, <1>5, <2>2 DEF LevelShape, LevelCurrent, Current
  <2>4. \A x \in QueryKeys : x # k => SameAt(x)
    BY <1>1, <2>1, <2>2 DEF SameAt, Elsewhere
  <2>5. QED
    BY <1>1, <1>2, <1>3, <1>4, <2>1, <2>3, <2>4, LookupMoves
<1>7. CASE GetL2(t)
  <2>1. /\ level2' = Looked(level2, k) /\ UNCHANGED <<level1, metadata, file>>
        /\ Goto(t, "l3") \/ (~Miss(level2, k) /\ Promote(t, "promote1", level2'[k]))
    BY <1>7 DEF GetL2
  <2>2. /\ Elsewhere(level2, level2', k) /\ DOMAIN level2' \subseteq DOMAIN level2
        /\ \A x \in DOMAIN level2' : IsEntry(level2'[x])
        /\ LevelCurrent(level2, k) /\ k \in DOMAIN level2' => Current(level2'[k], k)
        /\ k \in DOMAIN level2' <=> ~Miss(level2, k)
    BY <1>2, <2>1, LookedLevel
  <2>3. LevelShape(level2)' /\ (LevelCurrent(level2, k) => LevelCurrent(level2, k)')
    BY <1>1, <1>2, <1>5, <2>2 DEF LevelShape, LevelCurrent, Current
  <2>4. \A x \in QueryKeys : x # k => SameAt(x)
    BY <1>1, <2>1, <2>2 DEF SameAt, Elsewhere
  <2>5. \/ Goto(t, "l3")
        \/ \E pc \in {"promote1", "promote2"} : \E e :
             /\ Promote(t, pc, e) /\ IsEntry(e) /\ k \in DOMAIN inserted
             /\ k \notin mixed /\ Quiet(k) /\ Upon("insert", k) = {} => Current(e, k)
    <3>1. ~Miss(level2, k) => /\ IsEntry(level2'[k]) /\ k \in DOMAIN inserted
                              /\ k \notin mixed /\ Quiet(k) /\ Upon("insert", k) = {} => Current(level2'[k], k)
      BY <1>2, <1>3, <2>2 DEF LevelShape
    <3>2. QED
      BY <2>1, <3>1
  <2>6. QED
    BY <1>1, <1>2, <1>3, <1>4, <2>1, <2>3, <2>4, <2>5, LookupMoves
<1>8. CASE PromoteToL1(t) \/ PromoteToL2(t)
  <2>1. /\ Finish(t) /\ UNCHANGED <<metadata, file>> /\ job[t].pc \in {"promote1", "promote2"}
        /\ \/ level1' \in Stored(level1, L1Size, LastAccess, k, job[t].entry) /\ level2' = level2
           \/ level2' \in Stored(level2, L2Size, AccessCount, k, job[t].entry) /\ level1' = level1
    BY <1>8 DEF PromoteToL1, PromoteToL2, StoreL1, StoreL2, At
  <2>2. IsEntry(job[t].entry) /\ k \in DOMAIN inserted
    BY <1>1, <1>2, <2>1 DEF CallOk
  <2>3. CASE level1' \in Stored(level1, L1Size, LastAccess, k, job[t].entry) /\ level2' = level2
    <3>1. /\ Elsewhere(level1, level1', k) /\ level1'[k] = job[t].entry
          /\ DOMAIN level1' \subseteq DOMAIN inserted /\ \A x \in DOMAIN level1' : IsEntry(level1'[x])
      BY <1>2, <2>2, <2>3, StoredLevel DEF LevelShape
    <3>2. LevelShape(level1)' /\ (Current(job[t].entry, k) => LevelCurrent(level1, k)')
      BY <1>1, <1>5, <3>1 DEF LevelShape, LevelCurrent, Current
    <3>3. \A x \in QueryKeys : x # k => SameAt(x)
      BY <1>1, <2>1, <2>3, <3>1 DEF SameAt, Elsewhere
    <3>4. QED
      BY <1>1, <1>2, <1>3, <1>4, <2>1, <2>3, <3>2, <3>3, LookupMoves
  <2>4. CASE level2' \in Stored(level2, L2Size, AccessCount, k, job[t].entry) /\ level1' = level1
    <3>1. /\ Elsewhere(level2, level2', k) /\ level2'[k] = job[t].entry
          /\ DOMAIN level2' \subseteq DOMAIN inserted /\ \A x \in DOMAIN level2' : IsEntry(level2'[x])
      BY <1>2, <2>2, <2>4, StoredLevel DEF LevelShape
    <3>2. LevelShape(level2)' /\ (Current(job[t].entry, k) => LevelCurrent(level2, k)')
      BY <1>1, <1>5, <3>1 DEF LevelShape, LevelCurrent, Current
    <3>3. \A x \in QueryKeys : x # k => SameAt(x)
      BY <1>1, <2>1, <2>4, <3>1 DEF SameAt, Elsewhere
    <3>4. QED
      BY <1>1, <1>2, <1>3, <1>4, <2>1, <2>4, <3>2, <3>3, LookupMoves
  <2>5. QED
    BY <2>1, <2>3, <2>4
<1>9. CASE GetL3(t)
  <2>1. UNCHANGED <<level1, level2>>
    BY <1>9 DEF GetL3
  <2>2. CASE k \in DOMAIN metadata /\ Miss(metadata, k)
    <3>1. metadata' = Looked(metadata, k) /\ file' = Drop(file, k) /\ Finish(t)
      BY <1>9, <2>2 DEF GetL3
    <3>2. /\ Elsewhere(metadata, metadata', k) /\ DOMAIN metadata' \subseteq DOMAIN metadata
          /\ \A x \in DOMAIN metadata' : IsEntry(metadata'[x])
          /\ \A x : x # k => (x \in DOMAIN metadata' <=> x \in DOMAIN metadata)
          /\ k \notin DOMAIN metadata'
      BY <1>2, <2>2, <3>1, LookedLevel
    <3>3. /\ k \notin DOMAIN file' /\ DOMAIN file' \subseteq DOMAIN file
          /\ \A x : x # k => (x \in DOMAIN file' <=> x \in DOMAIN file)
          /\ \A x \in DOMAIN file : x # k => file'[x] = file[x]
      BY <3>1 DEF Drop
    <3>4. LevelShape(metadata)' /\ LevelCurrent(metadata, k)'
      BY <1>1, <1>2, <3>2 DEF LevelShape, LevelCurrent
    <3>5. \A x \in QueryKeys : x # k => SameAt(x)
      BY <1>1, <2>1, <3>2, <3>3 DEF SameAt, Elsewhere
    <3>6. DOMAIN file' \subseteq DOMAIN inserted
      BY <1>2, <3>3
    <3>7. QED
      BY <1>1, <1>2, <1>3, <1>4, <2>1, <3>1, <3>3, <3>4, <3>5, <3>6, LookupMoves
  <2>3. CASE k \in DOMAIN metadata /\ ~Miss(metadata, k)
    <3>1. metadata' = Looked(metadata, k) /\ file' = file /\ Promote(t, "promote2", metadata'[k])
      BY <1>9, <2>3 DEF GetL3
    <3>2. /\ Elsewhere(metadata, metadata', k) /\ DOMAIN metadata' \subseteq DOMAIN metadata
          /\ \A x \in DOMAIN metadata' : IsEntry(metadata'[x])
          /\ \A x : x # k => (x \in DOMAIN metadata' <=> x \in DOMAIN metadata)
          /\ LevelCurrent(metadata, k) /\ k \in DOMAIN metadata' => Current(metadata'[k], k)
          /\ k \in DOMAIN metadata'
      BY <1>2, <2>3, <3>1, LookedLevel
    <3>3. LevelShape(metadata)' /\ (LevelCurrent(metadata, k) => LevelCurrent(metadata, k)')
      BY <1>1, <1>2, <1>5, <3>2 DEF LevelShape, LevelCurrent, Current
    <3>4. \A x \in QueryKeys : x # k => SameAt(x)
      BY <1>1, <2>1, <3>1, <3>2 DEF SameAt, Elsewhere
    <3>5. \E pc \in {"promote1", "promote2"} : \E e :
             /\ Promote(t, pc, e) /\ IsEntry(e) /\ k \in DOMAIN inserted
             /\ k \notin mixed /\ Quiet(k) /\ Upon("insert", k) = {} => Current(e, k)
      <4>1. /\ IsEntry(metadata'[k]) /\ k \in DOMAIN inserted
            /\ k \notin mixed /\ Quiet(k) /\ Upon("insert", k) = {} => Current(metadata'[k], k)
        BY <1>2, <1>3, <2>3, <3>2 DEF LevelShape
      <4>2. QED
        BY <3>1, <4>1
    <3>6. QED
      BY <1>1, <1>2, <1>3, <1>4, <2>1, <3>1, <3>2, <3>3, <3>4, <3>5, LookupMoves
  <2>4. CASE k \in DOMAIN file \ DOMAIN metadata
    <3>1. PICK e : e = CacheEntry(file[k], DiskTtl)
      OBVIOUS
    <3>2. metadata' = Put(metadata, k, e) /\ file' = file /\ Promote(t, "promote2", e)
      BY <1>9, <2>4, <3>1 DEF GetL3
    <3>3. IsEntry(e) /\ e.data = file[k]
      BY <3>1 DEF CacheEntry, IsEntry
    <3>4. /\ DOMAIN metadata' = DOMAIN metadata \cup {k} /\ metadata'[k] = e
          /\ \A x \in DOMAIN metadata : x # k => metadata'[x] = metadata[x]
      BY <3>2 DEF Put
    <3>5. Quiet(k) /\ Upon("insert", k) = {} => Current(e, k)
      BY <1>3, <2>4, <3>3 DEF Current
    <3>6. LevelShape(metadata)' /\ (Current(e, k) => LevelCurrent(metadata, k)')
      <4>1. \A x \in DOMAIN metadata' : IsEntry(metadata'[x])
        BY <1>2, <3>3, <3>4 DEF LevelShape
      <4>2. QED
        BY <1>1, <1>2, <1>5, <2>4, <3>4, <4>1 DEF LevelShape, LevelCurrent, Current
    <3>7. \A x \in QueryKeys : x # k => SameAt(x)
      BY <1>1, <2>1, <3>2, <3>4 DEF SameAt
    <3>8. \E pc \in {"promote1", "promote2"} : \E d :
             /\ Promote(t, pc, d) /\ IsEntry(d) /\ k \in DOMAIN inserted
             /\ k \notin mixed /\ Quiet(k) /\ Upon("insert", k) = {} => Current(d, k)
      BY <1>2, <2>4, <3>2, <3>3, <3>5
    <3>9. QED
      BY <1>1, <1>2, <1>3, <1>4, <2>1, <3>2, <3>4, <3>5, <3>6, <3>7, <3>8, LookupMoves
  <2>5. CASE k \notin DOMAIN file \cup DOMAIN metadata
    <3>1. UNCHANGED <<metadata, file>> /\ Finish(t)
      BY <1>9, <2>5 DEF GetL3
    <3>2. \A x \in QueryKeys : x # k => SameAt(x)
      BY <1>1, <2>1, <3>1 DEF SameAt
    <3>3. QED
      BY <1>1, <1>2, <1>3, <1>4, <2>1, <3>1, <3>2, LookupMoves
  <2>6. QED
    BY <2>2, <2>3, <2>4, <2>5
<1>10. QED
  BY <1>6, <1>7, <1>8, <1>9

\* A lookup meets an I/O error on the disk.
LEMMA LookupFails ==
  ASSUME ResultInv, NEW t \in Workers, GetL3Fails(t)
  PROVE  ResultInv'
<1>1. PICK k : k = job[t].key
  OBVIOUS
<1>2. /\ job[t].op = "lookup" /\ Finish(t) /\ UNCHANGED <<level1, level2, file, inserted, mixed>>
      /\ \/ k \in DOMAIN metadata /\ metadata' = Drop(metadata, k) /\ revived' = revived \cup {k}
         \/ k \notin DOMAIN metadata /\ UNCHANGED <<metadata, revived>>
  BY <1>1 DEF GetL3Fails, At
<1>3. /\ DOMAIN metadata' = DOMAIN metadata \ {k}
      /\ \A x \in DOMAIN metadata : x # k => metadata'[x] = metadata[x]
      /\ revived \subseteq revived' /\ \A x : x # k => (x \in revived' <=> x \in revived)
  BY <1>2 DEF Drop
<1>4. /\ LevelShape(level1) /\ LevelShape(level2) /\ LevelShape(metadata)
      /\ DOMAIN file \subseteq DOMAIN inserted
  BY DEF ResultInv, ResultShape
<1>5. LevelShape(level1)' /\ LevelShape(level2)' /\ LevelShape(metadata)'
  BY <1>2, <1>3, <1>4 DEF LevelShape
<1>6. \A x \in QueryKeys : x # k => SameAt(x)
  BY <1>2, <1>3 DEF SameAt
<1>7. Quiet(k) /\ Upon("insert", k) = {} =>
        /\ LevelCurrent(level1, k)' /\ LevelCurrent(level2, k)' /\ LevelCurrent(metadata, k)'
        /\ k \in DOMAIN file' => /\ file'[k] = inserted[k].data
                                 /\ k \in revived' \/ k \in DOMAIN metadata'
  BY <1>2, <1>3 DEF Quiet, LevelCurrent, Current
<1>8. QED
  BY <1>1, <1>2, <1>3, <1>4, <1>5, <1>6, <1>7, LookupMoves

\* A restart empties the memory and ends the calls; the insertions among them are mixed.
LEMMA RestartKeeps ==
  ASSUME ResultInv, Restart
  PROVE  ResultInv'
<1>1. /\ level1' = EmptyMap /\ level2' = EmptyMap /\ metadata' = EmptyMap
      /\ job' = [t \in Workers |-> NoJob]
      /\ mixed' = mixed \cup {job[t].key : t \in Doing("insert")}
      /\ revived' = revived \cup DOMAIN file /\ UNCHANGED <<file, inserted>>
  BY DEF Restart
<1>2. DOMAIN level1' = {} /\ DOMAIN level2' = {} /\ DOMAIN metadata' = {}
  BY <1>1 DEF EmptyMap
<1>3. DOMAIN job' = Workers /\ \A t \in Workers : job'[t].op = "idle"
  BY <1>1 DEF NoJob
<1>4. ResultShape'
  <2>1. \A t \in Workers : CallOk(t)'
    BY <1>3 DEF CallOk
  <2>2. LevelShape(level1)' /\ LevelShape(level2)' /\ LevelShape(metadata)'
    BY <1>2 DEF LevelShape
  <2>3. QED
    BY <1>1, <1>3, <2>1, <2>2 DEF ResultInv, ResultShape
<1>5. \A k : Upon("insert", k)' = {} /\ Upon("lookup", k)' = {}
  BY <1>3 DEF Upon, Doing
<1>6. ASSUME NEW k \in QueryKeys PROVE KeyOk(k)'
  <2> SUFFICES ASSUME k \notin mixed' PROVE Quiet(k)' /\ Busy(k)'
    BY DEF KeyOk
  <2>1. Upon("insert", k) = {} /\ Quiet(k)
    BY <1>1, <1>6 DEF ResultInv, KeyOk, Upon, Doing
  <2>2. k \in DOMAIN file' => file'[k] = inserted'[k].data /\ k \in revived'
    BY <1>1, <2>1 DEF Quiet
  <2>3. Quiet(k)'
    BY <1>2, <1>5, <2>2 DEF Quiet, LevelCurrent
  <2>4. Busy(k)'
    BY <1>5 DEF Busy
  <2>5. QED
    BY <2>3, <2>4
<1>7. QED
  BY <1>4, <1>6 DEF ResultInv

\* Time passes, or nothing happens.
LEMMA WaitKeeps ==
  ASSUME ResultInv,
         UNCHANGED <<level1, level2, metadata, file, inserted, mixed, revived, job>>
  PROVE  ResultInv'
<1>1. \A t : CallOk(t)' <=> CallOk(t)
  BY DEF CallOk
<1>2. ResultShape'
  BY <1>1 DEF ResultInv, ResultShape, LevelShape
<1>3. ASSUME NEW k \in QueryKeys PROVE KeyOk(k)'
  <2>1. KeyOk(k) /\ SameAt(k)
    BY DEF ResultInv, SameAt
  <2>2. \A op \in {"insert", "lookup"} : Upon(op, k)' = Upon(op, k)
    BY DEF Upon, Doing
  <2>3. \A op \in {"insert", "lookup"} : \A t \in Upon(op, k) : job'[t] = job[t]
    OBVIOUS
  <2>4. QED
    BY <2>1, <2>2, <2>3, SameKeeps DEF ResultInv
<1>4. QED
  BY <1>2, <1>3 DEF ResultInv

LEMMA ResultInitial == ASSUME QueryCacheInit PROVE ResultInv
<1>1. DOMAIN job = Workers /\ \A t \in Workers : job[t].op = "idle"
  BY DEF QueryCacheInit, JobsInit, NoJob
<1>2. DOMAIN level1 = {} /\ DOMAIN level2 = {} /\ DOMAIN metadata = {} /\ DOMAIN file = {} /\ DOMAIN inserted = {}
  BY DEF QueryCacheInit, EmptyMap
<1>3. ResultShape
  BY <1>1, <1>2 DEF ResultShape, LevelShape, CallOk
<1>4. \A k : Upon("insert", k) = {} /\ Upon("lookup", k) = {}
  BY <1>1 DEF Upon, Doing
<1>5. \A k : Quiet(k) /\ Busy(k)
  BY <1>2, <1>4 DEF Quiet, Busy, LevelCurrent
<1>6. QED
  BY <1>3, <1>5 DEF ResultInv, KeyOk

LEMMA ResultStep ==
  ASSUME ResultInv, [QueryCacheNext]_queryCacheVars
  PROVE  ResultInv'
<1>1. CASE UNCHANGED queryCacheVars
  BY <1>1, WaitKeeps DEF queryCacheVars, queryCacheState
<1>2. CASE NextSecond
  BY <1>2, WaitKeeps DEF NextSecond
<1>3. CASE Restart
  BY <1>3, RestartKeeps
<1>4. ASSUME NEW t \in Workers, NEW k \in QueryKeys, NEW ttl \in Ttls, InsertResult(t, k, ttl)
      PROVE  ResultInv'
  BY <1>4, InsertBegins
<1>5. ASSUME NEW t \in Workers, NEW k \in QueryKeys, GetResult(t, k)
      PROVE  ResultInv'
  BY <1>5, LookupBegins
<1>6. ASSUME NEW t \in Workers, QueryCacheStep(t)
      PROVE  ResultInv'
  <2>1. CASE InsertL1(t) \/ InsertL2(t) \/ CreateFile(t) \/ WriteFile(t)
    BY <2>1, InsertSteps
  <2>2. CASE InsertMetadata(t) \/ FileFails(t)
    BY <2>2, InsertEnds
  <2>3. CASE GetL1(t) \/ GetL2(t) \/ PromoteToL1(t) \/ GetL3(t) \/ PromoteToL2(t)
    BY <2>3, LookupSteps
  <2>4. CASE GetL3Fails(t)
    BY <2>4, LookupFails
  <2>5. QED
    BY <1>6, <2>1, <2>2, <2>3, <2>4 DEF QueryCacheStep
<1>7. QED
  BY <1>1, <1>2, <1>3, <1>4, <1>5, <1>6 DEF QueryCacheNext

\* Every level that knows a key holds the result that insert() was last called with,
\* unless calls on the key overlapped or its file could not be written.
THEOREM ResultsLatest == QueryCacheSpec => []LevelsHoldLatest
<1>1. ResultInv => LevelsHoldLatest
  BY DEF ResultInv, KeyOk, Quiet, LevelCurrent, Current, LevelsHoldLatest, Levels
<1>2. QED
  BY ResultInitial, ResultStep, <1>1, PTL DEF QueryCacheSpec

\* get() and its promotions never prolong the life insert() gave to a result: expired, it
\* is expired in every level, unless a restart or a failed removal left its file without
\* its metadata since it was inserted.
THEOREM ResultsExpire == QueryCacheSpec => []ExpiredStaysExpired
<1>1. ASSUME ResultInv PROVE ExpiredStaysExpired
  <2> SUFFICES ASSUME NEW k \in DOMAIN inserted \ (mixed \cup revived), Upon("insert", k) = {},
                      is_expired(inserted[k]), NEW f \in Levels, k \in DOMAIN f
               PROVE  is_expired(f[k])
    BY DEF ExpiredStaysExpired
  <2>1. Quiet(k)
    BY <1>1 DEF ResultInv, ResultShape, KeyOk
  <2>2. Current(f[k], k)
    BY <2>1 DEF Quiet, Levels, LevelCurrent
  <2>3. f[k].created_at = inserted[k].created_at /\ f[k].ttl_secs = inserted[k].ttl_secs
    BY <2>2 DEF Current
  <2>4. QED
    BY <2>3 DEF is_expired
<1>2. QED
  BY ResultInitial, ResultStep, <1>1, PTL DEF QueryCacheSpec
----------------------------------------------------------------------------
(* MemcmpAccelerator: an account is listed where its last insertion says, and *)
(* nowhere else unless it was filed or removed otherwise than it should be.   *)

IsAccelerator(acc) ==
    /\ DOMAIN acc = {"tracked", "indexes", "seen", "entries"}
    /\ acc.tracked \subseteq Fields
    /\ DOMAIN acc.indexes = Fields /\ DOMAIN acc.seen = Fields /\ DOMAIN acc.entries = Fields
    /\ \A f \in Fields :
         /\ \A x \in acc.indexes[f] : \E b, a : x = <<b, a>> /\ b \in acc.seen[f]
         /\ IsFiniteSet(acc.indexes[f]) /\ IsFiniteSet(acc.seen[f])
         /\ acc.entries[f] \in Nat

\* What a program's insertions and removals, the last one of each account counting, leave
\* in its accelerator.
AccountsListed(p, acc) ==
    \A a \in DOMAIN filed[p] : \A f \in Indexed(acc, filed[p][a]) :
        /\ <<filed[p][a].field[f], a>> \in acc.indexes[f]
        /\ filed[p][a].field[f] \in acc.seen[f]

ListedAreFiled(p, acc) ==
    \A f \in Fields : \A b, a : <<b, a>> \in acc.indexes[f] =>
        \/ <<p, a>> \in misused
        \/ /\ a \in DOMAIN filed[p] /\ f \in Indexed(acc, filed[p][a])
           /\ b = filed[p][a].field[f]

EntriesCounted(p, acc) ==
    p \notin miscounted =>
        /\ \A a : <<p, a>> \notin misused
        /\ \A f \in Fields : acc.entries[f] = Cardinality(acc.indexes[f])

AccelProgramOk(p) ==
    IF p \in DOMAIN program_accelerators
    THEN /\ IsAccelerator(program_accelerators[p])
         /\ AccountsListed(p, program_accelerators[p])
         /\ ListedAreFiled(p, program_accelerators[p])
         /\ EntriesCounted(p, program_accelerators[p])
    ELSE /\ DOMAIN filed[p] = {}
         /\ \A a : <<p, a>> \notin misused

AccelInv ==
    /\ DOMAIN program_accelerators \subseteq AccelPrograms
    /\ DOMAIN filed = AccelPrograms
    /\ \A p \in DOMAIN program_offset_configs : program_offset_configs[p] \subseteq Fields
    /\ \A p \in AccelPrograms : AccelProgramOk(p)

LEMMA IndexedOf ==
  ASSUME NEW acc, NEW r, r.tracked = acc.tracked, acc.tracked \subseteq Fields, NEW data
  PROVE  Indexed(r, data) = Indexed(acc, data) /\ Indexed(acc, data) \subseteq Fields
BY DEF Indexed

LEMMA NewAcceleratorOk ==
  ASSUME NEW tracked \in SUBSET Fields, NEW r, r = NewAccelerator(tracked)
  PROVE  IsAccelerator(r) /\ \A f \in Fields : r.indexes[f] = {} /\ r.entries[f] = 0
BY FS_EmptySet DEF NewAccelerator, IsAccelerator

\* What filing and removing an account do to the index of each field.
LEMMA FileInEffect ==
  ASSUME NEW acc, IsAccelerator(acc), NEW a, NEW data, NEW r, r = FileIn(acc, a, data)
  PROVE  /\ DOMAIN r = {"tracked", "indexes", "seen", "entries"} /\ r.tracked = acc.tracked
         /\ DOMAIN r.indexes = Fields /\ DOMAIN r.seen = Fields /\ DOMAIN r.entries = Fields
         /\ \A f \in Fields : f \in Indexed(acc, data) =>
              /\ r.indexes[f] = acc.indexes[f] \cup {<<data.field[f], a>>}
              /\ r.seen[f] = acc.seen[f] \cup {data.field[f]}
              /\ r.entries[f] = acc.entries[f] + 1
         /\ \A f \in Fields : f \notin Indexed(acc, data) =>
              /\ r.indexes[f] = acc.indexes[f] /\ r.seen[f] = acc.seen[f]
              /\ r.entries[f] = acc.entries[f]
<1>1. DOMAIN acc = {"tracked", "indexes", "seen", "entries"}
  BY DEF IsAccelerator
<1>2. PICK x, s, e :
        /\ x = [f \in Fields |-> IF f \in Indexed(acc, data) THEN acc.indexes[f] \cup {<<data.field[f], a>>}
                                 ELSE acc.indexes[f]]
        /\ s = [f \in Fields |-> IF f \in Indexed(acc, data) THEN acc.seen[f] \cup {data.field[f]} ELSE acc.seen[f]]
        /\ e = [f \in Fields |-> IF f \in Indexed(acc, data) THEN acc.entries[f] + 1 ELSE acc.entries[f]]
  OBVIOUS
<1>3. r = [acc EXCEPT !.indexes = x, !.seen = s, !.entries = e]
  BY <1>1, <1>2 DEF FileIn
<1>4. /\ DOMAIN r = {"tracked", "indexes", "seen", "entries"} /\ r.tracked = acc.tracked
      /\ r.indexes = x /\ r.seen = s /\ r.entries = e
  BY <1>1, <1>3
<1>5. QED
  BY <1>2, <1>4

LEMMA RemoveEffect ==
  ASSUME NEW acc, IsAccelerator(acc), NEW a, NEW data, NEW r, r = RemoveEntries(acc, a, data)
  PROVE  /\ DOMAIN r = {"tracked", "indexes", "seen", "entries"} /\ r.tracked = acc.tracked
         /\ DOMAIN r.indexes = Fields /\ DOMAIN r.entries = Fields /\ r.seen = acc.seen
         /\ \A f \in Fields : f \in Indexed(acc, data) =>
              /\ r.indexes[f] = acc.indexes[f] \ {<<data.field[f], a>>}
              /\ r.entries[f] = IF data.field[f] \in acc.seen[f] /\ acc.entries[f] > 0
                                THEN acc.entries[f] - 1 ELSE acc.entries[f]
         /\ \A f \in Fields : f \notin Indexed(acc, data) =>
              r.indexes[f] = acc.indexes[f] /\ r.entries[f] = acc.entries[f]
<1>1. DOMAIN acc = {"tracked", "indexes", "seen", "entries"}
  BY DEF IsAccelerator
<1>2. PICK x, e :
        /\ x = [f \in Fields |-> IF f \in Indexed(acc, data) THEN acc.indexes[f] \ {<<data.field[f], a>>}
                                 ELSE acc.indexes[f]]
        /\ e = Discounted(acc, Indexed(acc, data), data)
  OBVIOUS
<1>3. r = [acc EXCEPT !.indexes = x, !.entries = e]
  BY <1>1, <1>2 DEF RemoveEntries
<1>4. /\ DOMAIN r = {"tracked", "indexes", "seen", "entries"} /\ r.tracked = acc.tracked
      /\ r.indexes = x /\ r.seen = acc.seen /\ r.entries = e
  BY <1>1, <1>3
<1>5. QED
  BY <1>2, <1>4 DEF Discounted

\* The programs that a call is not for.
LEMMA ProgramKept ==
  ASSUME NEW q, AccelProgramOk(q),
         q \in DOMAIN program_accelerators' <=> q \in DOMAIN program_accelerators,
         q \in DOMAIN program_accelerators => program_accelerators'[q] = program_accelerators[q],
         filed'[q] = filed[q], \A a : <<q, a>> \in misused' <=> <<q, a>> \in misused,
         q \in miscounted' <=> q \in miscounted
  PROVE  AccelProgramOk(q)'
<1>1. CASE q \in DOMAIN program_accelerators
  <2>1. PICK acc : acc = program_accelerators[q] /\ program_accelerators'[q] = acc
    BY <1>1
  <2>2. IsAccelerator(acc) /\ AccountsListed(q, acc) /\ ListedAreFiled(q, acc) /\ EntriesCounted(q, acc)
    BY <1>1, <2>1 DEF AccelProgramOk
  <2>3. AccountsListed(q, acc)' /\ ListedAreFiled(q, acc)' /\ EntriesCounted(q, acc)'
    BY <2>2 DEF AccountsListed, ListedAreFiled, EntriesCounted
  <2>4. QED
    BY <1>1, <2>1, <2>2, <2>3 DEF AccelProgramOk, AccountsListed, ListedAreFiled, EntriesCounted
<1>2. CASE q \notin DOMAIN program_accelerators
  BY <1>2 DEF AccelProgramOk
<1>3. QED
  BY <1>1, <1>2

LEMMA AccountFiled ==
  ASSUME NEW p, DOMAIN filed = AccelPrograms, p \in AccelPrograms, NEW a, NEW data,
         NEW acc, IsAccelerator(acc), NEW r, r = FileIn(acc, a, data),
         AccountsListed(p, acc), ListedAreFiled(p, acc), EntriesCounted(p, acc),
         filed' = [filed EXCEPT ![p] = Put(@, a, data)],
         misused' = IF a \in DOMAIN filed[p] /\ filed[p][a] # data THEN misused \cup {<<p, a>>} ELSE misused,
         miscounted' = IF a \in DOMAIN filed[p] THEN miscounted \cup {p} ELSE miscounted
  PROVE  /\ IsAccelerator(r)
         /\ AccountsListed(p, r)' /\ ListedAreFiled(p, r)' /\ EntriesCounted(p, r)'
<1>1. /\ DOMAIN r = {"tracked", "indexes", "seen", "entries"} /\ r.tracked = acc.tracked
      /\ DOMAIN r.indexes = Fields /\ DOMAIN r.seen = Fields /\ DOMAIN r.entries = Fields
  BY FileInEffect
<1>2. \A f \in Fields : f \in Indexed(acc, data) =>
        /\ r.indexes[f] = acc.indexes[f] \cup {<<data.field[f], a>>}
        /\ r.seen[f] = acc.seen[f] \cup {data.field[f]}
        /\ r.entries[f] = acc.entries[f] + 1
  BY FileInEffect
<1>3. \A f \in Fields : f \notin Indexed(acc, data) =>
        /\ r.indexes[f] = acc.indexes[f] /\ r.seen[f] = acc.seen[f] /\ r.entries[f] = acc.entries[f]
  BY FileInEffect
<1>4. \A d : Indexed(r, d) = Indexed(acc, d) /\ Indexed(acc, d) \subseteq Fields
  BY <1>1, IndexedOf DEF IsAccelerator
<1>5. /\ DOMAIN filed'[p] = DOMAIN filed[p] \cup {a} /\ filed'[p][a] = data
      /\ \A b \in DOMAIN filed[p] : b # a => filed'[p][b] = filed[p][b]
  BY DEF Put
<1>6. IsAccelerator(r)
  <2>1. ASSUME NEW f \in Fields
        PROVE  /\ \A x \in r.indexes[f] : \E b, c : x = <<b, c>> /\ b \in r.seen[f]
               /\ IsFiniteSet(r.indexes[f]) /\ IsFiniteSet(r.seen[f]) /\ r.entries[f] \in Nat
    <3>1. /\ \A x \in acc.indexes[f] : \E b, c : x = <<b, c>> /\ b \in acc.seen[f]
          /\ IsFiniteSet(acc.indexes[f]) /\ IsFiniteSet(acc.seen[f]) /\ acc.entries[f] \in Nat
      BY DEF IsAccelerator
    <3>2. CASE f \in Indexed(acc, data)
      <4>1. \A S, x : IsFiniteSet(S) => IsFiniteSet(S \cup {x})
        BY FS_AddElement
      <4>2. PICK x : x = <<data.field[f], a>>
        OBVIOUS
      <4>3. /\ r.indexes[f] = acc.indexes[f] \cup {x}
            /\ r.seen[f] = acc.seen[f] \cup {data.field[f]}
            /\ r.entries[f] = acc.entries[f] + 1
        BY <1>2, <3>2, <4>2
      <4>4. IsFiniteSet(r.indexes[f]) /\ IsFiniteSet(r.seen[f])
        <5>1. IsFiniteSet(acc.indexes[f] \cup {x}) /\ IsFiniteSet(acc.seen[f] \cup {data.field[f]})
          BY <3>1, <4>1
        <5>2. QED
          BY <4>3, <5>1
      <4>5. \A y \in r.indexes[f] : \E b, c : y = <<b, c>> /\ b \in r.seen[f]
        BY <3>1, <4>2, <4>3
      <4>6. r.entries[f] \in Nat
        BY <3>1, <4>3
      <4>7. QED
        BY <4>4, <4>5, <4>6
    <3>3. CASE f \notin Indexed(acc, data)
      BY <1>3, <3>1, <3>3
    <3>4. QED
      BY <3>2, <3>3
  <2>2. QED
    BY <1>1, <2>1 DEF IsAccelerator
<1>7. AccountsListed(p, r)'
  <2> SUFFICES ASSUME NEW b \in DOMAIN filed'[p], NEW f \in Indexed(r, filed'[p][b])
               PROVE  <<filed'[p][b].field[f], b>> \in r.indexes[f] /\ filed'[p][b].field[f] \in r.seen[f]
    BY DEF AccountsListed, Indexed
  <2>1. CASE b = a
    BY <1>2, <1>4, <1>5, <2>1
  <2>2. CASE b # a
    <3>1. /\ b \in DOMAIN filed[p] /\ filed'[p][b] = filed[p][b]
          /\ f \in Indexed(acc, filed[p][b]) /\ f \in Fields
      BY <1>4, <1>5, <2>2
    <3>2. <<filed[p][b].field[f], b>> \in acc.indexes[f] /\ filed[p][b].field[f] \in acc.seen[f]
      BY <3>1 DEF AccountsListed
    <3>3. QED
      BY <1>2, <1>3, <3>1, <3>2
  <2>3. QED
    BY <2>1, <2>2
<1>8. ListedAreFiled(p, r)'
  <2> SUFFICES ASSUME NEW f \in Fields, NEW b, NEW c, <<b, c>> \in r.indexes[f], <<p, c>> \notin misused'
               PROVE  /\ c \in DOMAIN filed'[p] /\ f \in Indexed(r, filed'[p][c])
                      /\ b = filed'[p][c].field[f]
    BY DEF ListedAreFiled, Indexed
  <2>1. <<p, c>> \notin misused /\ (c = a /\ a \in DOMAIN filed[p] => filed[p][a] = data)
    OBVIOUS
  <2>2. CASE <<b, c>> \in acc.indexes[f]
    <3>1. c \in DOMAIN filed[p] /\ f \in Indexed(acc, filed[p][c]) /\ b = filed[p][c].field[f]
      BY <2>1, <2>2 DEF ListedAreFiled
    <3>2. filed'[p][c] = filed[p][c] /\ c \in DOMAIN filed'[p]
      BY <1>5, <2>1, <3>1
    <3>3. QED
      BY <1>4, <3>1, <3>2
  <2>3. CASE <<b, c>> \notin acc.indexes[f]
    <3>1. f \in Indexed(acc, data) /\ c = a /\ b = data.field[f]
      BY <1>2, <1>3, <2>3
    <3>2. QED
      BY <1>4, <1>5, <3>1
  <2>4. QED
    BY <2>2, <2>3
<1>9. EntriesCounted(p, r)'
  <2> SUFFICES ASSUME p \notin miscounted'
               PROVE  /\ \A c : <<p, c>> \notin misused'
                      /\ \A f \in Fields : r.entries[f] = Cardinality(r.indexes[f])
    BY DEF EntriesCounted
  <2>1. a \notin DOMAIN filed[p] /\ p \notin miscounted
    OBVIOUS
  <2>2. (\A c : <<p, c>> \notin misused) /\ \A f \in Fields : acc.entries[f] = Cardinality(acc.indexes[f])
    BY <2>1 DEF EntriesCounted
  <2>3. \A c : <<p, c>> \notin misused'
    BY <2>1, <2>2
  <2>4. ASSUME NEW f \in Fields PROVE r.entries[f] = Cardinality(r.indexes[f])
    <3>1. CASE f \in Indexed(acc, data)
      <4>1. <<data.field[f], a>> \notin acc.indexes[f]
        BY <2>1, <2>2 DEF ListedAreFiled
      <4>2. IsFiniteSet(acc.indexes[f])
        BY DEF IsAccelerator
      <4>3. Cardinality(acc.indexes[f] \cup {<<data.field[f], a>>}) = Cardinality(acc.indexes[f]) + 1
        BY <4>1, <4>2, FS_AddElement
      <4>4. QED
        BY <1>2, <2>2, <3>1, <4>3
    <3>2. CASE f \notin Indexed(acc, data)
      BY <1>3, <2>2, <3>2
    <3>3. QED
      BY <3>1, <3>2
  <2>5. QED
    BY <2>3, <2>4
<1>10. QED
  BY <1>6, <1>7, <1>8, <1>9

LEMMA AccountRemoved ==
  ASSUME NEW p, DOMAIN filed = AccelPrograms, p \in AccelPrograms, NEW a, NEW data,
         NEW acc, IsAccelerator(acc), NEW r, r = RemoveEntries(acc, a, data),
         AccountsListed(p, acc), ListedAreFiled(p, acc), EntriesCounted(p, acc),
         filed' = [filed EXCEPT ![p] = Drop(@, a)],
         misused' = IF a \in DOMAIN filed[p] /\ filed[p][a] # data THEN misused \cup {<<p, a>>} ELSE misused,
         miscounted' = IF a \in DOMAIN filed[p] /\ filed[p][a] = data THEN miscounted ELSE miscounted \cup {p}
  PROVE  /\ IsAccelerator(r)
         /\ AccountsListed(p, r)' /\ ListedAreFiled(p, r)' /\ EntriesCounted(p, r)'
<1>1. /\ DOMAIN r = {"tracked", "indexes", "seen", "entries"} /\ r.tracked = acc.tracked
      /\ DOMAIN r.indexes = Fields /\ DOMAIN r.entries = Fields /\ r.seen = acc.seen
  BY RemoveEffect
<1>2. \A f \in Fields : f \in Indexed(acc, data) =>
        /\ r.indexes[f] = acc.indexes[f] \ {<<data.field[f], a>>}
        /\ r.entries[f] = IF data.field[f] \in acc.seen[f] /\ acc.entries[f] > 0
                          THEN acc.entries[f] - 1 ELSE acc.entries[f]
  BY RemoveEffect
<1>3. \A f \in Fields : f \notin Indexed(acc, data) =>
        r.indexes[f] = acc.indexes[f] /\ r.entries[f] = acc.entries[f]
  BY RemoveEffect
<1>4. \A d : Indexed(r, d) = Indexed(acc, d) /\ Indexed(acc, d) \subseteq Fields
  BY <1>1, IndexedOf DEF IsAccelerator
<1>5. /\ DOMAIN filed'[p] = DOMAIN filed[p] \ {a}
      /\ \A b \in DOMAIN filed'[p] : filed'[p][b] = filed[p][b]
  BY DEF Drop
<1>6. IsAccelerator(r)
  <2>1. ASSUME NEW f \in Fields
        PROVE  /\ \A x \in r.indexes[f] : \E b, c : x = <<b, c>> /\ b \in r.seen[f]
               /\ IsFiniteSet(r.indexes[f]) /\ IsFiniteSet(r.seen[f]) /\ r.entries[f] \in Nat
    <3>1. /\ \A x \in acc.indexes[f] : \E b, c : x = <<b, c>> /\ b \in acc.seen[f]
          /\ IsFiniteSet(acc.indexes[f]) /\ IsFiniteSet(acc.seen[f]) /\ acc.entries[f] \in Nat
      BY DEF IsAccelerator
    <3>2. CASE f \in Indexed(acc, data)
      <4>1. \A S, x : IsFiniteSet(S) => IsFiniteSet(S \ {x})
        BY FS_RemoveElement
      <4>2. r.entries[f] \in Nat
        BY <1>2, <3>1, <3>2
      <4>3. PICK x : x = <<data.field[f], a>>
        OBVIOUS
      <4>4. r.indexes[f] = acc.indexes[f] \ {x} /\ r.seen[f] = acc.seen[f]
        BY <1>1, <1>2, <3>2, <4>3
      <4>5. IsFiniteSet(r.indexes[f]) /\ IsFiniteSet(r.seen[f])
        <5>1. IsFiniteSet(acc.indexes[f] \ {x})
          BY <3>1, <4>1
        <5>2. QED
          BY <3>1, <4>4, <5>1
      <4>6. \A y \in r.indexes[f] : \E b, c : y = <<b, c>> /\ b \in r.seen[f]
        BY <3>1, <4>4
      <4>7. QED
        BY <4>2, <4>5, <4>6
    <3>3. CASE f \notin Indexed(acc, data)
      BY <1>1, <1>3, <3>1, <3>3
    <3>4. QED
      BY <3>2, <3>3
  <2>2. DOMAIN r.seen = Fields
    BY <1>1 DEF IsAccelerator
  <2>3. QED
    BY <1>1, <2>1, <2>2 DEF IsAccelerator
<1>7. AccountsListed(p, r)'
  <2> SUFFICES ASSUME NEW b \in DOMAIN filed'[p], NEW f \in Indexed(r, filed'[p][b])
               PROVE  <<filed'[p][b].field[f], b>> \in r.indexes[f] /\ filed'[p][b].field[f] \in r.seen[f]
    BY DEF AccountsListed, Indexed
  <2>1. /\ b # a /\ b \in DOMAIN filed[p] /\ filed'[p][b] = filed[p][b]
        /\ f \in Indexed(acc, filed[p][b]) /\ f \in Fields
    BY <1>4, <1>5
  <2>2. <<filed[p][b].field[f], b>> \in acc.indexes[f] /\ filed[p][b].field[f] \in acc.seen[f]
    BY <2>1 DEF AccountsListed
  <2>3. QED
    BY <1>1, <1>2, <1>3, <2>1, <2>2
<1>8. ListedAreFiled(p, r)'
  <2> SUFFICES ASSUME NEW f \in Fields, NEW b, NEW c, <<b, c>> \in r.indexes[f], <<p, c>> \notin misused'
               PROVE  /\ c \in DOMAIN filed'[p] /\ f \in Indexed(r, filed'[p][c])
                      /\ b = filed'[p][c].field[f]
    BY DEF ListedAreFiled, Indexed
  <2>1. <<p, c>> \notin misused /\ (c = a /\ a \in DOMAIN filed[p] => filed[p][a] = data)
    OBVIOUS
  <2>2. <<b, c>> \in acc.indexes[f] /\ ~(f \in Indexed(acc, data) /\ b = data.field[f] /\ c = a)
    BY <1>2, <1>3
  <2>3. c \in DOMAIN filed[p] /\ f \in Indexed(acc, filed[p][c]) /\ b = filed[p][c].field[f]
    BY <2>1, <2>2 DEF ListedAreFiled
  <2>4. c # a
    BY <2>1, <2>2, <2>3
  <2>5. QED
    BY <1>4, <1>5, <2>3, <2>4
<1>9. EntriesCounted(p, r)'
  <2> SUFFICES ASSUME p \notin miscounted'
               PROVE  /\ \A c : <<p, c>> \notin misused'
                      /\ \A f \in Fields : r.entries[f] = Cardinality(r.indexes[f])
    BY DEF EntriesCounted
  <2>1. a \in DOMAIN filed[p] /\ filed[p][a] = data /\ p \notin miscounted
    OBVIOUS
  <2>2. (\A c : <<p, c>> \notin misused) /\ \A f \in Fields : acc.entries[f] = Cardinality(acc.indexes[f])
    BY <2>1 DEF EntriesCounted
  <2>3. \A c : <<p, c>> \notin misused'
    BY <2>1, <2>2
  <2>4. ASSUME NEW f \in Fields PROVE r.entries[f] = Cardinality(r.indexes[f])
    <3>1. CASE f \in Indexed(acc, data)
      <4>1. <<data.field[f], a>> \in acc.indexes[f] /\ data.field[f] \in acc.seen[f]
        BY <2>1, <3>1 DEF AccountsListed
      <4>2. IsFiniteSet(acc.indexes[f]) /\ acc.entries[f] \in Nat
        BY DEF IsAccelerator
      <4>3. Cardinality(acc.indexes[f] \ {<<data.field[f], a>>}) = Cardinality(acc.indexes[f]) - 1
        <5>1. PICK x : x = <<data.field[f], a>>
          OBVIOUS
        <5>2. Cardinality(acc.indexes[f] \ {x}) = Cardinality(acc.indexes[f]) - 1
          BY <4>1, <4>2, <5>1, FS_RemoveElement
        <5>3. QED
          BY <5>1, <5>2
      <4>4. Cardinality(acc.indexes[f]) # 0
        BY <4>1, <4>2, FS_EmptySet
      <4>5. acc.entries[f] > 0
        BY <2>2, <4>2, <4>4
      <4>6. QED
        BY <1>2, <2>2, <3>1, <4>1, <4>3, <4>5
    <3>2. CASE f \notin Indexed(acc, data)
      BY <1>3, <2>2, <3>2
    <3>3. QED
      BY <3>1, <3>2
  <2>5. QED
    BY <2>3, <2>4
<1>10. QED
  BY <1>6, <1>7, <1>8, <1>9

\* The accelerator of a program that has none: it lists nothing, and nothing is filed.
LEMMA NothingFiled ==
  ASSUME NEW p, DOMAIN filed[p] = {}, \A a : <<p, a>> \notin misused,
         NEW tracked \in SUBSET Fields, NEW acc, acc = NewAccelerator(tracked)
  PROVE  /\ IsAccelerator(acc) /\ AccountsListed(p, acc)
         /\ ListedAreFiled(p, acc) /\ EntriesCounted(p, acc)
<1>1. IsAccelerator(acc) /\ \A f \in Fields : acc.indexes[f] = {} /\ acc.entries[f] = 0
  BY NewAcceleratorOk
<1>2. \A f \in Fields : acc.entries[f] = Cardinality(acc.indexes[f])
  BY <1>1, FS_EmptySet
<1>3. QED
  BY <1>1, <1>2 DEF AccountsListed, ListedAreFiled, EntriesCounted

LEMMA ConfigureStep ==
  ASSUME AccelInv, NEW p \in AccelPrograms, NEW offsets \in OffsetLists,
         ConfigureProgram(p, offsets)
  PROVE  AccelInv'
<1>1. offsets \in SUBSET Fields
  BY AccelAssumption
<1>2. /\ DOMAIN program_accelerators' \subseteq AccelPrograms /\ DOMAIN filed' = AccelPrograms
      /\ \A q \in DOMAIN program_offset_configs' : program_offset_configs'[q] \subseteq Fields
  BY <1>1 DEF ConfigureProgram, AccelInv, Put
<1>3. ASSUME NEW q \in AccelPrograms PROVE AccelProgramOk(q)'
  <2>1. AccelProgramOk(q) /\ filed' = filed /\ misused' = misused /\ miscounted' = miscounted
    BY DEF ConfigureProgram, AccelInv
  <2>2. CASE q = p /\ p \notin DOMAIN program_accelerators
    <3>1. DOMAIN filed[p] = {} /\ \A a : <<p, a>> \notin misused
      BY <2>1, <2>2 DEF AccelProgramOk
    <3>2. PICK acc : acc = NewAccelerator(offsets)
      OBVIOUS
    <3>3. p \in DOMAIN program_accelerators' /\ program_accelerators'[p] = acc
      BY <2>2, <3>2 DEF ConfigureProgram, Put
    <3>4. /\ IsAccelerator(acc) /\ AccountsListed(p, acc)
          /\ ListedAreFiled(p, acc) /\ EntriesCounted(p, acc)
      BY <1>1, <3>1, <3>2, NothingFiled
    <3>5. AccountsListed(p, acc)' /\ ListedAreFiled(p, acc)' /\ EntriesCounted(p, acc)'
      BY <2>1, <3>4 DEF AccountsListed, ListedAreFiled, EntriesCounted
    <3>6. QED
      BY <2>2, <3>3, <3>4, <3>5 DEF AccelProgramOk, AccountsListed, ListedAreFiled, EntriesCounted
  <2>3. CASE ~(q = p /\ p \notin DOMAIN program_accelerators)
    <3>1. /\ q \in DOMAIN program_accelerators' <=> q \in DOMAIN program_accelerators
          /\ q \in DOMAIN program_accelerators => program_accelerators'[q] = program_accelerators[q]
      BY <2>3 DEF ConfigureProgram, Put
    <3>2. QED
      BY <2>1, <3>1, ProgramKept
  <2>4. QED
    BY <2>2, <2>3
<1>4. QED
  BY <1>2, <1>3 DEF AccelInv

LEMMA InsertStep ==
  ASSUME AccelInv, NEW p \in AccelPrograms, NEW a \in AccelIds, NEW data \in Samples,
         AccelInsert(p, a, data)
  PROVE  AccelInv'
<1>1. PICK configured : configured = IF p \in DOMAIN program_offset_configs
                                     THEN program_offset_configs[p] ELSE {"Discriminator", "Owner"}
  OBVIOUS
<1>2. configured \in SUBSET Fields
  BY <1>1 DEF AccelInv, Fields, CommonOffset
<1>3. PICK acc : acc = IF p \in DOMAIN program_accelerators THEN program_accelerators[p]
                       ELSE NewAccelerator(configured)
  OBVIOUS
<1>4. PICK r : r = FileIn(acc, a, data)
  OBVIOUS
<1>5. /\ program_accelerators' = Put(program_accelerators, p, r)
      /\ filed' = [filed EXCEPT ![p] = Put(@, a, data)]
      /\ misused' = IF a \in DOMAIN filed[p] /\ filed[p][a] # data
                      THEN misused \cup {<<p, a>>} ELSE misused
      /\ miscounted' = IF a \in DOMAIN filed[p] THEN miscounted \cup {p} ELSE miscounted
      /\ program_offset_configs' = program_offset_configs
  BY <1>1, <1>3, <1>4 DEF AccelInsert
<1>6. DOMAIN filed = AccelPrograms /\ AccelProgramOk(p)
  BY DEF AccelInv
<1>7. /\ IsAccelerator(acc) /\ AccountsListed(p, acc)
      /\ ListedAreFiled(p, acc) /\ EntriesCounted(p, acc)
  <2>1. CASE p \in DOMAIN program_accelerators
    BY <1>3, <1>6, <2>1 DEF AccelProgramOk
  <2>2. CASE p \notin DOMAIN program_accelerators
    <3>1. DOMAIN filed[p] = {} /\ (\A x : <<p, x>> \notin misused) /\ acc = NewAccelerator(configured)
      BY <1>3, <1>6, <2>2 DEF AccelProgramOk
    <3>2. QED
      BY <1>2, <3>1, NothingFiled
  <2>3. QED
    BY <2>1, <2>2
<1>8. /\ IsAccelerator(r)
      /\ AccountsListed(p, r)' /\ ListedAreFiled(p, r)' /\ EntriesCounted(p, r)'
  BY <1>4, <1>5, <1>6, <1>7, AccountFiled
<1>9. /\ DOMAIN program_accelerators' = DOMAIN program_accelerators \cup {p}
      /\ program_accelerators'[p] = r
      /\ \A q \in DOMAIN program_accelerators : q # p => program_accelerators'[q] = program_accelerators[q]
  BY <1>5 DEF Put
<1>10. AccelProgramOk(p)'
  BY <1>8, <1>9 DEF AccelProgramOk, AccountsListed, ListedAreFiled, EntriesCounted
<1>11. ASSUME NEW q \in AccelPrograms, q # p PROVE AccelProgramOk(q)'
  <2>1. AccelProgramOk(q)
    BY DEF AccelInv
  <2>2. filed'[q] = filed[q]
    BY <1>5, <1>6, <1>11
  <2>3. (\A x : <<q, x>> \in misused' <=> <<q, x>> \in misused)
    BY <1>5, <1>11
  <2>4. q \in miscounted' <=> q \in miscounted
    BY <1>5, <1>11
  <2>5. QED
    BY <1>9, <1>11, <2>1, <2>2, <2>3, <2>4, ProgramKept
<1>12. /\ DOMAIN program_accelerators' \subseteq AccelPrograms /\ DOMAIN filed' = AccelPrograms
       /\ \A q \in DOMAIN program_offset_configs' : program_offset_configs'[q] \subseteq Fields
  BY <1>5, <1>9 DEF AccelInv
<1>13. QED
  BY <1>10, <1>11, <1>12 DEF AccelInv

LEMMA RemoveStep ==
  ASSUME AccelInv, NEW p \in AccelPrograms, NEW a \in AccelIds, NEW data \in Samples,
         AccelRemove(p, a, data)
  PROVE  AccelInv'
<1>1. /\ filed' = [filed EXCEPT ![p] = Drop(@, a)]
      /\ misused' = IF a \in DOMAIN filed[p] /\ filed[p][a] # data
                      THEN misused \cup {<<p, a>>} ELSE misused
      /\ miscounted' = IF a \in DOMAIN filed[p] /\ filed[p][a] = data
                         THEN miscounted ELSE miscounted \cup {p}
      /\ program_offset_configs' = program_offset_configs
  BY DEF AccelRemove
<1>2. DOMAIN filed = AccelPrograms /\ AccelProgramOk(p)
  BY DEF AccelInv
<1>3. /\ DOMAIN program_accelerators' = DOMAIN program_accelerators
      /\ \A q \in DOMAIN program_accelerators : q # p => program_accelerators'[q] = program_accelerators[q]
  BY DEF AccelRemove, Put
<1>4. AccelProgramOk(p)'
  <2>1. CASE p \in DOMAIN program_accelerators
    <3>1. PICK acc : acc = program_accelerators[p]
      OBVIOUS
    <3>2. PICK r : r = RemoveEntries(acc, a, data)
      OBVIOUS
    <3>3. p \in DOMAIN program_accelerators' /\ program_accelerators'[p] = r
      BY <2>1, <3>1, <3>2 DEF AccelRemove, Put
    <3>4. /\ IsAccelerator(acc) /\ AccountsListed(p, acc)
          /\ ListedAreFiled(p, acc) /\ EntriesCounted(p, acc)
      BY <1>2, <2>1, <3>1 DEF AccelProgramOk
    <3>5. /\ IsAccelerator(r)
          /\ AccountsListed(p, r)' /\ ListedAreFiled(p, r)' /\ EntriesCounted(p, r)'
      BY <1>1, <1>2, <3>2, <3>4, AccountRemoved
    <3>6. QED
      BY <3>3, <3>5 DEF AccelProgramOk, AccountsListed, ListedAreFiled, EntriesCounted
  <2>2. CASE p \notin DOMAIN program_accelerators
    <3>1. DOMAIN filed[p] = {} /\ \A x : <<p, x>> \notin misused
      BY <1>2, <2>2 DEF AccelProgramOk
    <3>2. DOMAIN filed'[p] = {} /\ misused' = misused
      BY <1>1, <1>2, <3>1 DEF Drop
    <3>3. p \notin DOMAIN program_accelerators'
      BY <1>3, <2>2
    <3>4. QED
      BY <3>1, <3>2, <3>3 DEF AccelProgramOk
  <2>3. QED
    BY <2>1, <2>2
<1>5. ASSUME NEW q \in AccelPrograms, q # p PROVE AccelProgramOk(q)'
  <2>1. AccelProgramOk(q)
    BY DEF AccelInv
  <2>2. filed'[q] = filed[q]
    BY <1>1, <1>2, <1>5
  <2>3. \A x : <<q, x>> \in misused' <=> <<q, x>> \in misused
    BY <1>1, <1>5
  <2>4. q \in miscounted' <=> q \in miscounted
    BY <1>1, <1>5
  <2>5. QED
    BY <1>3, <1>5, <2>1, <2>2, <2>3, <2>4, ProgramKept
<1>6. /\ DOMAIN program_accelerators' \subseteq AccelPrograms /\ DOMAIN filed' = AccelPrograms
      /\ \A q \in DOMAIN program_offset_configs' : program_offset_configs'[q] \subseteq Fields
  BY <1>1, <1>3 DEF AccelInv
<1>7. QED
  BY <1>4, <1>5, <1>6 DEF AccelInv

LEMMA AccelInvHolds == AccelSpec => []AccelInv
<1>1. AccelInit => AccelInv
  BY DEF AccelInit, AccelInv, EmptyMap, AccelProgramOk
<1>2. AccelInv /\ [AccelNext]_accelState => AccelInv'
  <2> SUFFICES ASSUME AccelInv, [AccelNext]_accelState PROVE AccelInv'
    OBVIOUS
  <2>1. CASE \E p \in AccelPrograms, offsets \in OffsetLists : ConfigureProgram(p, offsets)
    BY <2>1, ConfigureStep
  <2>2. CASE \E p \in AccelPrograms, a \in AccelIds, data \in Samples : AccelInsert(p, a, data)
    BY <2>2, InsertStep
  <2>3. CASE \E p \in AccelPrograms, a \in AccelIds, data \in Samples : AccelRemove(p, a, data)
    BY <2>3, RemoveStep
  <2>4. CASE UNCHANGED accelState
    <3>1. /\ program_accelerators' = program_accelerators /\ filed' = filed
          /\ misused' = misused /\ miscounted' = miscounted
          /\ program_offset_configs' = program_offset_configs
      BY <2>4 DEF accelState
    <3>2. \A p \in AccelPrograms : AccelProgramOk(p)'
      BY <3>1, ProgramKept DEF AccelInv
    <3>3. QED
      BY <3>1, <3>2 DEF AccelInv
  <2>5. QED
    BY <2>1, <2>2, <2>3, <2>4 DEF AccelNext
<1>3. QED
  BY <1>1, <1>2, PTL DEF AccelSpec

\* query() finds every account under the bytes it was last inserted with, answers with no
\* other account unless callers filed or removed it with other data than before, and
\* stats() counts the entries it lists while callers pair insertions and removals.
THEOREM AcceleratorLists == AccelSpec => []AcceleratorExact
<1>1. AccelInv => AcceleratorExact
  <2> SUFFICES ASSUME AccelInv, NEW p \in DOMAIN program_accelerators, NEW acc,
                      acc = program_accelerators[p]
               PROVE  /\ \A a \in DOMAIN filed[p], f \in Fields :
                           f \in Indexed(acc, filed[p][a]) =>
                              /\ HasAnswer(p, f, filed[p][a].field[f])
                              /\ a \in AccelAnswer(p, f, filed[p][a].field[f])
                      /\ \A f \in Fields, b \in FieldBytes : HasAnswer(p, f, b) =>
                           \A a \in AccelAnswer(p, f, b) :
                              <<p, a>> \in misused \/ (a \in DOMAIN filed[p] /\ filed[p][a].field[f] = b)
                      /\ p \notin miscounted => \A f \in Fields :
                           /\ OffsetIndexStats(p, f).total_entries = Cardinality(acc.indexes[f])
                           /\ OffsetIndexStats(p, f).unique_keys >= Cardinality({x[1] : x \in acc.indexes[f]})
    BY DEF AcceleratorExact
  <2>1. /\ IsAccelerator(acc) /\ AccountsListed(p, acc)
        /\ ListedAreFiled(p, acc) /\ EntriesCounted(p, acc)
    BY DEF AccelInv, AccelProgramOk
  <2>2. ASSUME NEW a \in DOMAIN filed[p], NEW f \in Fields, f \in Indexed(acc, filed[p][a])
        PROVE  /\ HasAnswer(p, f, filed[p][a].field[f])
               /\ a \in AccelAnswer(p, f, filed[p][a].field[f])
    <3>1. PICK b : b = filed[p][a].field[f]
      OBVIOUS
    <3>2. <<b, a>> \in acc.indexes[f] /\ b \in acc.seen[f]
      BY <2>1, <2>2, <3>1 DEF AccountsListed
    <3>3. <<b, a>>[1] = b /\ <<b, a>>[2] = a
      OBVIOUS
    <3>4. QED
      BY <3>1, <3>2, <3>3 DEF HasAnswer, AccelAnswer
  <2>3. ASSUME NEW f \in Fields, NEW b \in FieldBytes, NEW a \in AccelAnswer(p, f, b)
        PROVE  <<p, a>> \in misused \/ (a \in DOMAIN filed[p] /\ filed[p][a].field[f] = b)
    <3>1. PICK y \in acc.indexes[f] : y[1] = b /\ a = y[2]
      BY <2>3 DEF AccelAnswer
    <3>2. PICK b2, a2 : y = <<b2, a2>>
      BY <2>1 DEF IsAccelerator
    <3>3. <<b, a>> \in acc.indexes[f]
      BY <3>1, <3>2
    <3>4. QED
      BY <2>1, <3>3 DEF ListedAreFiled
  <2>4. ASSUME p \notin miscounted, NEW f \in Fields
        PROVE  /\ OffsetIndexStats(p, f).total_entries = Cardinality(acc.indexes[f])
               /\ OffsetIndexStats(p, f).unique_keys >= Cardinality({x[1] : x \in acc.indexes[f]})
    <3>1. OffsetIndexStats(p, f).total_entries = Cardinality(acc.indexes[f])
      BY <2>1, <2>4 DEF OffsetIndexStats, EntriesCounted
    <3>2. PICK keys : keys = {x[1] : x \in acc.indexes[f]}
      OBVIOUS
    <3>3. keys \subseteq acc.seen[f] /\ IsFiniteSet(acc.seen[f])
      BY <2>1, <3>2 DEF IsAccelerator
    <3>4. Cardinality(keys) \in Nat /\ Cardinality(acc.seen[f]) \in Nat
             /\ Cardinality(keys) <= Cardinality(acc.seen[f])
      BY <3>3, FS_Subset, FS_CardinalityType
    <3>5. OffsetIndexStats(p, f).unique_keys = Cardinality(acc.seen[f])
      BY DEF OffsetIndexStats
    <3>6. QED
      BY <3>1, <3>2, <3>4, <3>5
  <2>5. QED
    BY <2>2, <2>3, <2>4
<1>2. QED
  BY <1>1, AccelInvHolds, PTL

----------------------------------------------------------------------------
(* NumaFabric: a buffer has one owner, though the node a call works on was  *)
(* chosen before that node's lock was taken.                                *)

BufferJob == [op : {"acquire_buffer", "release_buffer"}, pc : {"locked"}, node : Nodes,
              offset : {0}, value : {0}]
WriteJob == [op : {"write"}, pc : {"locked"}, node : Nodes, offset : Offsets, value : NumaValues]
NumaJob == {NoJob} \cup BufferJob \cup WriteJob

NumaShape ==
    /\ policy \in Policies /\ COUNTER \in {0, 1} /\ made \in Nat
    /\ job \in [Workers -> NumaJob] /\ held \in [Workers -> Nat]
    /\ pools \in [Nodes -> Seq(Nat)] /\ storage \in [Nodes -> Seq(Nat)]
    /\ copied \in [Nodes \X Offsets -> Nat]

\* A thread acquires a buffer while it has none, and releases the one it has.
HeldInCall ==
    \A t \in Workers : /\ job[t].op = "acquire_buffer" => held[t] = 0
                       /\ job[t].op = "release_buffer" => held[t] # 0

\* The buffers in use and in the pools are buffers made, and all different.
BuffersMade ==
    /\ \A t \in Workers : held[t] <= made
    /\ \A n \in Nodes : \A i \in 1 .. Len(pools[n]) : pools[n][i] # 0 /\ pools[n][i] <= made

OneOwner ==
    /\ \A t, u \in Workers : held[t] = held[u] /\ held[t] # 0 => t = u
    /\ \A t \in Workers, n \in Nodes : \A i \in 1 .. Len(pools[n]) : pools[n][i] # held[t]
    /\ \A n, m \in Nodes : \A i \in 1 .. Len(pools[n]), j \in 1 .. Len(pools[m]) :
          pools[n][i] = pools[m][j] => n = m /\ i = j

PoolBounded == \A n \in Nodes : Len(pools[n]) <= PoolSize

StaysReadable ==
    \A n \in Nodes, o \in Offsets : copied[<<n, o>>] # 0 =>
        o + 1 <= Len(storage[n]) /\ storage[n][o + 1] = copied[<<n, o>>]

GrownAsWritten ==
    \A n \in Nodes : Len(storage[n]) > InitialCells =>
        \E o \in Offsets : copied[<<n, o>>] # 0 /\ Len(storage[n]) = o + 1

FixedNode ==
    policy \in {"Preferred", "Bind"} =>
        /\ \A t \in Workers : job[t].op # "idle" => job[t].node = preferred_node
        /\ \A n \in Nodes : n # preferred_node =>
             Len(pools[n]) = 0 /\ \A o \in Offsets : copied[<<n, o>>] = 0

NumaInv == /\ NumaShape /\ HeldInCall /\ BuffersMade /\ OneOwner /\ PoolBounded
           /\ StaysReadable /\ GrownAsWritten /\ FixedNode

LEMMA NumaJobs ==
  ASSUME NumaShape, NEW t \in Workers
  PROVE  /\ job[t].op = "idle" => job[t] = NoJob
         /\ job[t].op # "idle" => job[t].node \in Nodes
         /\ job[t].op = "write" => job[t].offset \in Offsets /\ job[t].value \in NumaValues
<1>1. job[t] \in NumaJob
  BY DEF NumaShape
<1>2. QED
  BY <1>1 DEF NumaJob, NoJob, BufferJob, WriteJob

LEMMA NumaInitial == NumaInit => NumaInv
<1> SUFFICES ASSUME NumaInit PROVE NumaInv
  OBVIOUS
<1>1. NumaShape
  <2>1. pools \in [Nodes -> Seq(Nat)]
    BY DEF NumaInit, NewBufferPool
  <2>2. [i \in 1 .. InitialCells |-> 0] \in Seq(Nat)
    BY NumaAssumption
  <2>3. storage \in [Nodes -> Seq(Nat)]
    BY <2>2 DEF NumaInit, NewIndexStorage
  <2>4. QED
    BY <2>1, <2>3 DEF NumaInit, NewAllocator, NumaShape, Nodes, JobsInit, NumaJob
<1>2. \A n \in Nodes : Len(pools[n]) = 0
  BY DEF NumaInit, NewBufferPool
<1>3. \A t \in Workers : job[t].op = "idle" /\ held[t] = 0
  BY DEF NumaInit, JobsInit, NoJob
<1>4. \A n \in Nodes, o \in Offsets : copied[<<n, o>>] = 0
  BY DEF NumaInit
<1>5. HeldInCall /\ BuffersMade /\ OneOwner /\ PoolBounded /\ StaysReadable /\ FixedNode
  BY <1>1, <1>2, <1>3, <1>4, NumaAssumption
     DEF NumaShape, HeldInCall, BuffersMade, OneOwner, PoolBounded, StaysReadable, FixedNode
<1>6. GrownAsWritten
  <2>1. Len([i \in 1 .. InitialCells |-> 0]) = InitialCells
    BY NumaAssumption
  <2>2. QED
    BY <2>1, NumaAssumption DEF NumaInit, NewIndexStorage, GrownAsWritten
<1>7. QED
  BY <1>1, <1>5, <1>6 DEF NumaInv

LEMMA NumaCallKeeps ==
  ASSUME NumaInv, NEW t \in Workers, NEW op, NEW core, NEW offset, NEW value,
         NumaCall(t, op, core, offset, value),
         \/ op = "acquire_buffer" /\ offset = 0 /\ value = 0 /\ held[t] = 0
         \/ op = "release_buffer" /\ offset = 0 /\ value = 0 /\ held[t] # 0
         \/ op = "write" /\ offset \in Offsets /\ value \in NumaValues
  PROVE  NumaInv'
<1>1. NumaShape
  BY DEF NumaInv
<1>2. PICK n : n = optimal_node(core)
  OBVIOUS
<1>3. n \in Nodes /\ (policy \in {"Preferred", "Bind"} => n = preferred_node)
  BY <1>2 DEF NumaCall, optimal_node
<1>4. PICK j : j = [op |-> op, pc |-> "locked", node |-> n, offset |-> offset, value |-> value]
  OBVIOUS
<1>5. job' = [job EXCEPT ![t] = j]
  BY <1>2, <1>4 DEF NumaCall, Begin
<1>6. j \in NumaJob /\ j.op = op /\ j.node = n
  BY <1>3, <1>4 DEF NumaJob, BufferJob, WriteJob
<1>7. /\ policy' = policy /\ preferred_node' = preferred_node /\ pools' = pools
      /\ storage' = storage /\ held' = held /\ made' = made /\ copied' = copied
  BY DEF NumaCall
<1>8. COUNTER' \in {0, 1}
  BY <1>1 DEF NumaCall, interleaved_node, NumaShape
<1>9. job' \in [Workers -> NumaJob] /\ job'[t] = j /\ \A u \in Workers : u # t => job'[u] = job[u]
  BY <1>1, <1>5, <1>6 DEF NumaShape
<1>10. NumaShape'
  BY <1>1, <1>7, <1>8, <1>9 DEF NumaShape
<1>11. HeldInCall'
  BY <1>6, <1>7, <1>9 DEF NumaInv, HeldInCall
<1>12. BuffersMade' /\ OneOwner' /\ PoolBounded' /\ StaysReadable' /\ GrownAsWritten'
  BY <1>7 DEF NumaInv, BuffersMade, OneOwner, PoolBounded, StaysReadable, GrownAsWritten
<1>13. FixedNode'
  BY <1>3, <1>6, <1>7, <1>9 DEF NumaInv, FixedNode
<1>14. QED
  BY <1>10, <1>11, <1>12, <1>13 DEF NumaInv

\* A call that panics leaves everything but the buffer it was given.
LEMMA NumaPanicKeeps ==
  ASSUME NumaInv, NEW t \in Workers, NEW op, NEW core, NumaPanic(t, op, core)
  PROVE  NumaInv'
<1>1. NumaShape /\ job[t].op = "idle"
  BY DEF NumaInv, NumaPanic
<1>2. /\ policy' = policy /\ preferred_node' = preferred_node /\ pools' = pools
      /\ storage' = storage /\ made' = made /\ copied' = copied /\ job' = job
  BY DEF NumaPanic
<1>3. held' \in [Workers -> Nat] /\ \A u \in Workers : held'[u] = held[u] \/ (u = t /\ held'[u] = 0)
  BY <1>1 DEF NumaPanic, NumaShape
<1>4. COUNTER' \in {0, 1}
  BY <1>1 DEF NumaPanic, interleaved_node, NumaShape
<1>5. NumaShape'
  BY <1>1, <1>2, <1>3, <1>4 DEF NumaShape
<1>6. HeldInCall'
  BY <1>1, <1>2, <1>3 DEF NumaInv, HeldInCall
<1>7. BuffersMade'
  <2>1. made \in Nat /\ \A u \in Workers : held[u] <= made
    BY <1>1 DEF NumaInv, BuffersMade, NumaShape
  <2>2. \A u \in Workers : held'[u] <= made
    BY <1>3, <2>1
  <2>3. QED
    BY <1>2, <2>2 DEF NumaInv, BuffersMade
<1>8. OneOwner'
  <2>1. \A u, v \in Workers : held'[u] = held'[v] /\ held'[u] # 0 => u = v
    BY <1>3 DEF NumaInv, OneOwner
  <2>2. \A u \in Workers, n \in Nodes : \A i \in 1 .. Len(pools[n]) : pools[n][i] # held'[u]
    BY <1>3 DEF NumaInv, OneOwner, BuffersMade
  <2>3. QED
    BY <1>2, <2>1, <2>2 DEF NumaInv, OneOwner
<1>9. PoolBounded' /\ StaysReadable' /\ GrownAsWritten' /\ FixedNode'
  BY <1>2 DEF NumaInv, PoolBounded, StaysReadable, GrownAsWritten, FixedNode
<1>10. QED
  BY <1>5, <1>6, <1>7, <1>8, <1>9 DEF NumaInv

\* The end of a call: what it leaves of the thread's job.
LEMMA NumaCallEnds ==
  ASSUME NumaInv, NEW t \in Workers, Finish(t), policy' = policy, preferred_node' = preferred_node
  PROVE  /\ job' \in [Workers -> NumaJob]
         /\ job'[t].op = "idle" /\ \A u \in Workers : u # t => job'[u] = job[u]
BY DEF NumaInv, NumaShape, Finish, NumaJob, NoJob

LEMMA AcquireBufferKeeps ==
  ASSUME NumaInv, NEW t \in Workers, AcquireBuffer(t)
  PROVE  NumaInv'
<1>1. NumaShape /\ job[t].op = "acquire_buffer" /\ held[t] = 0
  BY DEF NumaInv, HeldInCall, AcquireBuffer, At
<1>2. PICK n : n = job[t].node
  OBVIOUS
<1>3. n \in Nodes /\ (policy \in {"Preferred", "Bind"} => n = preferred_node)
  BY <1>1, <1>2, NumaJobs DEF NumaInv, FixedNode
<1>4. /\ policy' = policy /\ preferred_node' = preferred_node /\ COUNTER' = COUNTER
      /\ storage' = storage /\ copied' = copied /\ Finish(t)
  BY DEF AcquireBuffer
<1>5. /\ job' \in [Workers -> NumaJob]
      /\ job'[t].op = "idle" /\ \A u \in Workers : u # t => job'[u] = job[u]
  BY <1>4, NumaCallEnds
<1>6. PICK pool : pool = pools[n]
  OBVIOUS
<1>7. pool \in Seq(Nat) /\ Len(pool) \in Nat /\ \A i \in 1 .. Len(pool) : pool[i] \in Nat
  <2>1. pool \in Seq(Nat)
    BY <1>1, <1>3, <1>6 DEF NumaShape
  <2>2. QED
    BY <2>1
<1>8. PICK b : b = held'[t]
  OBVIOUS
<1>9. held' = [held EXCEPT ![t] = b] /\ b \in Nat /\ b # 0 /\ b <= made'
      /\ made' \in Nat /\ made <= made' /\ \A u \in Workers : b # held[u]
  <2>1. CASE pool = <<>>
    <3>1. made' = made + 1 /\ held' = [held EXCEPT ![t] = made']
      BY <1>2, <1>6, <2>1 DEF AcquireBuffer
    <3>2. b = made + 1
      BY <1>1, <1>8, <3>1 DEF NumaShape
    <3>3. \A u \in Workers : held[u] <= made /\ held[u] \in Nat
      BY <1>1 DEF NumaInv, BuffersMade, NumaShape
    <3>4. made \in Nat
      BY <1>1 DEF NumaShape
    <3>5. QED
      BY <3>1, <3>2, <3>3, <3>4
  <2>2. CASE pool # <<>>
    <3>1. made' = made /\ held' = [held EXCEPT ![t] = pool[Len(pool)]]
      BY <1>2, <1>6, <2>2 DEF AcquireBuffer, Last
    <3>2. b = pool[Len(pool)]
      BY <1>1, <1>8, <3>1 DEF NumaShape
    <3>3. Len(pool) \in 1 .. Len(pool)
      BY <1>7, <2>2
    <3>4. b # 0 /\ b <= made /\ \A u \in Workers : b # held[u]
      BY <1>3, <1>6, <3>2, <3>3 DEF NumaInv, BuffersMade, OneOwner
    <3>5. QED
      BY <1>1, <1>7, <3>1, <3>2, <3>3, <3>4 DEF NumaShape
  <2>3. QED
    BY <2>1, <2>2
<1>10. PICK rest : rest = pools'[n]
  OBVIOUS
<1>11. /\ pools' = [pools EXCEPT ![n] = rest] /\ rest \in Seq(Nat) /\ Len(rest) <= Len(pool)
       /\ \A i \in 1 .. Len(rest) : rest[i] = pool[i] /\ rest[i] # b
       /\ \A m \in Nodes : m # n => \A i \in 1 .. Len(pools[m]) : pools[m][i] # b
  <2>1. CASE pool = <<>>
    <3>1. pools' = pools /\ made' = made + 1 /\ held' = [held EXCEPT ![t] = made']
      BY <1>2, <1>6, <2>1 DEF AcquireBuffer
    <3>2. b = made + 1
      BY <1>1, <1>8, <3>1 DEF NumaShape
    <3>3. \A m \in Nodes : \A i \in 1 .. Len(pools[m]) : pools[m][i] <= made /\ pools[m][i] \in Nat
      BY <1>1 DEF NumaInv, BuffersMade, NumaShape
    <3>4. made \in Nat
      BY <1>1 DEF NumaShape
    <3>5. \A m \in Nodes : \A i \in 1 .. Len(pools[m]) : pools[m][i] # b
      BY <3>2, <3>3, <3>4
    <3>6. rest = pool /\ pools' = [pools EXCEPT ![n] = rest]
      BY <1>1, <1>3, <1>6, <1>10, <3>1 DEF NumaShape
    <3>7. QED
      BY <1>3, <1>6, <1>7, <3>5, <3>6
  <2>2. CASE pool # <<>>
    <3>1. /\ pools' = [pools EXCEPT ![n] = SubSeq(pool, 1, Len(pool) - 1)]
          /\ held' = [held EXCEPT ![t] = pool[Len(pool)]]
      BY <1>2, <1>6, <2>2 DEF AcquireBuffer, Last, Front
    <3>2. rest = SubSeq(pool, 1, Len(pool) - 1) /\ b = pool[Len(pool)]
      BY <1>1, <1>3, <1>8, <1>10, <3>1 DEF NumaShape
    <3>3. Len(pool) \in 1 .. Len(pool)
      BY <1>7, <2>2
    <3>4. rest \in Seq(Nat) /\ Len(rest) = Len(pool) - 1 /\ \A i \in 1 .. Len(rest) : rest[i] = pool[i]
      <4>1. 1 \in Int /\ Len(pool) - 1 \in Nat
        BY <1>7, <3>3
      <4>2. rest = [i \in 1 .. Len(pool) - 1 |-> pool[i]]
        BY <1>7, <3>2, <4>1
      <4>3. \A i \in 1 .. Len(pool) - 1 : pool[i] \in Nat
        BY <1>7
      <4>4. rest \in Seq(Nat) /\ Len(rest) = Len(pool) - 1
        BY <4>1, <4>2, <4>3
      <4>5. QED
        BY <4>2, <4>4
    <3>5. \A m \in Nodes : \A i \in 1 .. Len(pools[m]) : pools[m][i] = b => m = n /\ i = Len(pool)
      BY <1>3, <1>6, <3>2, <3>3 DEF NumaInv, OneOwner
    <3>6. \A i \in 1 .. Len(rest) : pool[i] # b
      BY <1>3, <1>6, <1>7, <3>4, <3>5
    <3>7. QED
      BY <3>1, <3>2, <3>4, <3>5, <3>6, <1>7
  <2>3. QED
    BY <2>1, <2>2
<1>12. /\ held'[t] = b /\ \A u \in Workers : u # t => held'[u] = held[u]
  BY <1>1, <1>9 DEF NumaShape
<1>13. /\ rest = pools'[n] /\ \A m \in Nodes : m # n => pools'[m] = pools[m]
  BY <1>1, <1>10, <1>11 DEF NumaShape
<1>14. NumaShape'
  BY <1>1, <1>3, <1>4, <1>5, <1>9, <1>11 DEF NumaShape
<1>15. HeldInCall'
  BY <1>5, <1>12 DEF NumaInv, HeldInCall
<1>16. BuffersMade'
  <2>1. \A u \in Workers : held'[u] <= made'
    BY <1>1, <1>9, <1>12 DEF NumaInv, BuffersMade, NumaShape
  <2>2. ASSUME NEW m \in Nodes, NEW i \in 1 .. Len(pools'[m])
        PROVE  pools'[m][i] # 0 /\ pools'[m][i] <= made'
    <3>1. i \in 1 .. Len(pools[m]) /\ pools'[m][i] = pools[m][i]
      BY <1>6, <1>7, <1>11, <1>13, <2>2
    <3>2. pools[m][i] # 0 /\ pools[m][i] <= made /\ pools[m][i] \in Nat
      <4>1. pools[m] \in Seq(Nat)
        BY <1>1 DEF NumaShape
      <4>2. pools[m][i] \in Nat
        BY <3>1, <4>1
      <4>3. QED
        BY <3>1, <4>2 DEF NumaInv, BuffersMade
    <3>3. QED
      BY <1>1, <1>9, <3>1, <3>2 DEF NumaShape
  <2>3. QED
    BY <2>1, <2>2 DEF BuffersMade
<1>17. OneOwner'
  <2>1. \A u, v \in Workers : held'[u] = held'[v] /\ held'[u] # 0 => u = v
    BY <1>9, <1>12 DEF NumaInv, OneOwner
  <2>2. \A m \in Nodes : \A i \in 1 .. Len(pools'[m]) :
          i \in 1 .. Len(pools[m]) /\ pools'[m][i] = pools[m][i] /\ pools'[m][i] # b
    BY <1>6, <1>7, <1>11, <1>13
  <2>3. \A u \in Workers, m \in Nodes : \A i \in 1 .. Len(pools'[m]) : pools'[m][i] # held'[u]
    BY <1>12, <2>2 DEF NumaInv, OneOwner
  <2>4. \A m, o \in Nodes : \A i \in 1 .. Len(pools'[m]), j \in 1 .. Len(pools'[o]) :
           pools'[m][i] = pools'[o][j] => m = o /\ i = j
    BY <2>2 DEF NumaInv, OneOwner
  <2>5. QED
    BY <2>1, <2>3, <2>4 DEF OneOwner
<1>18. PoolBounded'
  <2>1. ASSUME NEW m \in Nodes PROVE Len(pools'[m]) <= PoolSize
    <3>1. Len(pools'[m]) \in Nat /\ Len(pools[m]) \in Nat
      <4>1. pools'[m] \in Seq(Nat) /\ pools[m] \in Seq(Nat)
        BY <1>1, <1>14 DEF NumaShape
      <4>2. QED
        BY <4>1
    <3>2. Len(pools'[m]) <= Len(pools[m])
      BY <1>6, <1>11, <1>13, <3>1
    <3>3. QED
      BY <3>1, <3>2, NumaAssumption DEF NumaInv, PoolBounded
  <2>2. QED
    BY <2>1 DEF PoolBounded
<1>19. StaysReadable' /\ GrownAsWritten'
  BY <1>4 DEF NumaInv, StaysReadable, GrownAsWritten
<1>20. FixedNode'
  BY <1>3, <1>4, <1>5, <1>13 DEF NumaInv, FixedNode
<1>21. QED
  BY <1>14, <1>15, <1>16, <1>17, <1>18, <1>19, <1>20 DEF NumaInv

LEMMA ReleaseBufferKeeps ==
  ASSUME NumaInv, NEW t \in Workers, ReleaseBuffer(t)
  PROVE  NumaInv'
<1>1. NumaShape /\ job[t].op = "release_buffer" /\ held[t] # 0 /\ held[t] \in Nat
  BY DEF NumaInv, HeldInCall, ReleaseBuffer, At, NumaShape
<1>2. PICK n : n = job[t].node
  OBVIOUS
<1>3. n \in Nodes /\ (policy \in {"Preferred", "Bind"} => n = preferred_node)
  BY <1>1, <1>2, NumaJobs DEF NumaInv, FixedNode
<1>4. /\ policy' = policy /\ preferred_node' = preferred_node /\ COUNTER' = COUNTER
      /\ storage' = storage /\ copied' = copied /\ made' = made /\ Finish(t)
  BY DEF ReleaseBuffer
<1>5. /\ job' \in [Workers -> NumaJob]
      /\ job'[t].op = "idle" /\ \A u \in Workers : u # t => job'[u] = job[u]
  BY <1>4, NumaCallEnds
<1>6. PICK pool : pool = pools[n]
  OBVIOUS
<1>7. pool \in Seq(Nat) /\ Len(pool) \in Nat
  BY <1>1, <1>3, <1>6 DEF NumaShape
<1>8. PICK kept : kept = IF Len(pool) < PoolSize THEN Append(pool, held[t]) ELSE pool
  OBVIOUS
<1>9. /\ pools' = [pools EXCEPT ![n] = kept] /\ held' = [held EXCEPT ![t] = 0]
  BY <1>2, <1>3, <1>6, <1>8 DEF ReleaseBuffer
<1>10. /\ kept \in Seq(Nat) /\ Len(kept) \in Nat /\ Len(kept) <= PoolSize
       /\ \A i \in 1 .. Len(kept) : \/ i \in 1 .. Len(pool) /\ kept[i] = pool[i]
                                    \/ i = Len(pool) + 1 /\ kept[i] = held[t]
  <2>1. Len(pool) <= PoolSize
    BY <1>3, <1>6 DEF NumaInv, PoolBounded
  <2>2. QED
    BY <1>1, <1>7, <1>8, <2>1, NumaAssumption
<1>11. held'[t] = 0 /\ \A u \in Workers : u # t => held'[u] = held[u]
  BY <1>1, <1>9 DEF NumaShape
<1>12. pools'[n] = kept /\ \A m \in Nodes : m # n => pools'[m] = pools[m]
  BY <1>1, <1>3, <1>9 DEF NumaShape
<1>13. \A m \in Nodes : \A i \in 1 .. Len(pools'[m]) :
          \/ i \in 1 .. Len(pools[m]) /\ pools'[m][i] = pools[m][i]
          \/ m = n /\ i = Len(pool) + 1 /\ pools'[m][i] = held[t]
  BY <1>6, <1>10, <1>12
<1>14. NumaShape'
  BY <1>1, <1>3, <1>4, <1>5, <1>9, <1>10 DEF NumaShape
<1>15. HeldInCall'
  BY <1>5, <1>11 DEF NumaInv, HeldInCall
<1>16. BuffersMade'
  <2>1. ASSUME NEW u \in Workers PROVE held'[u] <= made'
    <3>1. held[u] <= made /\ made \in Nat /\ made' = made
      BY <1>1, <1>4 DEF NumaInv, BuffersMade, NumaShape
    <3>2. QED
      BY <1>11, <3>1
  <2>2. \A m \in Nodes : \A i \in 1 .. Len(pools'[m]) : pools'[m][i] # 0 /\ pools'[m][i] <= made'
    BY <1>1, <1>4, <1>13 DEF NumaInv, BuffersMade
  <2>3. QED
    BY <2>1, <2>2 DEF BuffersMade
<1>17. OneOwner'
  <2>1. \A u, v \in Workers : held'[u] = held'[v] /\ held'[u] # 0 => u = v
    BY <1>11 DEF NumaInv, OneOwner
  <2>2. ASSUME NEW u \in Workers, NEW m \in Nodes, NEW i \in 1 .. Len(pools'[m])
        PROVE  pools'[m][i] # held'[u]
    <3>1. CASE u = t
      BY <1>11, <1>14, <1>16, <3>1 DEF BuffersMade
    <3>2. CASE u # t
      BY <1>1, <1>11, <1>13, <2>2, <3>2 DEF NumaInv, OneOwner
    <3>3. QED
      BY <3>1, <3>2
  <2>3. \A m, o \in Nodes : \A i \in 1 .. Len(pools'[m]), j \in 1 .. Len(pools'[o]) :
           pools'[m][i] = pools'[o][j] => m = o /\ i = j
    <3>1. \A m \in Nodes : \A i \in 1 .. Len(pools[m]) : pools[m][i] # held[t]
      BY DEF NumaInv, OneOwner
    <3>2. QED
      BY <1>13, <3>1 DEF NumaInv, OneOwner
  <2>4. QED
    BY <2>1, <2>2, <2>3 DEF OneOwner
<1>18. PoolBounded'
  BY <1>10, <1>12 DEF NumaInv, PoolBounded
<1>19. StaysReadable' /\ GrownAsWritten'
  BY <1>4 DEF NumaInv, StaysReadable, GrownAsWritten
<1>20. FixedNode'
  BY <1>3, <1>4, <1>5, <1>12 DEF NumaInv, FixedNode
<1>21. QED
  BY <1>14, <1>15, <1>16, <1>17, <1>18, <1>19, <1>20 DEF NumaInv

LEMMA WriteStorageKeeps ==
  ASSUME NumaInv, NEW t \in Workers, WriteStorage(t)
  PROVE  NumaInv'
<1>1. NumaShape /\ job[t].op = "write"
  BY DEF NumaInv, WriteStorage, At
<1>2. PICK n, o, v : n = job[t].node /\ o = job[t].offset /\ v = job[t].value
  OBVIOUS
<1>3. /\ n \in Nodes /\ o \in Offsets /\ v \in NumaValues /\ o \in Nat /\ v \in Nat
      /\ policy \in {"Preferred", "Bind"} => n = preferred_node
  BY <1>1, <1>2, NumaJobs, NumaAssumption DEF NumaInv, FixedNode
<1>4. /\ policy' = policy /\ preferred_node' = preferred_node /\ COUNTER' = COUNTER
      /\ pools' = pools /\ held' = held /\ made' = made /\ Finish(t)
  BY DEF WriteStorage
<1>5. /\ job' \in [Workers -> NumaJob]
      /\ job'[t].op = "idle" /\ \A u \in Workers : u # t => job'[u] = job[u]
  BY <1>4, NumaCallEnds
<1>6. PICK cells : cells = storage[n]
  OBVIOUS
<1>7. cells \in Seq(Nat) /\ Len(cells) \in Nat
  BY <1>1, <1>3, <1>6 DEF NumaShape
<1>8. PICK long : long = IF o + 1 > Len(cells) THEN Grown(cells, o + 1) ELSE cells
  OBVIOUS
<1>9. PICK cellsNow : cellsNow = [long EXCEPT ![o + 1] = v]
  OBVIOUS
<1>10. /\ storage' = [storage EXCEPT ![n] = cellsNow]
       /\ copied' = [copied EXCEPT ![<<n, o>>] = v]
  BY <1>2, <1>6, <1>8, <1>9 DEF WriteStorage
<1>11. /\ long \in Seq(Nat) /\ Len(cells) <= Len(long) /\ o + 1 <= Len(long)
       /\ \A i \in 1 .. Len(cells) : long[i] = cells[i]
  <2>1. CASE o + 1 > Len(cells)
    <3>1. long = [i \in 1 .. o + 1 |-> IF i \in 1 .. Len(cells) THEN cells[i] ELSE 0]
      BY <1>7, <1>8, <2>1 DEF Grown
    <3>2. \A i \in 1 .. o + 1 : long[i] \in Nat
      BY <1>7, <3>1
    <3>3. long \in Seq(Nat) /\ Len(long) = o + 1
      BY <1>3, <3>1, <3>2
    <3>4. QED
      BY <1>3, <1>7, <2>1, <3>1, <3>3
  <2>2. CASE ~(o + 1 > Len(cells))
    BY <1>3, <1>7, <1>8, <2>2
  <2>3. QED
    BY <2>1, <2>2
<1>12. /\ cellsNow \in Seq(Nat) /\ Len(cellsNow) = Len(long) /\ cellsNow[o + 1] = v
       /\ \A i \in 1 .. Len(long) : i # o + 1 => cellsNow[i] = long[i]
  BY <1>3, <1>9, <1>11
<1>13. storage'[n] = cellsNow /\ \A m \in Nodes : m # n => storage'[m] = storage[m]
  BY <1>1, <1>3, <1>10 DEF NumaShape
<1>14. /\ copied'[<<n, o>>] = v
       /\ \A m \in Nodes, p \in Offsets : ~(m = n /\ p = o) => copied'[<<m, p>>] = copied[<<m, p>>]
  <2>1. <<n, o>> \in Nodes \X Offsets
    BY <1>3
  <2>2. \A x \in Nodes \X Offsets : copied'[x] = IF x = <<n, o>> THEN v ELSE copied[x]
    BY <1>1, <1>10, <2>1 DEF NumaShape
  <2>3. QED
    BY <2>1, <2>2
<1>15. NumaShape'
  BY <1>1, <1>3, <1>4, <1>5, <1>10, <1>12 DEF NumaShape
<1>16. HeldInCall' /\ BuffersMade' /\ OneOwner' /\ PoolBounded'
  <2>1. HeldInCall'
    BY <1>4, <1>5 DEF NumaInv, HeldInCall
  <2>2. BuffersMade' /\ OneOwner' /\ PoolBounded'
    BY <1>4 DEF NumaInv, BuffersMade, OneOwner, PoolBounded
  <2>3. QED
    BY <2>1, <2>2
<1>17. StaysReadable'
  <2> SUFFICES ASSUME NEW m \in Nodes, NEW p \in Offsets, copied'[<<m, p>>] # 0
               PROVE  p + 1 <= Len(storage'[m]) /\ storage'[m][p + 1] = copied'[<<m, p>>]
    BY DEF StaysReadable
  <2>1. p \in Nat
    BY NumaAssumption
  <2>2. CASE m = n /\ p = o
    BY <1>11, <1>12, <1>13, <1>14, <2>2
  <2>3. CASE ~(m = n /\ p = o)
    <3>1. copied'[<<m, p>>] = copied[<<m, p>>]
      BY <1>14, <2>3
    <3>2. p + 1 <= Len(storage[m]) /\ storage[m][p + 1] = copied[<<m, p>>]
      BY <3>1 DEF NumaInv, StaysReadable
    <3>3. CASE m # n
      BY <1>13, <3>1, <3>2, <3>3
    <3>4. CASE m = n
      <4>1. p + 1 \in 1 .. Len(cells) /\ p + 1 # o + 1
        BY <1>3, <1>6, <1>7, <2>1, <2>3, <3>2, <3>4
      <4>2. p + 1 \in 1 .. Len(long) /\ p + 1 <= Len(cellsNow)
        BY <1>7, <1>11, <1>12, <2>1, <4>1
      <4>3. cellsNow[p + 1] = cells[p + 1]
        BY <1>11, <1>12, <4>1, <4>2
      <4>4. QED
        BY <1>6, <1>13, <3>1, <3>2, <3>4, <4>2, <4>3
    <3>5. QED
      BY <3>3, <3>4
  <2>4. QED
    BY <2>2, <2>3
<1>18. FixedNode'
  BY <1>3, <1>4, <1>5, <1>14 DEF NumaInv, FixedNode
<1>19. GrownAsWritten'
  <2> SUFFICES ASSUME NEW m \in Nodes, Len(storage'[m]) > InitialCells
               PROVE  \E p \in Offsets : copied'[<<m, p>>] # 0 /\ Len(storage'[m]) = p + 1
    BY DEF GrownAsWritten
  <2>1. CASE m = n /\ o + 1 > Len(cells)
    <3>1. Len(long) = o + 1
      BY <1>3, <1>8, <2>1 DEF Grown
    <3>2. v # 0
      BY <1>3, NumaAssumption
    <3>3. QED
      BY <1>3, <1>12, <1>13, <1>14, <2>1, <3>1, <3>2
  <2>2. CASE ~(m = n /\ o + 1 > Len(cells))
    <3>1. Len(storage'[m]) = Len(storage[m])
      BY <1>6, <1>8, <1>12, <1>13, <2>2
    <3>2. PICK p \in Offsets : copied[<<m, p>>] # 0 /\ Len(storage[m]) = p + 1
      BY <3>1 DEF NumaInv, GrownAsWritten
    <3>3. copied'[<<m, p>>] # 0
      BY <1>3, <1>14, <3>2, NumaAssumption
    <3>4. QED
      BY <3>1, <3>2, <3>3
  <2>3. QED
    BY <2>1, <2>2
<1>20. QED
  BY <1>15, <1>16, <1>17, <1>18, <1>19 DEF NumaInv

LEMMA NumaInvHolds == NumaSpec => []NumaInv
<1>1. NumaInv /\ [NumaNext]_numaVars => NumaInv'
  <2> SUFFICES ASSUME NumaInv, [NumaNext]_numaVars PROVE NumaInv'
    OBVIOUS
  <2>1. ASSUME NEW t \in Workers, NEW c \in Cores, CallAcquire(t, c) PROVE NumaInv'
    BY <2>1, NumaCallKeeps DEF CallAcquire
  <2>2. ASSUME NEW t \in Workers, NEW c \in Cores, CallRelease(t, c) PROVE NumaInv'
    BY <2>2, NumaCallKeeps DEF CallRelease
  <2>3. ASSUME NEW t \in Workers, NEW c \in Cores, NEW o \in Offsets, NEW v \in NumaValues,
               NumaCall(t, "write", c, o, v)
        PROVE  NumaInv'
    BY <2>3, NumaCallKeeps
  <2>4. ASSUME NEW t \in Workers, AcquireBuffer(t) \/ ReleaseBuffer(t) \/ WriteStorage(t)
        PROVE  NumaInv'
    BY <2>4, AcquireBufferKeeps, ReleaseBufferKeeps, WriteStorageKeeps
  <2>5. CASE UNCHANGED numaVars
    <3>1. /\ policy' = policy /\ preferred_node' = preferred_node /\ COUNTER' = COUNTER
          /\ pools' = pools /\ storage' = storage /\ held' = held /\ made' = made
          /\ copied' = copied /\ job' = job
      BY <2>5 DEF numaVars, numaState
    <3>2. QED
      BY <3>1 DEF NumaInv, NumaShape, HeldInCall, BuffersMade, OneOwner, PoolBounded, StaysReadable,
                  GrownAsWritten, FixedNode
  <2>6. ASSUME NEW t \in Workers, NEW op, NEW c, NumaPanic(t, op, c) PROVE NumaInv'
    BY <2>6, NumaPanicKeeps
  <2>7. QED
    BY <2>1, <2>2, <2>3, <2>4, <2>5, <2>6 DEF NumaNext
<1>2. QED
  BY <1>1, NumaInitial, PTL DEF NumaSpec

\* A buffer is held by one thread or kept in one pool, a pool keeps no more than its size,
\* data stays readable on its node, a storage grows to the farthest write and no further,
\* and a fixed node is the only one used, whatever number of nodes there are and whichever
\* calls panic.
THEOREM NumaOwners == NumaSpec => []NumaHolds
<1>1. NumaInv => NumaHolds
  <2> SUFFICES ASSUME NumaInv PROVE NumaHolds
    OBVIOUS
  <2>1. NumaShape
    BY DEF NumaInv
  <2>2. ASSUME NEW b \in 1 .. made PROVE Cardinality(Holders(b)) + Cardinality(Places(b)) <= 1
    <3>1. \A x : Cardinality({x}) = 1
      BY FS_Singleton
    <3>2. Cardinality({}) = 0
      BY FS_EmptySet
    <3>3. \A t, u \in Holders(b) : t = u
      BY DEF Holders, NumaInv, OneOwner
    <3>4. \A x, y \in Places(b) : x = y
      <4>1. \A x \in Places(b) : \E n \in Nodes : \E i \in 1 .. Len(pools[n]) :
              x = <<n, i>> /\ pools[n][i] = b
        BY <2>1 DEF Places, NumaShape
      <4>2. QED
        BY <4>1 DEF NumaInv, OneOwner
    <3>5. \A t \in Holders(b), x \in Places(b) : FALSE
      <4>1. ASSUME NEW x \in Places(b) PROVE \E n \in Nodes : \E i \in 1 .. Len(pools[n]) : pools[n][i] = b
        BY <2>1, <4>1 DEF Places, NumaShape
      <4>2. QED
        BY <4>1 DEF Holders, NumaInv, OneOwner
    <3>6. CASE Holders(b) = {} /\ Places(b) = {}
      BY <3>2, <3>6
    <3>7. CASE Holders(b) # {}
      <4>1. PICK t : Holders(b) = {t}
        BY <3>3, <3>7
      <4>2. Places(b) = {}
        BY <3>5, <3>7
      <4>3. Cardinality(Holders(b)) = 1 /\ Cardinality(Places(b)) = 0
        BY <3>1, <3>2, <4>1, <4>2
      <4>4. QED
        BY <4>3
    <3>8. CASE Places(b) # {}
      <4>1. PICK x : Places(b) = {x}
        BY <3>4, <3>8
      <4>2. Holders(b) = {}
        BY <3>5, <3>8
      <4>3. Cardinality(Holders(b)) = 0 /\ Cardinality(Places(b)) = 1
        BY <3>1, <3>2, <4>1, <4>2
      <4>4. QED
        BY <4>3
    <3>9. QED
      BY <3>6, <3>7, <3>8
  <2>3. \A n \in Nodes : node_stats[n] <= PoolSize
    BY DEF NumaInv, PoolBounded, node_stats
  <2>4. \A n \in Nodes, o \in Offsets : copied[<<n, o>>] # 0 => read_cell(n, o) = {copied[<<n, o>>]}
    <3>1. ASSUME NEW n \in Nodes, NEW o \in Offsets, copied[<<n, o>>] # 0
          PROVE  read_cell(n, o) = {copied[<<n, o>>]}
      <4>1. o + 1 <= Len(storage[n]) /\ storage[n][o + 1] = copied[<<n, o>>]
        BY <3>1 DEF NumaInv, StaysReadable
      <4>2. o \in Nat /\ Len(storage[n]) \in Nat
        BY <2>1, NumaAssumption DEF NumaShape
      <4>3. QED
        BY <4>1, <4>2 DEF read_cell
    <3>2. QED
      BY <3>1
  <2>5. policy \in {"Preferred", "Bind"} => \A n \in Nodes \ {preferred_node} :
          node_stats[n] = 0 /\ \A o \in Offsets : copied[<<n, o>>] = 0
    BY DEF NumaInv, FixedNode, node_stats
  <2>6. GrownAsWritten
    BY DEF NumaInv
  <2>7. QED
    BY <2>2, <2>3, <2>4, <2>5, <2>6 DEF NumaHolds, GrownAsWritten
<1>2. QED
  BY <1>1, NumaInvHolds, PTL
=============================================================================
