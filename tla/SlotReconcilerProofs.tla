------------------------ MODULE SlotReconcilerProofs ------------------------
(* SlotReconciler for any number of threads and any slots: the two copies of *)
(* the root agree, a rollback stands unless an update_finalized() waited for *)
(* the lock as it began, and the two views agree on every level that no two  *)
(* overlapping calls stored.  And the trackers of slots beside it, which are *)
(* atomics without locks.                                                    *)
EXTENDS SlotReconciler, SlotTrackers, SequenceTheorems, TLAPS

USE DEF rootHistory

\* Every variable keeps its type.
THEOREM SlotTypeCorrect == Spec => []TypeOK
<1>1. Init => TypeOK
  <2> SUFFICES ASSUME Init PROVE TypeOK
    OBVIOUS
  <2>1. root0 \in Nat /\ 0 \in Nat /\ "Processed" \in Levels
    BY SlotAssumption DEF Levels
  <2>2. atom \in [Levels -> Nat] /\ slot \in [Levels -> Nat]
    BY <2>1 DEF Init
  <2>3. level \in [Threads -> Levels] /\ arg \in [Threads -> Nat]
    BY <2>1 DEF Init
  <2>4. QED
    BY <2>1, <2>2, <2>3 DEF Init, TypeOK
<1>2. TypeOK /\ [Next]_vars => TypeOK'
  <2> SUFFICES ASSUME TypeOK, [Next]_vars PROVE TypeOK'
    OBVIOUS
  <2>1. "Finalized" \in Levels /\ \A s \in Slots : s \in Nat
    BY SlotAssumption DEF Levels
  <2>2. ASSUME NEW t \in Threads, NEW l \in Levels, NEW s \in Slots, StoreAtomic(t, l, s)
        PROVE  TypeOK'
    BY <2>1, <2>2 DEF TypeOK, StoreAtomic
  <2>3. ASSUME NEW t \in Threads, UpdateLocked(t)
        PROVE  TypeOK'
    BY <2>3 DEF TypeOK, UpdateLocked
  <2>4. ASSUME NEW t \in Threads, FinalizeLocked(t)
        PROVE  TypeOK'
    <3>1. CASE arg[t] > root_slot
      BY <2>4, <3>1 DEF TypeOK, FinalizeLocked
    <3>2. CASE ~(arg[t] > root_slot)
      BY <2>4, <3>2 DEF TypeOK, FinalizeLocked
    <3>3. QED
      BY <3>1, <3>2
  <2>5. ASSUME NEW t \in Threads, StoreRoot(t)
        PROVE  TypeOK'
    BY <2>5 DEF TypeOK, StoreRoot
  <2>6. ASSUME NEW t \in Threads, NEW s \in Slots, RollbackRoot(t, s)
        PROVE  TypeOK'
    BY <2>1, <2>6 DEF TypeOK, RollbackRoot
  <2>7. ASSUME NEW t \in Threads, LoadFinalized(t)
        PROVE  TypeOK'
    BY <2>7 DEF TypeOK, LoadFinalized
  <2>8. ASSUME NEW t \in Threads, StoreFinalized(t)
        PROVE  TypeOK'
    BY <2>8 DEF TypeOK, StoreFinalized
  <2>9. CASE UNCHANGED vars
    BY <2>9 DEF TypeOK, vars
  <2>10. QED
    BY <2>2, <2>3, <2>4, <2>5, <2>6, <2>7, <2>8, <2>9 DEF Next, ThreadStep
<1>3. QED
  BY <1>1, <1>2, PTL DEF Spec

\* The steps of the reconciler keep what is due apart from the rest of the invariant: the
\* root is due, or an update_finalized() that will raise it is waiting for the lock.
LEMMA DueStep ==
  ASSUME TypeOK, DueInv, [Next]_vars
  PROVE  DueInv'
<1> USE DEF TypeOK, DueInv, Pending, Levels
<1>1. ASSUME NEW t \in Threads, NEW l \in Levels, NEW s \in Slots, StoreAtomic(t, l, s)
      PROVE  DueInv'
  <2>1. pc[t] = "idle" /\ pc'[t] = "locking" /\ level'[t] = l /\ arg'[t] = s /\ s \in Nat
    BY <1>1, SlotAssumption DEF StoreAtomic
  <2>2. /\ root_slot' = root_slot /\ overtaken' = overtaken
        /\ due' = IF l = "Finalized" /\ s > due THEN s ELSE due
    BY <1>1 DEF StoreAtomic
  <2>3. \A u \in Threads : u # t => pc'[u] = pc[u] /\ level'[u] = level[u] /\ arg'[u] = arg[u]
    BY <1>1 DEF StoreAtomic
  <2>4. QED
    BY <2>1, <2>2, <2>3
<1>2. ASSUME NEW t \in Threads, UpdateLocked(t)
      PROVE  DueInv'
  BY <1>2 DEF UpdateLocked
<1>3. ASSUME NEW t \in Threads, FinalizeLocked(t)
      PROVE  DueInv'
  <2>1. Pending(t, "Finalized") /\ pc'[t] # "locking"
    BY <1>3 DEF FinalizeLocked
  <2>2. \A u \in Threads : u # t => pc'[u] = pc[u]
    BY <1>3 DEF FinalizeLocked
  <2>3. /\ root_slot' = (IF arg[t] > root_slot THEN arg[t] ELSE root_slot)
        /\ level' = level /\ arg' = arg /\ due' = due /\ overtaken' = overtaken
    BY <1>3 DEF FinalizeLocked
  <2>4. QED
    BY <2>1, <2>2, <2>3
<1>4. ASSUME NEW t \in Threads, StoreRoot(t)
      PROVE  DueInv'
  BY <1>4 DEF StoreRoot
<1>5. ASSUME NEW t \in Threads, NEW s \in Slots, RollbackRoot(t, s)
      PROVE  DueInv'
  <2>1. /\ due' = s /\ root_slot' = s /\ s \in Nat /\ pc'[t] = "load"
        /\ overtaken' = \E u \in Threads : Pending(u, "Finalized")
    BY <1>5, SlotAssumption DEF RollbackRoot
  <2>2. level' = level /\ \A u \in Threads : u # t => pc'[u] = pc[u] /\ arg'[u] = arg[u]
    BY <1>5 DEF RollbackRoot
  <2>3. QED
    BY <2>1, <2>2
<1>6. ASSUME NEW t \in Threads, LoadFinalized(t) \/ StoreFinalized(t)
      PROVE  DueInv'
  BY <1>6 DEF LoadFinalized, StoreFinalized
<1>7. CASE UNCHANGED vars
  BY <1>7 DEF vars
<1>8. QED
  BY <1>1, <1>2, <1>3, <1>4, <1>5, <1>6, <1>7 DEF Next, ThreadStep

\* The inductive step, one case per action.
LEMMA SlotStep ==
  ASSUME TypeOK, SlotInv, [Next]_vars
  PROVE  SlotInv'
<1> USE DEF TypeOK, SlotInv, LockInv, RootMirrored, Holder, Pending, Cutting, Levels
<1>1. ASSUME NEW t \in Threads, NEW l \in Levels, NEW s \in Slots, StoreAtomic(t, l, s)
      PROVE  SlotInv'
  <2>1. LockInv' /\ RootMirrored'
    BY <1>1 DEF StoreAtomic
  <2>2. CASE l = "Finalized"
    <3>1. /\ pc'[t] = "locking" /\ level'[t] = "Finalized"
          /\ arg'[t] = s /\ atom'["Finalized"] = s /\ s \in Nat
      BY <1>1, <2>2, SlotAssumption DEF StoreAtomic
    <3>2. arg'[t] >= atom'["Finalized"]
      BY <3>1
    <3>3. QED
      BY <2>1, <3>1, <3>2
  <2>3. CASE l # "Finalized"
    <3>1. atom'["Finalized"] = atom["Finalized"] /\ root_slot' = root_slot
      BY <1>1, <2>3 DEF StoreAtomic
    <3>2. \A u \in Threads : u # t =>
             pc'[u] = pc[u] /\ level'[u] = level[u] /\ arg'[u] = arg[u]
      BY <1>1 DEF StoreAtomic
    <3>3. pc[t] = "idle"
      BY <1>1 DEF StoreAtomic
    <3>4. QED
      BY <2>1, <3>1, <3>2, <3>3
  <2>4. QED
    BY <2>2, <2>3
<1>2. ASSUME NEW t \in Threads, UpdateLocked(t)
      PROVE  SlotInv'
  BY <1>2 DEF UpdateLocked
<1>3. ASSUME NEW t \in Threads, FinalizeLocked(t)
      PROVE  SlotInv'
  <2>1. \A u \in Threads : ~Holder(u)
    BY <1>3 DEF FinalizeLocked
  <2>2. LockInv' /\ RootMirrored'
    BY <1>3, <2>1 DEF FinalizeLocked
  <2>3. /\ root_slot' >= root_slot /\ root_slot' >= arg[t] /\ atom' = atom
        /\ root_slot' \in Nat
    BY <1>3 DEF FinalizeLocked
  <2>4. \A u \in Threads : u # t => pc'[u] = pc[u]
    BY <1>3 DEF FinalizeLocked
  <2>5. level' = level /\ arg' = arg
    BY <1>3 DEF FinalizeLocked
  <2>6. QED
    BY <2>1, <2>2, <2>3, <2>4, <2>5
<1>4. ASSUME NEW t \in Threads, StoreRoot(t)
      PROVE  SlotInv'
  BY <1>4 DEF StoreRoot
<1>5. ASSUME NEW t \in Threads, NEW s \in Slots, RollbackRoot(t, s)
      PROVE  SlotInv'
  <2>1. \A u \in Threads : ~Holder(u)
    BY <1>5 DEF RollbackRoot
  <2>2. pc'[t] = "load"
    BY <1>5 DEF RollbackRoot
  <2>3. QED
    BY <1>5, <2>1, <2>2 DEF RollbackRoot
<1>6. ASSUME NEW t \in Threads, LoadFinalized(t)
      PROVE  SlotInv'
  BY <1>6 DEF LoadFinalized
<1>7. ASSUME NEW t \in Threads, StoreFinalized(t)
      PROVE  SlotInv'
  <2>1. atom'["Finalized"] = root_slot' /\ root_slot' \in Nat
    BY <1>7 DEF StoreFinalized
  <2>2. LockInv' /\ RootMirrored'
    BY <1>7 DEF StoreFinalized
  <2>3. QED
    BY <2>1, <2>2
<1>8. CASE UNCHANGED vars
  BY <1>8 DEF vars
<1>9. QED
  BY <1>1, <1>2, <1>3, <1>4, <1>5, <1>6, <1>7, <1>8 DEF Next, ThreadStep

\* The invariant holds in every reachable state.
LEMMA SlotInvariant == Spec => [](SlotInv /\ DueInv)
<1>1. Init => SlotInv /\ DueInv
  BY SlotAssumption
  DEF Init, SlotInv, DueInv, LockInv, RootMirrored, Holder, Pending, Cutting, Levels
<1>2. TypeOK /\ SlotInv /\ DueInv /\ [Next]_vars => (SlotInv /\ DueInv)'
  BY SlotStep, DueStep
<1>3. QED
  BY <1>1, <1>2, SlotTypeCorrect, PTL DEF Spec

\* For any number of threads, get_root() and stats() agree on the root whenever the
\* lock is free, and once all calls have returned the root is what the last rollback
\* set, raised by the calls of update_finalized() that began after it, unless one was
\* waiting for the lock when the rollback got it; the finalized slot is not beyond it.
THEOREM SlotSafety == Spec => [](RootMirrored /\ RollbackStands)
<1>1. TypeOK /\ SlotInv /\ DueInv => RootMirrored /\ RollbackStands
  <2> SUFFICES ASSUME TypeOK, SlotInv, DueInv, AtRest
               PROVE  RootMirrored /\ RollbackStands
    BY DEF SlotInv, RollbackStands
  <2>1. ~lock /\ atom_root = root_slot
    BY DEF SlotInv, LockInv, RootMirrored, AtRest, Holder
  <2>2. atom["Finalized"] <= root_slot
    BY DEF SlotInv, AtRest, Pending, Cutting
  <2>3. due <= root_slot /\ (~overtaken => root_slot <= due)
    BY DEF DueInv, AtRest, Pending
  <2>4. QED
    BY <2>1, <2>2, <2>3 DEF TypeOK, RootMirrored, RollbackStands
<1>2. QED
  BY <1>1, SlotTypeCorrect, SlotInvariant, PTL

\* The inductive step for the two views, level by level and one case per action.
LEMMA ViewsStep ==
  ASSUME TypeOK, LockInv, ViewsInv, [Next]_vars
  PROVE  ViewsInv'
<1> DEFINE LevelInv(l) ==
             /\ \A t, u \in Threads : Pending(t, l) /\ Pending(u, l) => t = u
             /\ \A t \in Threads : Pending(t, l) => atom[l] = arg[t]
             /\ (\A t \in Threads : ~Pending(t, l)) => atom[l] = slot[l]
             /\ l = "Finalized" => \A t, u \in Threads : ~(Pending(t, l) /\ Cutting(u))
<1> SUFFICES ASSUME NEW l \in Levels, l \notin raced'
             PROVE  LevelInv(l)'
  BY DEF ViewsInv
<1>0. "Finalized" \in Levels /\ (l \notin raced => LevelInv(l))
  BY DEF Levels, ViewsInv
<1> USE DEF TypeOK, Pending, Cutting
<1>1. ASSUME NEW t \in Threads, NEW k \in Levels, NEW s \in Slots, StoreAtomic(t, k, s)
      PROVE  LevelInv(l)'
  <2>1. l \notin raced /\ \A u \in Threads : u # t =>
           pc'[u] = pc[u] /\ level'[u] = level[u] /\ arg'[u] = arg[u]
    BY <1>1 DEF StoreAtomic
  <2>2. pc[t] = "idle" /\ pc'[t] = "locking" /\ level'[t] = k /\ arg'[t] = s
    BY <1>1 DEF StoreAtomic
  <2>3. CASE k = l
    <3>1. atom'[l] = s
      BY <1>1, <2>3 DEF StoreAtomic
    <3>2. \A u \in Threads : ~Pending(u, l) /\ (l = "Finalized" => ~Cutting(u))
      BY <1>1, <2>3 DEF StoreAtomic
    <3>3. QED
      BY <2>1, <2>2, <2>3, <3>1, <3>2
  <2>4. CASE k # l
    <3>1. atom'[l] = atom[l] /\ slot' = slot
      BY <1>1, <2>4 DEF StoreAtomic
    <3>2. \A u \in Threads : Pending(u, l)' <=> Pending(u, l)
      BY <2>1, <2>2, <2>4
    <3>3. \A u \in Threads : Cutting(u)' => Cutting(u)
      BY <2>1, <2>2
    <3>4. \A u \in Threads : Pending(u, l)' => arg'[u] = arg[u]
      BY <2>1, <2>2, <2>4
    <3>5. QED
      BY <1>0, <2>1, <3>1, <3>2, <3>3, <3>4
  <2>5. QED
    BY <2>3, <2>4
<1>2. ASSUME NEW t \in Threads, UpdateLocked(t)
      PROVE  LevelInv(l)'
  BY <1>0, <1>2 DEF UpdateLocked
<1>3. ASSUME NEW t \in Threads, FinalizeLocked(t)
      PROVE  LevelInv(l)'
  <2>1. l \notin raced /\ atom' = atom /\ level' = level /\ arg' = arg
    BY <1>3 DEF FinalizeLocked
  <2>2. pc[t] = "locking" /\ level[t] = "Finalized" /\ pc'[t] \in {"idle", "root"}
    BY <1>3 DEF FinalizeLocked
  <2>3. \A u \in Threads : u # t => pc'[u] = pc[u]
    BY <1>3 DEF FinalizeLocked
  <2>4. slot'["Finalized"] = arg[t] /\ \A k \in Levels : k # "Finalized" => slot'[k] = slot[k]
    BY <1>0, <1>3 DEF FinalizeLocked
  <2>5. QED
    BY <1>0, <2>1, <2>2, <2>3, <2>4
<1>4. ASSUME NEW t \in Threads, StoreRoot(t)
      PROVE  LevelInv(l)'
  BY <1>0, <1>4 DEF StoreRoot
<1>5. ASSUME NEW t \in Threads, NEW s \in Slots, RollbackRoot(t, s)
      PROVE  LevelInv(l)'
  <2>1. l \notin raced /\ atom' = atom /\ slot' = slot /\ level' = level
    BY <1>5 DEF RollbackRoot
  <2>2. \A u \in Threads : u # t => pc'[u] = pc[u] /\ arg'[u] = arg[u]
    BY <1>5 DEF RollbackRoot
  <2>3. pc[t] = "idle" /\ pc'[t] = "load"
    BY <1>5 DEF RollbackRoot
  <2>4. l = "Finalized" => \A u \in Threads : ~Pending(u, l)
    BY <1>5 DEF RollbackRoot
  <2>5. QED
    BY <1>0, <2>1, <2>2, <2>3, <2>4
<1>6. ASSUME NEW t \in Threads, LoadFinalized(t)
      PROVE  LevelInv(l)'
  <2>1. l \notin raced /\ atom' = atom /\ slot' = slot /\ level' = level /\ arg' = arg
    BY <1>6 DEF LoadFinalized
  <2>2. \A u \in Threads : u # t => pc'[u] = pc[u]
    BY <1>6 DEF LoadFinalized
  <2>3. pc[t] = "load" /\ pc'[t] \in {"store", "idle"}
    BY <1>6 DEF LoadFinalized
  <2>4. QED
    BY <1>0, <2>1, <2>2, <2>3
<1>7. ASSUME NEW t \in Threads, StoreFinalized(t)
      PROVE  LevelInv(l)'
  <2>1. l \notin raced /\ level' = level /\ arg' = arg
    BY <1>7 DEF StoreFinalized
  <2>2. \A u \in Threads : u # t => pc'[u] = pc[u]
    BY <1>7 DEF StoreFinalized
  <2>3. pc[t] = "store" /\ pc'[t] = "idle"
    BY <1>7 DEF StoreFinalized
  <2>4. CASE l = "Finalized"
    <3>1. atom'[l] = slot'[l]
      BY <1>7, <2>4 DEF StoreFinalized
    <3>2. \A u \in Threads : ~Pending(u, l)'
      BY <1>0, <2>1, <2>2, <2>3, <2>4
    <3>3. QED
      BY <3>1, <3>2
  <2>5. CASE l # "Finalized"
    <3>1. atom'[l] = atom[l] /\ slot'[l] = slot[l]
      BY <1>7, <2>5 DEF StoreFinalized
    <3>2. QED
      BY <1>0, <2>1, <2>2, <2>3, <2>5, <3>1
  <2>6. QED
    BY <2>4, <2>5
<1>8. CASE UNCHANGED vars
  BY <1>0, <1>8 DEF vars
<1>9. QED
  BY <1>1, <1>2, <1>3, <1>4, <1>5, <1>6, <1>7, <1>8 DEF Next, ThreadStep

\* For any number of threads, once all calls have returned get_slot() and stats()
\* report the same slot for every level that no two overlapping calls have stored.
THEOREM SlotViewsAgree == Spec => []ViewsAgree
<1>1. Init => ViewsInv
  BY DEF Init, ViewsInv, Pending, Cutting
<1>2. SlotInv => LockInv
  BY DEF SlotInv
<1>3. TypeOK /\ LockInv /\ ViewsInv /\ [Next]_vars => ViewsInv'
  BY ViewsStep
<1>4. Spec => []ViewsInv
  BY <1>1, <1>2, <1>3, SlotTypeCorrect, SlotInvariant, PTL DEF Spec
<1>5. ViewsInv => ViewsAgree
  BY DEF ViewsInv, ViewsAgree, AtRest, Pending
<1>6. QED
  BY <1>4, <1>5, PTL

----------------------------------------------------------------------------
(* SlotTrackers: for any threads and slots, the watermark, the root and the   *)
(* contexts keep what their atomic accesses can promise.                      *)

IsContext(c) == c \in [1 .. 3 -> Nat]

TrackerCall(t) ==
    /\ job[t].op \in {"idle", "watermark", "advance_root", "write_context", "read_context"}
    /\ job[t].op = "watermark" =>
         /\ DOMAIN job[t] = {"op", "pc", "slot", "current"}
         /\ job[t].slot \in Nat /\ job[t].current \in Nat
         /\ job[t].pc = "exchange" => job[t].current < job[t].slot
    /\ job[t].op = "advance_root" => job[t].slot \in Nat
    /\ job[t].op = "write_context" => DOMAIN job[t] = {"op", "pc"} /\ job[t].pc \in 1 .. 3
    /\ job[t].op = "read_context" =>
         /\ DOMAIN job[t] = {"op", "pc", "got", "torn"}
         /\ job[t].pc \in 1 .. 3 /\ job[t].torn \in BOOLEAN
         /\ job[t].got \in Seq(Nat) /\ Len(job[t].got) = job[t].pc - 1

TrackersShape ==
    /\ DOMAIN job = Workers /\ \A t \in Workers : TrackerCall(t)
    /\ watermark \in Nat /\ root \in Nat /\ advanced \in Nat
    /\ returned \subseteq Nat /\ rootRaced \in BOOLEAN /\ wentBack \in BOOLEAN
    /\ IsContext(tracker) /\ IsContext(context) /\ context \in contexts
    /\ \A c \in contexts : IsContext(c)
    /\ \A r \in read : r[2] \in BOOLEAN

WatermarkInv == \A s \in returned : s <= watermark

\* An advance that no other change of the root overlaps is about to store what is due.
RootInv ==
    ~rootRaced =>
        /\ Doing("advance_root") = {} => root = advanced
        /\ \A t \in Doing("advance_root") :
             Doing("advance_root") = {t} /\ job[t].slot = advanced

\* One thread writes; what it has stored, and what a reader it did not overlap has
\* loaded, is the context's.
ContextInv ==
    /\ Doing("write_context") = {} => tracker = context
    /\ \A t \in Doing("write_context") :
         /\ Doing("write_context") = {t}
         /\ \A i \in 1 .. 3 : i < job[t].pc => tracker[i] = context[i]
    /\ \A t \in Doing("read_context") : ~job[t].torn =>
         /\ Doing("write_context") = {}
         /\ \A i \in 1 .. Len(job[t].got) : job[t].got[i] = context[i]
    /\ \A r \in read : r[2] \/ r[1] \in contexts

\* Slots that a processed slot confirms and finalizes are as far behind it as they must.
InOrder(c) ==
    /\ c[2] = 0 \/ c[2] + 1 <= c[1]
    /\ c[3] = 0 \/ c[3] + Finality <= c[1]
    /\ c[3] <= c[2]

OrderInv ==
    ~wentBack => /\ \A c \in contexts : InOrder(c)
                 /\ \A l \in 1 .. 3 : tracker[l] <= context[l]

TrackersInv == TrackersShape /\ WatermarkInv /\ RootInv /\ ContextInv /\ OrderInv

LEMMA DoingAfter ==
  ASSUME DOMAIN job = Workers, NEW t \in Workers, NEW j, job' = [job EXCEPT ![t] = j]
  PROVE  /\ job'[t] = j /\ DOMAIN job' = Workers
         /\ \A u \in Workers : u # t => job'[u] = job[u]
         /\ \A op, u : u \in Doing(op)' <=> (IF u = t THEN j.op = op ELSE u \in Doing(op))
<1>1. /\ job'[t] = j /\ DOMAIN job' = Workers
      /\ \A u \in Workers : u # t => job'[u] = job[u]
  OBVIOUS
<1>2. QED
  BY <1>1 DEF Doing

\* Calls that a step leaves alone keep their shape.
LEMMA CallsKept ==
  ASSUME TrackersShape, NEW t \in Workers, NEW j, job' = [job EXCEPT ![t] = j], TrackerCall(t)'
  PROVE  DOMAIN job' = Workers /\ \A u \in Workers : TrackerCall(u)'
<1>1. ASSUME NEW u \in Workers, u # t PROVE TrackerCall(u)'
  <2>1. TrackerCall(u) /\ job'[u] = job[u]
    BY <1>1, DoingAfter DEF TrackersShape
  <2>2. QED
    BY <2>1 DEF TrackerCall
<1>2. QED
  BY <1>1, DoingAfter DEF TrackersShape

\* The parts of the invariant that a step on another tracker does not disturb.
LEMMA RootKept ==
  ASSUME RootInv, UNCHANGED <<root, advanced, rootRaced>>,
         Doing("advance_root")' = Doing("advance_root"),
         \A t \in Doing("advance_root") : job'[t] = job[t]
  PROVE  RootInv'
BY DEF RootInv

LEMMA ContextKept ==
  ASSUME ContextInv, OrderInv, UNCHANGED <<tracker, context, contexts, wentBack, read>>,
         Doing("write_context")' = Doing("write_context"),
         Doing("read_context")' = Doing("read_context"),
         \A t \in Doing("write_context") \cup Doing("read_context") : job'[t] = job[t]
  PROVE  ContextInv' /\ OrderInv'
<1>1. \A c : InOrder(c)' <=> InOrder(c)
  BY DEF InOrder
<1>2. OrderInv'
  BY <1>1 DEF OrderInv
<1>3. ContextInv'
  BY DEF ContextInv
<1>4. QED
  BY <1>2, <1>3

\* A call of thread t that works on neither the root nor a context.
LEMMA Elsewhere ==
  ASSUME TrackersInv, NEW t \in Workers, NEW j, job' = [job EXCEPT ![t] = j],
         job[t].op \in {"idle", "watermark"}, j.op \in {"idle", "watermark"}
  PROVE  /\ UNCHANGED <<root, advanced, rootRaced>> => RootInv'
         /\ UNCHANGED <<tracker, context, contexts, wentBack, read>> => ContextInv' /\ OrderInv'
<1>1. /\ DOMAIN job = Workers /\ RootInv /\ ContextInv /\ OrderInv
  BY DEF TrackersInv, TrackersShape
<1>2. \A op \in {"advance_root", "write_context", "read_context"} :
         Doing(op)' = Doing(op) /\ \A u \in Doing(op) : job'[u] = job[u]
  <2> SUFFICES ASSUME NEW op \in {"advance_root", "write_context", "read_context"}
               PROVE  Doing(op)' = Doing(op) /\ \A u \in Doing(op) : job'[u] = job[u]
    OBVIOUS
  <2>1. t \notin Doing(op) /\ j.op # op
    BY DEF Doing
  <2>2. \A u : u \in Doing(op)' <=> u \in Doing(op)
    BY <1>1, <2>1, DoingAfter
  <2>3. \A u \in Doing(op) : job'[u] = job[u]
    BY <1>1, <2>1, DoingAfter DEF Doing
  <2>4. QED
    BY <2>2, <2>3
<1>3. QED
  BY <1>1, <1>2, RootKept, ContextKept

\* WatermarkTracker: a value is given up only for one that is stored already, and the
\* exchange only raises it.
LEMMA WatermarkSteps ==
  ASSUME TrackersInv, NEW t \in Workers,
         \/ \E s \in TrackedSlots : UpdateWatermark(t, s)
         \/ LoadWatermark(t) \/ ExchangeWatermark(t)
  PROVE  TrackersInv'
<1>1. UNCHANGED <<root, tracker, context, advanced, rootRaced, contexts, wentBack, read>>
  BY DEF UpdateWatermark, LoadWatermark, ExchangeWatermark, trackersState
<1>2. TrackersShape /\ WatermarkInv /\ TrackerCall(t) /\ DOMAIN job = Workers
  BY DEF TrackersInv, TrackersShape
<1>3. \E j : /\ job' = [job EXCEPT ![t] = j] /\ TrackerCall(t)'
             /\ job[t].op \in {"idle", "watermark"} /\ j.op \in {"idle", "watermark"}
             /\ watermark' \in Nat /\ returned' \subseteq Nat /\ WatermarkInv'
  <2>1. ASSUME Finish(t), job[t].op = "watermark", watermark' \in Nat, watermark <= watermark',
               returned' = returned \cup {job[t].slot}, job[t].slot <= watermark'
        PROVE  \E j : /\ job' = [job EXCEPT ![t] = j] /\ TrackerCall(t)'
                      /\ job[t].op \in {"idle", "watermark"} /\ j.op \in {"idle", "watermark"}
                      /\ watermark' \in Nat /\ returned' \subseteq Nat /\ WatermarkInv'
    <3>1. job' = [job EXCEPT ![t] = NoJob] /\ NoJob.op = "idle"
      BY <2>1 DEF Finish, NoJob
    <3>2. TrackerCall(t)'
      BY <1>2, <3>1 DEF TrackerCall
    <3>3. returned' \subseteq Nat /\ watermark \in Nat /\ job[t].slot \in Nat
      BY <1>2, <2>1 DEF TrackersShape, TrackerCall
    <3>4. WatermarkInv'
      BY <1>2, <2>1, <3>3 DEF WatermarkInv, TrackersShape
    <3>5. QED
      BY <2>1, <3>1, <3>2, <3>3, <3>4
  <2>2. ASSUME NEW s \in TrackedSlots, UpdateWatermark(t, s)
        PROVE  \E j : /\ job' = [job EXCEPT ![t] = j] /\ TrackerCall(t)'
                      /\ job[t].op \in {"idle", "watermark"} /\ j.op \in {"idle", "watermark"}
                      /\ watermark' \in Nat /\ returned' \subseteq Nat /\ WatermarkInv'
    <3>1. PICK j : j = [op |-> "watermark", pc |-> "load", slot |-> s, current |-> 0]
      OBVIOUS
    <3>2. job[t].op = "idle" /\ job' = [job EXCEPT ![t] = j] /\ UNCHANGED <<watermark, returned>>
      BY <2>2, <3>1 DEF UpdateWatermark, Begin, trackersState
    <3>3. /\ DOMAIN j = {"op", "pc", "slot", "current"}
          /\ j.op = "watermark" /\ j.pc = "load" /\ j.slot = s /\ j.current = 0
      BY <3>1
    <3>4. TrackerCall(t)'
      BY <1>2, <3>2, <3>3, TrackersAssumption DEF TrackerCall
    <3>5. QED
      BY <1>2, <3>2, <3>3, <3>4 DEF TrackersShape, WatermarkInv
  <2>3. CASE LoadWatermark(t) /\ job[t].slot <= watermark
    <3>1. Finish(t) /\ job[t].op = "watermark" /\ watermark' = watermark
          /\ returned' = returned \cup {job[t].slot}
      BY <2>3 DEF LoadWatermark, At
    <3>2. QED
      BY <1>2, <2>1, <2>3, <3>1 DEF TrackersShape
  <2>4. CASE LoadWatermark(t) /\ ~(job[t].slot <= watermark)
    <3>1. /\ job[t].op = "watermark" /\ UNCHANGED <<watermark, returned>>
          /\ job' = [job EXCEPT ![t].current = watermark, ![t].pc = "exchange"]
      BY <2>4 DEF LoadWatermark, At
    <3>2. PICK i : i = [job[t] EXCEPT !.current = watermark]
      OBVIOUS
    <3>3. PICK j : j = [i EXCEPT !.pc = "exchange"]
      OBVIOUS
    <3>4. job' = [job EXCEPT ![t] = j]
      BY <1>2, <3>1, <3>2, <3>3
    <3>5. /\ DOMAIN job[t] = {"op", "pc", "slot", "current"}
          /\ job[t].slot \in Nat /\ watermark \in Nat
      BY <1>2, <3>1 DEF TrackersShape, TrackerCall
    <3>6. /\ DOMAIN i = {"op", "pc", "slot", "current"}
          /\ i.op = "watermark" /\ i.slot = job[t].slot /\ i.current = watermark
      BY <3>1, <3>2, <3>5
    <3>7. /\ DOMAIN j = {"op", "pc", "slot", "current"} /\ j.pc = "exchange"
          /\ j.op = "watermark" /\ j.slot = job[t].slot /\ j.current = watermark
      BY <3>3, <3>6
    <3>8. TrackerCall(t)'
      BY <1>2, <2>4, <3>4, <3>5, <3>7 DEF TrackerCall
    <3>9. QED
      BY <1>2, <3>1, <3>4, <3>7, <3>8 DEF TrackersShape, WatermarkInv
  <2>5. CASE ExchangeWatermark(t) /\ watermark = job[t].current
    <3>1. /\ Finish(t) /\ job[t].op = "watermark" /\ job[t].pc = "exchange"
          /\ watermark' = job[t].slot /\ returned' = returned \cup {job[t].slot}
      BY <2>5 DEF ExchangeWatermark, At
    <3>2. job[t].slot \in Nat /\ watermark \in Nat /\ watermark < job[t].slot
      BY <1>2, <2>5, <3>1 DEF TrackersShape, TrackerCall
    <3>3. QED
      BY <2>1, <3>1, <3>2
  <2>6. CASE ExchangeWatermark(t) /\ watermark # job[t].current
    <3>1. Goto(t, "load") /\ job[t].op = "watermark" /\ UNCHANGED <<watermark, returned>>
      BY <2>6 DEF ExchangeWatermark, At
    <3>2. PICK j : j = [job[t] EXCEPT !.pc = "load"]
      OBVIOUS
    <3>3. job' = [job EXCEPT ![t] = j]
      BY <1>2, <3>1, <3>2 DEF Goto
    <3>4. /\ DOMAIN j = {"op", "pc", "slot", "current"} /\ j.pc = "load"
          /\ j.op = "watermark" /\ j.slot = job[t].slot /\ j.current = job[t].current
      BY <1>2, <3>1, <3>2 DEF TrackerCall
    <3>5. TrackerCall(t)'
      BY <1>2, <3>1, <3>3, <3>4 DEF TrackerCall
    <3>6. QED
      BY <1>2, <3>1, <3>3, <3>4, <3>5 DEF TrackersShape, WatermarkInv
  <2>7. QED
    BY <2>2, <2>3, <2>4, <2>5, <2>6
<1>4. PICK j : /\ job' = [job EXCEPT ![t] = j] /\ TrackerCall(t)'
               /\ job[t].op \in {"idle", "watermark"} /\ j.op \in {"idle", "watermark"}
               /\ watermark' \in Nat /\ returned' \subseteq Nat /\ WatermarkInv'
  BY <1>3
<1>5. RootInv' /\ ContextInv' /\ OrderInv'
  BY <1>1, <1>4, Elsewhere
<1>6. TrackersShape'
  BY <1>1, <1>2, <1>4, CallsKept DEF TrackersShape, IsContext
<1>7. QED
  BY <1>4, <1>5, <1>6 DEF TrackersInv

\* advance() of the watermark and update_root(): one access, which nobody waits for.
LEMMA AtOnce ==
  ASSUME TrackersInv, NEW t \in Workers,
         AdvanceWatermark(t) \/ \E s \in TrackedSlots : UpdateRoot(t, s)
  PROVE  TrackersInv'
<1>1. UNCHANGED <<tracker, context, contexts, returned, wentBack, read, job>>
  BY DEF AdvanceWatermark, UpdateRoot
<1>2. TrackersShape /\ WatermarkInv /\ RootInv /\ ContextInv /\ OrderInv
  BY DEF TrackersInv
<1>3. \A op : Doing(op)' = Doing(op)
  BY <1>1 DEF Doing
<1>4. ContextInv' /\ OrderInv'
  BY <1>1, <1>2, <1>3, ContextKept
<1>5. \A u : TrackerCall(u)' <=> TrackerCall(u)
  BY <1>1 DEF TrackerCall
<1>6. CASE AdvanceWatermark(t)
  <2>1. watermark' = watermark + 1 /\ UNCHANGED <<root, advanced, rootRaced>>
    BY <1>6 DEF AdvanceWatermark
  <2>2. RootInv'
    BY <1>1, <1>2, <1>3, <2>1, RootKept
  <2>3. WatermarkInv'
    BY <1>1, <1>2, <2>1 DEF WatermarkInv, TrackersShape
  <2>4. TrackersShape'
    BY <1>1, <1>2, <1>5, <2>1 DEF TrackersShape, IsContext
  <2>5. QED
    BY <1>4, <2>2, <2>3, <2>4 DEF TrackersInv
<1>7. ASSUME NEW s \in TrackedSlots, UpdateRoot(t, s)
      PROVE  TrackersInv'
  <2>1. /\ root' = s /\ advanced' = s /\ watermark' = watermark
        /\ rootRaced' = (rootRaced \/ Doing("advance_root") # {})
    BY <1>7 DEF UpdateRoot
  <2>2. RootInv'
    BY <1>3, <2>1 DEF RootInv
  <2>3. WatermarkInv'
    BY <1>1, <1>2, <2>1 DEF WatermarkInv
  <2>4. TrackersShape'
    BY <1>1, <1>2, <1>5, <2>1, TrackersAssumption DEF TrackersShape, IsContext
  <2>5. QED
    BY <1>4, <2>2, <2>3, <2>4 DEF TrackersInv
<1>8. QED
  BY <1>6, <1>7

\* advance_root(): what is loaded is due as long as nobody else changes the root.
LEMMA RootSteps ==
  ASSUME TrackersInv, NEW t \in Workers,
         StoreNewRoot(t) \/ \E s \in TrackedSlots : LoadRoot(t, s)
  PROVE  TrackersInv'
<1>1. UNCHANGED <<watermark, tracker, context, contexts, returned, wentBack, read>>
  BY DEF StoreNewRoot, LoadRoot
<1>2. /\ TrackersShape /\ WatermarkInv /\ RootInv /\ ContextInv /\ OrderInv
      /\ DOMAIN job = Workers /\ TrackerCall(t)
  BY DEF TrackersInv, TrackersShape
<1>3. WatermarkInv'
  BY <1>1, <1>2 DEF WatermarkInv
<1>4. ASSUME NEW j, job' = [job EXCEPT ![t] = j], job[t].op \in {"idle", "advance_root"},
             j.op \in {"idle", "advance_root"}, TrackerCall(t)', RootInv',
             root' \in Nat, advanced' \in Nat, rootRaced' \in BOOLEAN
      PROVE  TrackersInv'
  <2>1. \A op \in {"write_context", "read_context"} :
           Doing(op)' = Doing(op) /\ \A u \in Doing(op) : job'[u] = job[u]
    <3> SUFFICES ASSUME NEW op \in {"write_context", "read_context"}
                 PROVE  Doing(op)' = Doing(op) /\ \A u \in Doing(op) : job'[u] = job[u]
      OBVIOUS
    <3>1. t \notin Doing(op) /\ j.op # op
      BY <1>4 DEF Doing
    <3>2. \A u : u \in Doing(op)' <=> u \in Doing(op)
      BY <1>2, <1>4, <3>1, DoingAfter
    <3>3. \A u \in Doing(op) : job'[u] = job[u]
      BY <1>2, <1>4, <3>1, DoingAfter DEF Doing
    <3>4. QED
      BY <3>2, <3>3
  <2>2. ContextInv' /\ OrderInv'
    BY <1>1, <1>2, <2>1, ContextKept
  <2>3. TrackersShape'
    BY <1>1, <1>2, <1>4, CallsKept DEF TrackersShape, IsContext
  <2>4. QED
    BY <1>3, <1>4, <2>2, <2>3 DEF TrackersInv
<1>5. ASSUME NEW s \in TrackedSlots, LoadRoot(t, s)
      PROVE  TrackersInv'
  <2>1. PICK j : j = [op |-> "advance_root", pc |-> "store", slot |-> root + s]
    OBVIOUS
  <2>2. /\ job[t].op = "idle" /\ job' = [job EXCEPT ![t] = j]
        /\ advanced' = advanced + s /\ root' = root
        /\ rootRaced' = (rootRaced \/ Doing("advance_root") # {})
    BY <1>5, <2>1 DEF LoadRoot, Begin
  <2>3. j.op = "advance_root" /\ j.slot = root + s
    BY <2>1
  <2>4. s \in Nat /\ root \in Nat /\ advanced \in Nat /\ rootRaced \in BOOLEAN
    BY <1>2, TrackersAssumption DEF TrackersShape
  <2>5. job'[t] = j /\ \A u : u \in Doing("advance_root")' <=> u = t \/ u \in Doing("advance_root")
    BY <1>2, <2>2, <2>3, DoingAfter
  <2>6. TrackerCall(t)'
    BY <2>3, <2>4, <2>5 DEF TrackerCall
  <2>7. RootInv'
    <3> SUFFICES ASSUME ~rootRaced'
                 PROVE  /\ Doing("advance_root")' = {t} /\ job'[t].slot = advanced'
      BY DEF RootInv
    <3>1. Doing("advance_root") = {} /\ root = advanced
      BY <1>2, <2>2 DEF RootInv
    <3>2. QED
      BY <2>2, <2>3, <2>5, <3>1
  <2>8. root' \in Nat /\ advanced' \in Nat
    BY <2>2, <2>4
  <2>9. rootRaced' \in BOOLEAN
    BY <2>2, <2>4
  <2>10. job[t].op \in {"idle", "advance_root"} /\ j.op \in {"idle", "advance_root"}
    BY <2>2, <2>3
  <2>11. QED
    BY <1>4, <2>2, <2>6, <2>7, <2>8, <2>9, <2>10
<1>6. CASE StoreNewRoot(t)
  <2>1. PICK j : j = NoJob
    OBVIOUS
  <2>2. /\ job[t].op = "advance_root" /\ job' = [job EXCEPT ![t] = j] /\ j.op = "idle"
        /\ root' = job[t].slot /\ UNCHANGED <<advanced, rootRaced>>
    BY <1>6, <2>1 DEF StoreNewRoot, At, Finish, NoJob
  <2>3. job'[t] = j /\ \A u : u \in Doing("advance_root")' <=> u # t /\ u \in Doing("advance_root")
    BY <1>2, <2>2, DoingAfter
  <2>4. TrackerCall(t)'
    BY <2>2, <2>3 DEF TrackerCall
  <2>5. RootInv'
    <3> SUFFICES ASSUME ~rootRaced'
                 PROVE  Doing("advance_root")' = {} /\ root' = advanced'
      BY DEF RootInv
    <3>1. t \in Doing("advance_root")
      BY <2>2 DEF Doing
    <3>2. Doing("advance_root") = {t} /\ job[t].slot = advanced
      BY <1>2, <2>2, <3>1 DEF RootInv
    <3>3. QED
      BY <2>2, <2>3, <3>2
  <2>6. root' \in Nat /\ advanced' \in Nat /\ rootRaced' \in BOOLEAN
    BY <1>2, <2>2 DEF TrackersShape, TrackerCall
  <2>7. QED
    BY <1>4, <2>2, <2>4, <2>5, <2>6
<1>7. QED
  BY <1>5, <1>6

LEMMA ContextOf ==
  ASSUME NEW a \in Nat, NEW b \in Nat, NEW c \in Nat, NEW x, x = <<a, b, c>>
  PROVE  IsContext(x) /\ x[1] = a /\ x[2] = b /\ x[3] = c
<1>1. x \in Seq(Nat) /\ Len(x) = 3 /\ x[1] = a /\ x[2] = b /\ x[3] = c
  OBVIOUS
<1>2. QED
  BY <1>1, LenProperties DEF IsContext

LEMMA ContextSlots ==
  ASSUME NEW c, IsContext(c)
  PROVE  c[1] \in Nat /\ c[2] \in Nat /\ c[3] \in Nat
BY DEF IsContext

\* SlotContext::update() keeps the slots in order and lowers none, unless the processed one
\* goes back.
LEMMA UpdatedInOrder ==
  ASSUME NEW c, IsContext(c), NEW s \in Nat
  PROVE  /\ IsContext(Updated(c, s)) /\ Updated(c, s)[1] = s
         /\ InOrder(c) /\ c[1] <= s =>
              InOrder(Updated(c, s)) /\ \A i \in 1 .. 3 : c[i] <= Updated(c, s)[i]
<1>1. c[1] \in Nat /\ c[2] \in Nat /\ c[3] \in Nat
  BY ContextSlots
<1>2. Finality \in Nat \ {0}
  BY TrackersAssumption
<1>3. PICK b, d : /\ b = IF s > 1 THEN s - 1 ELSE c[2]
                  /\ d = IF s > Finality THEN s - Finality ELSE c[3]
  OBVIOUS
<1>4. b \in Nat /\ d \in Nat
  BY <1>1, <1>2, <1>3
<1>5. PICK x : x = Updated(c, s)
  OBVIOUS
<1>6. IsContext(x) /\ x[1] = s /\ x[2] = b /\ x[3] = d
  BY <1>3, <1>4, <1>5, ContextOf DEF Updated
<1>7. ASSUME InOrder(c), c[1] <= s
      PROVE  InOrder(x) /\ \A i \in 1 .. 3 : c[i] <= x[i]
  <2>1. (b = 0 \/ b + 1 <= s) /\ (d = 0 \/ d + Finality <= s) /\ d <= b /\ c[2] <= b /\ c[3] <= d
    BY <1>1, <1>2, <1>3, <1>7 DEF InOrder
  <2>2. QED
    BY <1>6, <1>7, <2>1 DEF InOrder
<1>8. QED
  BY <1>5, <1>6, <1>7

\* SlotContext::update(): whoever is reading the tracker is overlapped from here on.
LEMMA ContextUpdated ==
  ASSUME TrackersInv, NEW t \in Workers, NEW s \in TrackedSlots, UpdateTracker(t, s)
  PROVE  TrackersInv'
<1>1. PICK w : w = [op |-> "write_context", pc |-> 1]
  OBVIOUS
<1>2. DOMAIN w = {"op", "pc"} /\ w.op = "write_context" /\ w.pc = 1
  BY <1>1
<1>3. /\ job[t].op = "idle" /\ Doing("write_context") = {}
      /\ context' = Updated(context, s) /\ contexts' = contexts \cup {context'}
      /\ wentBack' = (wentBack \/ s < context[1])
      /\ job' = [Overlapping("read_context") EXCEPT ![t] = w]
      /\ UNCHANGED <<watermark, root, tracker, returned, advanced, rootRaced, read>>
  BY <1>1 DEF UpdateTracker
<1>4. /\ TrackersShape /\ WatermarkInv /\ RootInv /\ ContextInv /\ OrderInv /\ s \in Nat
      /\ IsContext(context) /\ context \in contexts
  BY TrackersAssumption DEF TrackersInv, TrackersShape
<1>5. /\ DOMAIN job' = Workers /\ job'[t] = w
      /\ \A u \in Workers : u # t => job'[u] = IF job[u].op = "read_context" THEN [job[u] EXCEPT !.torn = TRUE]
                                                ELSE job[u]
  BY <1>3 DEF Overlapping
<1>6. ASSUME NEW u \in Workers, u # t, job[u].op = "read_context"
      PROVE  /\ DOMAIN job'[u] = DOMAIN job[u] /\ job'[u].torn = TRUE /\ job'[u].op = "read_context"
             /\ job'[u].pc = job[u].pc /\ job'[u].got = job[u].got
  <2>1. DOMAIN job[u] = {"op", "pc", "got", "torn"}
    BY <1>4, <1>6 DEF TrackersShape, TrackerCall
  <2>2. job'[u] = [job[u] EXCEPT !.torn = TRUE]
    BY <1>5, <1>6
  <2>3. QED
    BY <1>6, <2>1, <2>2
<1>7. \A u \in Workers : TrackerCall(u)'
  <2>1. ASSUME NEW u \in Workers, u # t, job[u].op = "read_context" PROVE TrackerCall(u)'
    BY <1>4, <1>6, <2>1 DEF TrackersShape, TrackerCall
  <2>2. ASSUME NEW u \in Workers, u # t, job[u].op # "read_context" PROVE TrackerCall(u)'
    <3>1. job'[u] = job[u] /\ TrackerCall(u)
      BY <1>4, <1>5, <2>2 DEF TrackersShape
    <3>2. QED
      BY <3>1 DEF TrackerCall
  <2>3. TrackerCall(t)'
    BY <1>2, <1>5 DEF TrackerCall
  <2>4. QED
    BY <2>1, <2>2, <2>3
<1>8. \A u \in Workers : u # t => job'[u].op = job[u].op
  BY <1>5, <1>6
<1>9. /\ Doing("write_context")' = {t} /\ Doing("advance_root")' = Doing("advance_root")
      /\ \A u \in Doing("read_context")' : job'[u].torn
      /\ \A u \in Doing("advance_root") : job'[u] = job[u]
  <2>1. \A u : u \in Doing("write_context")' => u = t
    BY <1>3, <1>8 DEF Doing
  <2>2. t \in Doing("write_context")'
    BY <1>2, <1>5 DEF Doing
  <2>3. t \notin Doing("advance_root")' /\ t \notin Doing("advance_root")
    BY <1>2, <1>3, <1>5 DEF Doing
  <2>4. \A u : u \in Doing("advance_root")' <=> u \in Doing("advance_root")
    BY <1>8, <2>3 DEF Doing
  <2>5. \A u \in Doing("advance_root") : job'[u] = job[u]
    BY <1>5, <2>3 DEF Doing
  <2>6. ASSUME NEW u \in Doing("read_context")' PROVE job'[u].torn
    <3>1. u \in Workers /\ u # t
      BY <1>2, <1>5, <2>6 DEF Doing
    <3>2. job[u].op = "read_context"
      BY <1>8, <2>6, <3>1 DEF Doing
    <3>3. QED
      BY <1>6, <3>1, <3>2
  <2>7. QED
    BY <2>1, <2>2, <2>4, <2>5, <2>6
<1>10. RootInv'
  BY <1>3, <1>4, <1>9, RootKept
<1>11. ContextInv'
  BY <1>2, <1>3, <1>4, <1>5, <1>9 DEF ContextInv
<1>12. IsContext(context') /\ context'[1] = s /\ IsContext(tracker)
  BY <1>3, <1>4, UpdatedInOrder DEF TrackersShape
<1>13. context[1] \in Nat
  BY <1>4, ContextSlots
<1>14. OrderInv'
  <2> SUFFICES ASSUME ~wentBack'
               PROVE  (\A c \in contexts' : InOrder(c)) /\ \A l \in 1 .. 3 : tracker[l] <= context'[l]
    BY <1>3 DEF OrderInv, InOrder
  <2>1. ~wentBack /\ context[1] <= s
    <3>1. ~wentBack /\ ~(s < context[1])
      BY <1>3
    <3>2. QED
      BY <1>4, <1>13, <3>1
  <2>2. InOrder(context) /\ \A l \in 1 .. 3 : tracker[l] <= context[l]
    BY <1>4, <2>1 DEF OrderInv
  <2>3. InOrder(context') /\ \A l \in 1 .. 3 : context[l] <= context'[l]
    BY <1>3, <1>4, <2>1, <2>2, UpdatedInOrder
  <2>4. tracker \in [1 .. 3 -> Nat] /\ context \in [1 .. 3 -> Nat] /\ context' \in [1 .. 3 -> Nat]
    BY <1>4, <1>12 DEF IsContext
  <2>5. \A l \in 1 .. 3 : tracker[l] <= context'[l]
    BY <2>2, <2>3, <2>4
  <2>6. QED
    BY <1>3, <1>4, <2>1, <2>3, <2>5 DEF OrderInv
<1>15. TrackersShape'
  <2>1. wentBack' \in BOOLEAN
    BY <1>3, <1>4 DEF TrackersShape
  <2>2. (\A c \in contexts : IsContext(c)) /\ \A c \in contexts' : IsContext(c)
    BY <1>3, <1>4, <1>12 DEF TrackersShape
  <2>3. (\A c \in contexts' : IsContext(c)') /\ IsContext(tracker)' /\ IsContext(context)'
    BY <1>3, <1>12, <2>2 DEF IsContext
  <2>4. QED
    BY <1>3, <1>4, <1>5, <1>7, <2>1, <2>3 DEF TrackersShape
<1>16. WatermarkInv'
  BY <1>3, <1>4 DEF WatermarkInv
<1>17. QED
  BY <1>10, <1>11, <1>14, <1>15, <1>16 DEF TrackersInv

\* AtomicSlotTracker::update() stores one slot; get_context() starts or loads one.
LEMMA ContextSteps ==
  ASSUME TrackersInv, NEW t \in Workers, StoreSlot(t) \/ GetContext(t) \/ LoadSlot(t)
  PROVE  TrackersInv'
<1>1. UNCHANGED <<watermark, root, context, returned, advanced, rootRaced, contexts, wentBack>>
  BY DEF StoreSlot, GetContext, LoadSlot, trackersState
<1>2. /\ TrackersShape /\ WatermarkInv /\ RootInv /\ ContextInv /\ OrderInv
      /\ DOMAIN job = Workers /\ TrackerCall(t) /\ IsContext(tracker) /\ IsContext(context)
  BY DEF TrackersInv, TrackersShape
<1>3. WatermarkInv'
  BY <1>1, <1>2 DEF WatermarkInv
<1>4. ASSUME NEW j, job' = [job EXCEPT ![t] = j], TrackerCall(t)',
             job[t].op # "advance_root", j.op # "advance_root",
             IsContext(tracker'), \A r \in read' : r[2] \in BOOLEAN, ContextInv',
             ~wentBack => \A l \in 1 .. 3 : tracker'[l] <= context[l]
      PROVE  TrackersInv'
  <2>1. \A u : u \in Doing("advance_root")' <=> u \in Doing("advance_root")
    BY <1>2, <1>4, DoingAfter DEF Doing
  <2>2. \A u \in Doing("advance_root") : job'[u] = job[u]
    BY <1>2, <1>4, DoingAfter DEF Doing
  <2>3. RootInv'
    BY <1>1, <1>2, <2>1, <2>2, RootKept
  <2>4. OrderInv'
    BY <1>1, <1>2, <1>4 DEF OrderInv, InOrder
  <2>5. TrackersShape'
    BY <1>1, <1>2, <1>4, CallsKept DEF TrackersShape, IsContext
  <2>6. QED
    BY <1>3, <1>4, <2>3, <2>4, <2>5 DEF TrackersInv
<1>5. CASE StoreSlot(t)
  <2>1. PICK i : i = job[t].pc
    OBVIOUS
  <2>2. /\ job[t].op = "write_context" /\ tracker' = [tracker EXCEPT ![i] = context[i]]
        /\ IF i = 3 THEN Finish(t) ELSE Goto(t, i + 1)
        /\ read' = read
    BY <1>5, <2>1 DEF StoreSlot
  <2>3. i \in 1 .. 3 /\ DOMAIN job[t] = {"op", "pc"} /\ t \in Doing("write_context")
    BY <1>2, <2>1, <2>2 DEF TrackerCall, Doing
  <2>4. /\ Doing("write_context") = {t}
        /\ \A k \in 1 .. 3 : k < i => tracker[k] = context[k]
    BY <1>2, <2>1, <2>3 DEF ContextInv
  <2>5. tracker \in [1 .. 3 -> Nat] /\ context \in [1 .. 3 -> Nat]
    BY <1>2 DEF IsContext
  <2>6. \A k \in 1 .. 3 : tracker'[k] = IF k = i THEN context[k] ELSE tracker[k]
    BY <2>2, <2>3, <2>5
  <2>7. IsContext(tracker')
    BY <2>2, <2>3, <2>5 DEF IsContext
  <2>8. ~wentBack => \A l \in 1 .. 3 : tracker'[l] <= context[l]
    BY <1>2, <2>5, <2>6 DEF OrderInv
  <2>9. \A r \in read' : r[2] \in BOOLEAN
    BY <1>2, <2>2 DEF TrackersShape
  <2>10. CASE i = 3
    <3>1. job' = [job EXCEPT ![t] = NoJob] /\ NoJob.op = "idle"
      BY <2>2, <2>10 DEF Finish, NoJob
    <3>2. job'[t] = NoJob
      BY <1>2, <3>1
    <3>3. TrackerCall(t)'
      BY <3>1, <3>2 DEF TrackerCall
    <3>4. /\ Doing("write_context")' = {}
          /\ \A u \in Doing("read_context")' : u \in Doing("read_context") /\ job'[u] = job[u]
      BY <1>2, <2>2, <2>4, <3>1, DoingAfter DEF Doing
    <3>5. tracker' = context
      BY <2>4, <2>5, <2>6, <2>7, <2>10 DEF IsContext
    <3>6. ContextInv'
      BY <1>1, <1>2, <2>2, <2>4, <3>4, <3>5 DEF ContextInv
    <3>7. QED
      BY <1>4, <2>2, <2>7, <2>8, <2>9, <3>1, <3>3, <3>6
  <2>11. CASE i # 3
    <3>1. PICK j : j = [job[t] EXCEPT !.pc = i + 1]
      OBVIOUS
    <3>2. job' = [job EXCEPT ![t] = j] /\ job'[t] = j
      BY <1>2, <2>2, <2>11, <3>1 DEF Goto
    <3>3. DOMAIN j = {"op", "pc"} /\ j.op = "write_context" /\ j.pc = i + 1
      BY <2>2, <2>3, <3>1
    <3>4. TrackerCall(t)'
      BY <2>3, <2>11, <3>2, <3>3 DEF TrackerCall
    <3>5. /\ Doing("write_context")' = {t}
          /\ \A u \in Doing("read_context")' : u \in Doing("read_context") /\ job'[u] = job[u]
      BY <1>2, <2>2, <2>4, <3>2, <3>3, DoingAfter DEF Doing
    <3>6. \A k \in 1 .. 3 : k < j.pc => tracker'[k] = context[k]
      BY <2>3, <2>4, <2>6, <3>3
    <3>7. ContextInv'
      BY <1>1, <1>2, <2>2, <2>4, <3>2, <3>5, <3>6 DEF ContextInv
    <3>8. QED
      BY <1>4, <2>2, <2>7, <2>8, <2>9, <3>2, <3>3, <3>4, <3>7
  <2>12. QED
    BY <2>10, <2>11
<1>6. CASE GetContext(t)
  <2>1. PICK j : j = [op |-> "read_context", pc |-> 1, got |-> <<>>, torn |-> Doing("write_context") # {}]
    OBVIOUS
  <2>2. job[t].op = "idle" /\ job' = [job EXCEPT ![t] = j] /\ UNCHANGED <<tracker, read>>
    BY <1>6, <2>1 DEF GetContext, Begin, trackersState
  <2>3. /\ DOMAIN j = {"op", "pc", "got", "torn"} /\ j.op = "read_context" /\ j.pc = 1
        /\ j.got = <<>> /\ j.torn = (Doing("write_context") # {})
    BY <2>1
  <2>4. j.torn \in BOOLEAN
    BY <2>3
  <2>5. job'[t] = j /\ \A op, u : u \in Doing(op)' <=> (IF u = t THEN j.op = op ELSE u \in Doing(op))
    BY <1>2, <2>2, DoingAfter
  <2>6. TrackerCall(t)'
    <3>1. j.got \in Seq(Nat) /\ Len(j.got) = j.pc - 1
      BY <2>3
    <3>2. DOMAIN j = {"op", "pc", "got", "torn"} /\ j.op = "read_context" /\ j.pc = 1
      BY <2>3
    <3>3. QED
      BY <2>4, <2>5, <3>1, <3>2 DEF TrackerCall
  <2>7. \A u \in Workers : u # t => job'[u] = job[u]
    BY <1>2, <2>2, DoingAfter
  <2>8. Doing("write_context")' = Doing("write_context") /\ t \notin Doing("write_context")
    BY <2>2, <2>3, <2>5 DEF Doing
  <2>9. \A u \in Doing("write_context") : job'[u] = job[u]
    BY <2>7, <2>8 DEF Doing
  <2>10. \A u \in Doing("read_context")' : u # t => u \in Doing("read_context") /\ job'[u] = job[u]
    BY <2>5, <2>7 DEF Doing
  <2>11. ~job'[t].torn => Doing("write_context") = {} /\ Len(job'[t].got) = 0
    <3>1. Len(j.got) = 0
      BY <2>3
    <3>2. ~j.torn => Doing("write_context") = {}
      BY <2>3
    <3>3. QED
      BY <2>5, <3>1, <3>2
  <2>12. \A u \in Doing("read_context")' : ~job'[u].torn =>
           /\ Doing("write_context") = {}
           /\ \A i \in 1 .. Len(job'[u].got) : job'[u].got[i] = context[i]
    <3> SUFFICES ASSUME NEW u \in Doing("read_context")', ~job'[u].torn
                 PROVE  /\ Doing("write_context") = {}
                        /\ \A i \in 1 .. Len(job'[u].got) : job'[u].got[i] = context[i]
      OBVIOUS
    <3>1. CASE u = t
      BY <2>11, <3>1
    <3>2. CASE u # t
      BY <1>2, <2>10, <3>2 DEF ContextInv
    <3>3. QED
      BY <3>1, <3>2
  <2>13. ContextInv'
    BY <1>1, <1>2, <2>2, <2>8, <2>9, <2>12 DEF ContextInv
  <2>14. QED
    BY <1>2, <1>4, <2>2, <2>3, <2>6, <2>13 DEF OrderInv, TrackersShape
<1>7. CASE LoadSlot(t)
  <2>1. PICK i, got : i = job[t].pc /\ got = Append(job[t].got, tracker[i])
    OBVIOUS
  <2>2. /\ job[t].op = "read_context" /\ tracker' = tracker
        /\ IF i = 3 THEN read' = read \cup {<<got, job[t].torn>>} /\ Finish(t)
           ELSE /\ job' = [job EXCEPT ![t].got = got, ![t].pc = i + 1]
                /\ read' = read
    BY <1>7, <2>1 DEF LoadSlot
  <2>3. /\ DOMAIN job[t] = {"op", "pc", "got", "torn"} /\ t \in Doing("read_context")
        /\ i \in 1 .. 3 /\ job[t].torn \in BOOLEAN
        /\ job[t].got \in Seq(Nat) /\ Len(job[t].got) = i - 1
    BY <1>2, <2>1, <2>2 DEF TrackerCall, Doing
  <2>4. tracker \in [1 .. 3 -> Nat] /\ tracker[i] \in Nat
    BY <1>2, <2>3 DEF IsContext
  <2>5. /\ got \in Seq(Nat) /\ Len(got) = i /\ got[i] = tracker[i]
        /\ \A k \in 1 .. i - 1 : got[k] = job[t].got[k]
    BY <2>1, <2>3, <2>4
  <2>6. ~job[t].torn => /\ Doing("write_context") = {} /\ tracker = context
                        /\ \A k \in 1 .. i : got[k] = context[k]
    <3> SUFFICES ASSUME ~job[t].torn
                 PROVE  /\ Doing("write_context") = {} /\ tracker = context
                        /\ \A k \in 1 .. i : got[k] = context[k]
      OBVIOUS
    <3>1. /\ Doing("write_context") = {} /\ tracker = context
          /\ \A k \in 1 .. Len(job[t].got) : job[t].got[k] = context[k]
      BY <1>2, <2>3, Zenon DEF ContextInv
    <3>2. \A k \in 1 .. i : got[k] = context[k]
      BY <2>3, <2>5, <3>1
    <3>3. QED
      BY <3>1, <3>2
  <2>7. \A k : ~wentBack => \A l \in 1 .. 3 : tracker'[l] <= context[l]
    BY <1>2, <2>2 DEF OrderInv
  <2>8. CASE i = 3
    <3>1. job' = [job EXCEPT ![t] = NoJob] /\ NoJob.op = "idle"
          /\ read' = read \cup {<<got, job[t].torn>>}
      BY <2>2, <2>8 DEF Finish, NoJob
    <3>2. job'[t] = NoJob
      BY <1>2, <3>1
    <3>3. TrackerCall(t)'
      BY <3>1, <3>2 DEF TrackerCall
    <3>4. /\ Doing("write_context")' = Doing("write_context")
          /\ \A u \in Doing("write_context") : job'[u] = job[u]
          /\ \A u \in Doing("read_context")' : u \in Doing("read_context") /\ job'[u] = job[u]
      BY <1>2, <2>2, <3>1, DoingAfter DEF Doing
    <3>5. IsContext(got)
      BY <2>5, <2>8, LenProperties DEF IsContext
    <3>6. ~job[t].torn => got \in contexts
      <4>1. ~job[t].torn => got = context
        BY <1>2, <2>6, <2>8, <3>5 DEF IsContext
      <4>2. QED
        BY <1>2, <4>1 DEF TrackersShape
    <3>7. ContextInv'
      BY <1>1, <1>2, <2>2, <3>1, <3>4, <3>6 DEF ContextInv
    <3>8. \A r \in read' : r[2] \in BOOLEAN
      BY <1>2, <2>3, <3>1 DEF TrackersShape
    <3>9. QED
      BY <1>2, <1>4, <2>2, <2>7, <3>1, <3>3, <3>7, <3>8
  <2>9. CASE i # 3
    <3>1. PICK g : g = [job[t] EXCEPT !.got = got]
      OBVIOUS
    <3>2. PICK j : j = [g EXCEPT !.pc = i + 1]
      OBVIOUS
    <3>3. job' = [job EXCEPT ![t] = j] /\ job'[t] = j /\ read' = read
      BY <1>2, <2>2, <2>9, <3>1, <3>2
    <3>4. DOMAIN g = {"op", "pc", "got", "torn"} /\ g.op = "read_context" /\ g.got = got /\ g.torn = job[t].torn
      BY <2>2, <2>3, <3>1
    <3>5. /\ DOMAIN j = {"op", "pc", "got", "torn"} /\ j.op = "read_context" /\ j.pc = i + 1
          /\ j.got = got /\ j.torn = job[t].torn
      BY <3>2, <3>4
    <3>6. TrackerCall(t)'
      BY <2>3, <2>5, <2>9, <3>3, <3>5 DEF TrackerCall
    <3>7. /\ Doing("write_context")' = Doing("write_context")
          /\ \A u \in Doing("write_context") : job'[u] = job[u]
          /\ \A u \in Doing("read_context")' : u # t => u \in Doing("read_context") /\ job'[u] = job[u]
      BY <1>2, <2>2, <3>3, <3>5, DoingAfter DEF Doing
    <3>8. \A u \in Doing("read_context")' : ~job'[u].torn =>
            /\ Doing("write_context") = {}
            /\ \A k \in 1 .. Len(job'[u].got) : job'[u].got[k] = context[k]
      <4> SUFFICES ASSUME NEW u \in Doing("read_context")', ~job'[u].torn
                   PROVE  /\ Doing("write_context") = {}
                          /\ \A k \in 1 .. Len(job'[u].got) : job'[u].got[k] = context[k]
        OBVIOUS
      <4>1. CASE u = t
        BY <2>5, <2>6, <3>3, <3>5, <4>1
      <4>2. CASE u # t
        BY <1>2, <3>7, <4>2 DEF ContextInv
      <4>3. QED
        BY <4>1, <4>2
    <3>9. ContextInv'
      BY <1>1, <1>2, <2>2, <3>3, <3>7, <3>8 DEF ContextInv
    <3>10. QED
      BY <1>2, <1>4, <2>2, <2>7, <3>3, <3>5, <3>6, <3>9 DEF TrackersShape
  <2>10. QED
    BY <2>8, <2>9
<1>8. QED
  BY <1>5, <1>6, <1>7

LEMMA TrackersInitially == TrackersInit => TrackersInv
<1> SUFFICES ASSUME TrackersInit PROVE TrackersInv
  OBVIOUS
<1>1. /\ DOMAIN job = Workers /\ \A t \in Workers : job[t].op = "idle"
      /\ watermark = 0 /\ root = 0 /\ tracker = NewContext /\ context = NewContext
      /\ returned = {} /\ advanced = 0 /\ rootRaced = FALSE
      /\ contexts = {NewContext} /\ wentBack = FALSE /\ read = {}
  BY DEF TrackersInit, JobsInit, NoJob
<1>2. IsContext(NewContext) /\ NewContext[1] = 0 /\ NewContext[2] = 0 /\ NewContext[3] = 0
  BY ContextOf DEF NewContext
<1>3. \A op \in {"watermark", "advance_root", "write_context", "read_context"} : Doing(op) = {}
  BY <1>1 DEF Doing
<1>4. TrackersShape
  BY <1>1, <1>2 DEF TrackersShape, TrackerCall
<1>5. OrderInv
  <2>1. \A l \in 1 .. 3 : NewContext[l] = 0
    BY <1>2
  <2>2. QED
    BY <1>1, <1>2, <2>1 DEF OrderInv, InOrder
<1>6. QED
  BY <1>1, <1>3, <1>4, <1>5 DEF TrackersInv, WatermarkInv, RootInv, ContextInv

LEMMA TrackersStep == TrackersInv /\ [TrackersNext]_trackersVars => TrackersInv'
<1> SUFFICES ASSUME TrackersInv, [TrackersNext]_trackersVars PROVE TrackersInv'
  OBVIOUS
<1>1. CASE UNCHANGED trackersVars
  BY <1>1 DEF trackersVars, trackersState, TrackersInv, TrackersShape, TrackerCall, WatermarkInv,
     RootInv, ContextInv, OrderInv, InOrder, IsContext, Doing
<1>2. ASSUME NEW t \in Workers,
             \/ \E s \in TrackedSlots : UpdateWatermark(t, s) \/ UpdateRoot(t, s)
                                          \/ LoadRoot(t, s) \/ UpdateTracker(t, s)
             \/ LoadWatermark(t) \/ ExchangeWatermark(t) \/ AdvanceWatermark(t)
             \/ StoreNewRoot(t)
             \/ StoreSlot(t) \/ GetContext(t) \/ LoadSlot(t)
      PROVE  TrackersInv'
  BY <1>2, WatermarkSteps, AtOnce, RootSteps, ContextUpdated, ContextSteps
<1>3. QED
  BY <1>1, <1>2 DEF TrackersNext

\* For any threads, slots and finality: no update of the watermark is lost; an advance of the
\* root is lost only to a change it overlaps; get_context() mixes contexts only if a write
\* overlaps; and while no processed slot goes back, what is visible at a commitment is so at
\* those it satisfies and has the confirmations it asks for.
THEOREM TrackersSafe == TrackersSpec => []TrackersHold
<1>1. ASSUME TrackersInv PROVE TrackersHold
  <2>1. TrackersShape /\ WatermarkInv /\ RootInv /\ ContextInv /\ OrderInv
    BY <1>1 DEF TrackersInv
  <2>2. \A s \in returned : watermark >= s
    BY <2>1 DEF WatermarkInv, TrackersShape
  <2>3. ~rootRaced /\ Doing("advance_root") = {} => root = advanced
    BY <2>1 DEF RootInv
  <2>4. \A r \in read : r[1] \in contexts \/ r[2]
    BY <2>1 DEF ContextInv
  <2>5. DOMAIN Commitments = 1 .. 3
    BY DEF Commitments
  <2>6. ASSUME ~wentBack, NEW l \in 1 .. 3
        PROVE  tracker_watermark(l) <= get_watermark(context, l)
    BY <2>1, <2>6 DEF OrderInv, tracker_watermark, get_watermark
  <2>7. ASSUME ~wentBack, NEW l \in 1 .. 3, NEW r \in read, NEW s \in TrackedSlots \ {0},
               ~r[2], is_visible(r[1], s, l)
        PROVE  /\ s + min_confirmations(l) <= get_watermark(r[1], 1)
               /\ \A m \in 1 .. 3 : satisfies(l, m) => is_visible(r[1], s, m)
    <3>1. PICK c \in contexts : c = r[1]
      BY <2>4, <2>7
    <3>2. InOrder(c) /\ c[1] \in Nat /\ c[2] \in Nat /\ c[3] \in Nat
      BY <2>1, <2>7, ContextSlots DEF OrderInv, TrackersShape
    <3>3. s \in Nat \ {0} /\ Finality \in Nat \ {0}
      BY TrackersAssumption
    <3>4. s <= c[l]
      BY <2>7, <3>1 DEF is_visible, get_watermark
    <3>5. /\ min_confirmations(1) = 0 /\ min_confirmations(2) = 1 /\ min_confirmations(3) = Finality
      BY DEF min_confirmations
    <3>6. /\ c[2] <= c[1] /\ c[3] <= c[2]
          /\ l = 2 => s + 1 <= c[1]
          /\ l = 3 => s + Finality <= c[1]
      BY <3>2, <3>3, <3>4 DEF InOrder
    <3>7. s + min_confirmations(l) <= c[1]
      <4>1. CASE l = 1
        BY <3>2, <3>3, <3>4, <3>5, <4>1
      <4>2. CASE l = 2
        BY <3>5, <3>6, <4>2
      <4>3. CASE l = 3
        BY <3>5, <3>6, <4>3
      <4>4. QED
        BY <4>1, <4>2, <4>3
    <3>8. \A m \in 1 .. 3 : m <= l => s <= c[m]
      BY <3>2, <3>3, <3>4, <3>6
    <3>9. QED
      BY <3>1, <3>7, <3>8 DEF is_visible, get_watermark, satisfies
  <2>8. QED
    BY <2>2, <2>3, <2>4, <2>5, <2>6, <2>7 DEF TrackersHold
<1>2. QED
  BY TrackersInitially, TrackersStep, <1>1, PTL DEF TrackersSpec
=============================================================================
