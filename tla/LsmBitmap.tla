----------------------------- MODULE LsmBitmap -----------------------------
(***************************************************************************)
(* index-fabric/src/lsm_bitmap.rs: a bitmap kept as a base and a vector of *)
(* deltas.  insert() writes the last delta and may spawn a background      *)
(* compaction; compact() runs the same merge in the caller's thread.  A    *)
(* compaction takes its locks one after the other (clone the base, drain   *)
(* the deltas, install the new base), so other threads see the states in   *)
(* between.  One action below is one critical section of the code.         *)
(***************************************************************************)
EXTENDS Naturals, Sequences, FiniteSets

CONSTANTS
    Ids,             \* the u32 ids that are inserted and removed
    Inserters,       \* threads that call insert()
    Jobs,            \* background compaction threads that can be alive at once
    CompactCallers,         \* threads that call compact()
    Readers,         \* threads that call contains()
    max_deltas,      \* with_config(max_deltas, max_delta_size)
    max_delta_size,
    CounterLimit,    \* the 1_000_000 inserts of should_compact()
    MaxCounter       \* bound: no insert is started once the counter is here

ASSUME LsmAssumption ==
    /\ max_deltas \in Nat /\ max_delta_size \in Nat
    /\ CounterLimit \in Nat /\ MaxCounter \in Nat
    /\ Jobs \cap CompactCallers = {}

VARIABLES
    base,         \* RwLock<RoaringBitmap>
    deltas,       \* RwLock<Vec<RoaringBitmap>>
    counter,      \* compaction_counter
    in_progress,  \* compaction_in_progress
    ipc,          \* where each inserter is in insert()
    want,         \* what should_compact() has read so far, per inserter
    cpc,          \* where each compaction is
    new_base,     \* the local new_base of each compaction
    rpc,          \* where each reader is in contains()
    rid,          \* the id it asks for
    expect,       \* history: it was in the bitmap throughout the call
    result,       \* what the last contains() returned
    acked         \* history: ids inserted and not removed since

lsm  == <<base, deltas, counter, in_progress>>
ins  == <<ipc, want>>
comp == <<cpc, new_base>>
rd   == <<rpc, rid, expect, result>>
lsmVars == <<base, deltas, counter, in_progress, ipc, want, cpc, new_base,
          rpc, rid, expect, result, acked>>

Compactions == Jobs \cup CompactCallers

\* No inserter is inside should_compact(), which holds deltas.read().
DeltasWritable == \A i \in Inserters : ipc[i] # "flag"

InDeltas == UNION {deltas[k] : k \in DOMAIN deltas}

LsmTypeOK ==
    /\ base \in SUBSET Ids
    /\ deltas \in Seq(SUBSET Ids) /\ Len(deltas) = 1
    /\ counter \in Nat
    /\ in_progress \in BOOLEAN
    /\ ipc \in [Inserters -> {"idle", "should", "flag", "trigger"}]
    /\ want \in [Inserters -> BOOLEAN]
    /\ cpc \in [Compactions ->
                   {"free", "clone", "merge", "swap", "reset", "clear"}]
    /\ new_base \in [Compactions -> SUBSET Ids]
    /\ rpc \in [Readers -> {"idle", "base"}]
    /\ rid \in [Readers -> Ids]
    /\ expect \in [Readers -> BOOLEAN]
    /\ result \in [Readers -> {"none", "hit", "miss"}]
    /\ acked \in SUBSET Ids

LsmInit ==
    /\ base = {}
    /\ deltas = <<{}>>
    /\ counter = 0
    /\ in_progress = FALSE
    /\ ipc = [i \in Inserters |-> "idle"]
    /\ want = [i \in Inserters |-> FALSE]
    /\ cpc = [c \in Compactions |-> "free"]
    /\ new_base = [c \in Compactions |-> {}]
    /\ rpc = [r \in Readers |-> "idle"]
    /\ rid \in [Readers -> Ids]
    /\ expect = [r \in Readers |-> FALSE]
    /\ result = [r \in Readers |-> "none"]
    /\ acked = {}

----------------------------------------------------------------------------
(* insert(id) *)

\* The critical section of deltas.write(), the counter's included.
InsertDelta(i, id) ==
    /\ ipc[i] = "idle"
    /\ counter < MaxCounter
    /\ DeltasWritable
    /\ deltas' = [deltas EXCEPT ![Len(deltas)] = @ \cup {id}]
    /\ counter' = counter + 1
    /\ ipc' = [ipc EXCEPT ![i] = "should"]
    /\ acked' = acked \cup {id}
    /\ UNCHANGED <<base, in_progress, want, comp, rd>>

\* should_compact() up to the counter.  deltas.read() is held from here until
\* the flag is read, so the thresholds can be evaluated at once.
ShouldCompact(i) ==
    /\ ipc[i] = "should"
    /\ want' = [want EXCEPT ![i] =
                   \/ Len(deltas) >= max_deltas
                   \/ Cardinality(deltas[Len(deltas)]) >= max_delta_size
                   \/ counter >= CounterLimit]
    /\ ipc' = [ipc EXCEPT ![i] = "flag"]
    /\ UNCHANGED <<lsm, comp, rd, acked>>

\* should_compact() reads the flag and answers.
ReadFlag(i) ==
    /\ ipc[i] = "flag"
    /\ ipc' = [ipc EXCEPT ![i] =
                  IF ~in_progress /\ want[i] THEN "trigger" ELSE "idle"]
    /\ UNCHANGED <<lsm, want, comp, rd, acked>>

\* trigger_compaction_async(): sets the flag unconditionally, then spawns.
Trigger(i, j) ==
    /\ ipc[i] = "trigger"
    /\ cpc[j] = "free"
    /\ in_progress' = TRUE
    /\ cpc' = [cpc EXCEPT ![j] = "clone"]
    /\ ipc' = [ipc EXCEPT ![i] = "idle"]
    /\ UNCHANGED <<base, deltas, counter, want, new_base, rd, acked>>

----------------------------------------------------------------------------
(* A compaction, in a background thread or inside compact(). *)

CallCompact(c) ==
    /\ cpc[c] = "free"
    /\ cpc' = [cpc EXCEPT ![c] = "clone"]
    /\ UNCHANGED <<lsm, ins, new_base, rd, acked>>

CloneBase(c) ==
    /\ cpc[c] = "clone"
    /\ new_base' = [new_base EXCEPT ![c] = base]
    /\ cpc' = [cpc EXCEPT ![c] = "merge"]
    /\ UNCHANGED <<lsm, ins, rd, acked>>

\* Plausible bug: the deltas are drained without being merged.
MMergeDeltas(c) ==
    /\ cpc[c] = "merge"
    /\ DeltasWritable
    /\ deltas' = <<{}>>
    /\ cpc' = [cpc EXCEPT ![c] = "swap"]
    /\ UNCHANGED <<base, counter, in_progress, ins, new_base, rd, acked>>

MergeDeltas(c) ==
    /\ cpc[c] = "merge"
    /\ DeltasWritable
    /\ new_base' = [new_base EXCEPT ![c] = @ \cup InDeltas]
    /\ deltas' = <<{}>>
    /\ cpc' = [cpc EXCEPT ![c] = "swap"]
    /\ UNCHANGED <<base, counter, in_progress, ins, rd, acked>>

SwapBase(c) ==
    /\ cpc[c] = "swap"
    /\ base' = new_base[c]
    /\ new_base' = [new_base EXCEPT ![c] = {}]  \* moved
    /\ cpc' = [cpc EXCEPT ![c] = "reset"]
    /\ UNCHANGED <<deltas, counter, in_progress, ins, rd, acked>>

\* compact() returns here; a background thread has the flag left to clear.
ResetCounter(c) ==
    /\ cpc[c] = "reset"
    /\ counter' = 0
    /\ cpc' = [cpc EXCEPT ![c] = IF c \in Jobs THEN "clear" ELSE "free"]
    /\ UNCHANGED <<base, deltas, in_progress, ins, new_base, rd, acked>>

ClearFlag(c) ==
    /\ cpc[c] = "clear"
    /\ in_progress' = FALSE
    /\ cpc' = [cpc EXCEPT ![c] = "free"]
    /\ UNCHANGED <<base, deltas, counter, ins, new_base, rd, acked>>

Compact(c) ==
    CloneBase(c) \/ MergeDeltas(c) \/ SwapBase(c) \/ ResetCounter(c)
        \/ ClearFlag(c)

----------------------------------------------------------------------------
\* Plausible bug: remove() replaces the deltas it has locked by an empty one.
MRemoveId(id) ==
    /\ DeltasWritable
    /\ base' = base \ {id}
    /\ deltas' = <<{}>>
    /\ acked' = acked \ {id}
    /\ expect' = [r \in Readers |-> expect[r] /\ rid[r] # id]
    /\ UNCHANGED <<counter, in_progress, ins, comp, rpc, rid, result>>

\* remove(id): only the base is written, the deltas are locked and left alone.
RemoveId(id) ==
    /\ base' = base \ {id}
    /\ acked' = acked \ {id}
    /\ expect' = [r \in Readers |-> expect[r] /\ rid[r] # id]
    /\ UNCHANGED <<deltas, counter, in_progress, ins, comp, rpc, rid, result>>

\* contains(id), first the deltas ...
ContainsDeltas(r, id) ==
    /\ rpc[r] = "idle"
    /\ rid' = [rid EXCEPT ![r] = id]
    /\ expect' = [expect EXCEPT ![r] = id \in acked]
    /\ IF id \in InDeltas
       THEN result' = [result EXCEPT ![r] = "hit"] /\ rpc' = rpc
       ELSE result' = [result EXCEPT ![r] = "none"]
            /\ rpc' = [rpc EXCEPT ![r] = "base"]
    /\ UNCHANGED <<lsm, ins, comp, acked>>

\* Plausible bug: the second lookup is skipped when the deltas were drained.
MContainsBase(r) ==
    /\ rpc[r] = "base"
    /\ result' = [result EXCEPT ![r] = "miss"]
    /\ rpc' = [rpc EXCEPT ![r] = "idle"]
    /\ UNCHANGED <<lsm, ins, comp, rid, expect, acked>>

\* ... then, with the first lock released, the base.
ContainsBase(r) ==
    /\ rpc[r] = "base"
    /\ result' = [result EXCEPT ![r] = IF rid[r] \in base THEN "hit" ELSE "miss"]
    /\ rpc' = [rpc EXCEPT ![r] = "idle"]
    /\ UNCHANGED <<lsm, ins, comp, rid, expect, acked>>

----------------------------------------------------------------------------
LsmNext ==
    \/ \E i \in Inserters, id \in Ids : InsertDelta(i, id)
    \/ \E i \in Inserters : ShouldCompact(i)
    \/ \E i \in Inserters : ReadFlag(i)
    \/ \E i \in Inserters, j \in Jobs : Trigger(i, j)
    \/ \E c \in CompactCallers : CallCompact(c)
    \/ \E c \in Compactions : Compact(c)
    \/ \E id \in Ids : RemoveId(id)
    \/ \E r \in Readers, id \in Ids : ContainsDeltas(r, id)
    \/ \E r \in Readers : ContainsBase(r)

LsmSpec == LsmInit /\ [][LsmNext]_lsmVars

----------------------------------------------------------------------------
(* Properties *)

\* query() holds base.read() while it takes deltas.read(), so it sees one
\* moment of the bitmap.
Queried == base \cup InDeltas

\* What compactions between their clone and their swap hold outside both.
InFlight == UNION {new_base[c] : c \in {d \in Compactions :
                                           cpc[d] \in {"merge", "swap"}}}

Members == Queried \cup InFlight

\* The flag admits one compaction at a time: a second one started from the same
\* base would install a base without what the first one drained
\* (lsm_bitmap.rs, trigger_compaction_async).
OneCompaction ==
    \A c, d \in Compactions : cpc[c] # "free" /\ cpc[d] # "free" => c = d

\* No id is lost: what insert() stored and nobody removed is in the base, in a
\* delta, or in the new base a running compaction is about to install.
NoLostInsert == acked \subseteq Members

\* The strengthening that makes the two inductive: a running compaction keeps the
\* flag set, an inserter past the flag is alone, and while one compaction runs the
\* base can only lose ids, so it stays inside that compaction's clone.
LsmInv ==
    /\ \A c \in Jobs : cpc[c] # "free" => in_progress
    /\ \A i \in Inserters : ipc[i] = "trigger" =>
           \A c \in Compactions : cpc[c] = "free"
    /\ \A c \in Compactions : cpc[c] \in {"merge", "swap"} => base \subseteq new_base[c]
    /\ OneCompaction
    /\ NoLostInsert

\* contains() finds an id that was there throughout the call, as
\* test_lsm_bitmap_query_during_compaction expects (run lsm_contains: it does not).
EveryLookupFinds == \A r \in Readers : expect[r] => result[r] # "miss"

\* How far it falls short of that: the id it misses is one that a compaction holds
\* between draining the deltas and installing the base, and no other id is missed.
MissOnlyInWindow ==
    [][\A r \in Readers :
          rpc[r] = "base" /\ result'[r] = "miss" /\ expect[r] =>
              \E c \in Compactions : cpc[c] = "swap" /\ rid[r] \in new_base[c]]_lsmVars

\* What the bitmap holds in the base alone, where remove() reaches it.
SettledIds == base \ (InDeltas \cup InFlight)

\* The bitmap implements the abstract set: an id leaves it in a remove() of that id and
\* in no other step, compactions included, and at once where it is settled.
Abstract == INSTANCE IdSet WITH members <- Members, asked <- acked, settled <- SettledIds
AbstractSpec == Abstract!Spec

\* The hypothesis under which the code keeps these promises.
SingleCompactor ==
    /\ \A s, t \in Inserters : s = t
    /\ CompactCallers = {}

=============================================================================
