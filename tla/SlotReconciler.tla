--------------------------- MODULE SlotReconciler ---------------------------
(***************************************************************************)
(* slot-reconciler/src/lib.rs: every commitment slot is kept twice, in an  *)
(* atomic for lock-free reads and in a record behind a lock for stats().   *)
(* update_*() writes the atomic before it takes the lock;                  *)
(* handle_rollback() reads and writes the finalized atomic while it holds  *)
(* the lock, which does not stop an update_finalized() that has not asked  *)
(* for the lock yet.  One action is one atomic access or the part of a     *)
(* critical section between two of them.                                   *)
(***************************************************************************)
EXTENDS Integers

CONSTANTS
    Threads,       \* callers of the reconciler
    Slots,         \* slots they report
    root0,         \* new(root_slot)
    MaxRollbacks   \* bound: calls of handle_rollback()

ASSUME SlotAssumption ==
    Slots \subseteq Nat /\ root0 \in Nat /\ MaxRollbacks \in Nat

Levels == {"Processed", "Confirmed", "Finalized"}

VARIABLES
    atom,            \* processed_slot, confirmed_slot, finalized_slot
    atom_root,       \* root_slot, the atomic
    slot,            \* the same slots of the locked state, per level
    root_slot,       \* state.root_slot
    rollback_count,
    lock,            \* whether some thread holds state.write()
    pc,              \* where each thread is
    level, arg,      \* the level and slot it reports, or the new root
    raced,           \* history: levels two overlapping calls have stored
    due,             \* history: the last rollback's root, or the highest slot that
                     \* update_finalized() was called with since, if that is higher
    overtaken        \* history: an update_finalized() was waiting for the lock when
                     \* the last rollback got it

rootHistory == <<due, overtaken>>
vars == <<atom, atom_root, slot, root_slot, rollback_count, lock, pc, level, arg, raced,
          due, overtaken>>

TypeOK ==
    /\ atom \in [Levels -> Nat] /\ atom_root \in Nat
    /\ slot \in [Levels -> Nat] /\ root_slot \in Nat
    /\ rollback_count \in Nat
    /\ lock \in BOOLEAN
    /\ pc \in [Threads -> {"idle", "locking", "root", "load", "store"}]
    /\ level \in [Threads -> Levels]
    /\ arg \in [Threads -> Nat]
    /\ raced \in SUBSET Levels
    /\ due \in Nat /\ overtaken \in BOOLEAN

Init ==
    /\ atom = [l \in Levels |-> root0] /\ atom_root = root0
    /\ slot = [l \in Levels |-> root0] /\ root_slot = root0
    /\ rollback_count = 0
    /\ lock = FALSE
    /\ pc = [t \in Threads |-> "idle"]
    /\ level = [t \in Threads |-> "Processed"]
    /\ arg = [t \in Threads |-> 0]
    /\ raced = {}
    /\ due = root0 /\ overtaken = FALSE

\* A call that has stored level l's atomic and waits for the lock.
Pending(t, l) == pc[t] = "locking" /\ level[t] = l

\* A rollback that has yet to look at, or to cut, the finalized slot.
Cutting(t) == pc[t] \in {"load", "store"}

----------------------------------------------------------------------------
(* update_processed(), update_confirmed(), update_finalized() *)

StoreAtomic(t, l, s) ==
    /\ pc[t] = "idle"
    /\ atom' = [atom EXCEPT ![l] = s]
    /\ level' = [level EXCEPT ![t] = l]
    /\ arg' = [arg EXCEPT ![t] = s]
    /\ pc' = [pc EXCEPT ![t] = "locking"]
    /\ raced' = IF \E u \in Threads : Pending(u, l) \/ (l = "Finalized" /\ Cutting(u))
                THEN raced \cup {l} ELSE raced
    /\ due' = IF l = "Finalized" /\ s > due THEN s ELSE due
    /\ UNCHANGED <<atom_root, slot, root_slot, rollback_count, lock, overtaken>>

UpdateLocked(t) ==
    /\ pc[t] = "locking" /\ level[t] # "Finalized"
    /\ ~lock
    /\ slot' = [slot EXCEPT ![level[t]] = arg[t]]
    /\ pc' = [pc EXCEPT ![t] = "idle"]
    /\ UNCHANGED <<atom, atom_root, root_slot, rollback_count, lock, level, arg, raced,
                   rootHistory>>

\* Plausible bug: a finalized slot ahead of the root does not move it.
MFinalizeLocked(t) ==
    /\ pc[t] = "locking" /\ level[t] = "Finalized"
    /\ ~lock
    /\ slot' = [slot EXCEPT !["Finalized"] = arg[t]]
    /\ pc' = [pc EXCEPT ![t] = "idle"]
    /\ UNCHANGED <<atom, atom_root, root_slot, rollback_count, lock, level, arg, raced,
                   rootHistory>>

\* The lock stays held until the root's atomic is stored, if the root moves.
FinalizeLocked(t) ==
    /\ pc[t] = "locking" /\ level[t] = "Finalized"
    /\ ~lock
    /\ slot' = [slot EXCEPT !["Finalized"] = arg[t]]
    /\ IF arg[t] > root_slot
       THEN /\ root_slot' = arg[t]
            /\ lock' = TRUE
            /\ pc' = [pc EXCEPT ![t] = "root"]
       ELSE /\ pc' = [pc EXCEPT ![t] = "idle"]
            /\ UNCHANGED <<root_slot, lock>>
    /\ UNCHANGED <<atom, atom_root, rollback_count, level, arg, raced,
                   rootHistory>>

StoreRoot(t) ==
    /\ pc[t] = "root"
    /\ atom_root' = arg[t]
    /\ lock' = FALSE
    /\ pc' = [pc EXCEPT ![t] = "idle"]
    /\ UNCHANGED <<atom, slot, root_slot, rollback_count, level, arg, raced,
                   rootHistory>>

----------------------------------------------------------------------------
(* handle_rollback(new_root), under the lock throughout *)

\* The two roots are stored next to each other, with nothing of the lock's in
\* between; get_root() is the only reader that could tell.
RollbackRoot(t, s) ==
    /\ pc[t] = "idle" /\ rollback_count < MaxRollbacks
    /\ ~lock
    /\ lock' = TRUE
    /\ rollback_count' = rollback_count + 1
    /\ root_slot' = s /\ atom_root' = s
    /\ arg' = [arg EXCEPT ![t] = s]
    /\ pc' = [pc EXCEPT ![t] = "load"]
    /\ raced' = IF \E u \in Threads : Pending(u, "Finalized")
                THEN raced \cup {"Finalized"} ELSE raced
    /\ due' = s /\ overtaken' = \E u \in Threads : Pending(u, "Finalized")
    /\ UNCHANGED <<atom, slot, level>>

LoadFinalized(t) ==
    /\ pc[t] = "load"
    /\ IF atom["Finalized"] > arg[t]
       THEN pc' = [pc EXCEPT ![t] = "store"] /\ UNCHANGED lock
       ELSE pc' = [pc EXCEPT ![t] = "idle"] /\ lock' = FALSE
    /\ UNCHANGED <<atom, atom_root, slot, root_slot, rollback_count, level, arg, raced,
                   rootHistory>>

\* Plausible bug: only the atomic is cut back.
MStoreFinalized(t) ==
    /\ pc[t] = "store"
    /\ atom' = [atom EXCEPT !["Finalized"] = arg[t]]
    /\ lock' = FALSE
    /\ pc' = [pc EXCEPT ![t] = "idle"]
    /\ UNCHANGED <<atom_root, slot, root_slot, rollback_count, level, arg, raced,
                   rootHistory>>

StoreFinalized(t) ==
    /\ pc[t] = "store"
    /\ atom' = [atom EXCEPT !["Finalized"] = arg[t]]
    /\ slot' = [slot EXCEPT !["Finalized"] = arg[t]]
    /\ lock' = FALSE
    /\ pc' = [pc EXCEPT ![t] = "idle"]
    /\ UNCHANGED <<atom_root, root_slot, rollback_count, level, arg, raced,
                   rootHistory>>

----------------------------------------------------------------------------
ThreadStep(t) ==
    \/ \E l \in Levels, s \in Slots : StoreAtomic(t, l, s)
    \/ UpdateLocked(t)
    \/ FinalizeLocked(t)
    \/ StoreRoot(t)
    \/ \E s \in Slots : RollbackRoot(t, s)
    \/ LoadFinalized(t)
    \/ StoreFinalized(t)

Next == \E t \in Threads : ThreadStep(t)

Spec == Init /\ [][Next]_vars

\* A call that has begun goes on.  parking_lot hands a contended lock over, so a
\* thread that can get the lock again and again does get it.
GoOn(t) ==
    \/ UpdateLocked(t) \/ FinalizeLocked(t) \/ StoreRoot(t)
    \/ LoadFinalized(t) \/ StoreFinalized(t)

----------------------------------------------------------------------------
(* Properties *)

AtRest == \A t \in Threads : pc[t] = "idle"

\* get_root() and stats() agree on the root whenever nobody holds the lock, with
\* updates and rollbacks from any number of threads.
RootMirrored == ~lock => atom_root = root_slot

\* Once every call has returned, the root is what the last rollback set, raised by
\* the update_finalized() calls that began after it got the lock and by no others, and
\* the finalized slot get_slot() reports is not beyond it ("Ensure finalized doesn't
\* exceed new root" in handle_rollback).  An update_finalized() that was waiting for
\* the lock as the rollback got it does undo the rollback: it then finds its slot
\* above the new root and raises the root again.
RollbackStands ==
    AtRest => /\ atom["Finalized"] <= atom_root
              /\ due <= atom_root
              /\ ~overtaken => atom_root = due

\* Once every call has returned, get_slot() and stats() report the same slot for every
\* level that no two overlapping calls have stored (updates of one level, or a rollback
\* and an update of the finalized slot).
ViewsAgree == AtRest => \A l \in Levels \ raced : atom[l] = slot[l]

\* The inductive invariant behind RootMirrored and RollbackStands: the lock has
\* one holder, which is about to store the root it set or to cut the finalized slot
\* back; and a finalized slot beyond the root belongs to an update still waiting for
\* the lock or to a rollback that has yet to look at it.
Holder(t) == pc[t] \in {"root", "load", "store"}

LockInv ==
    /\ lock <=> \E t \in Threads : Holder(t)
    /\ \A s, t \in Threads : Holder(s) /\ Holder(t) => s = t
    /\ \A t \in Threads : Holder(t) => root_slot = arg[t]
    /\ \A t \in Threads : Cutting(t) => atom_root = root_slot

SlotInv ==
    /\ LockInv
    /\ RootMirrored
    /\ \/ atom["Finalized"] <= root_slot
       \/ \E t \in Threads : Pending(t, "Finalized") /\ arg[t] >= atom["Finalized"]
       \/ \E t \in Threads : Cutting(t)

\* And of the root itself: what is due of it is done by a call still waiting.
DueInv ==
    /\ \/ due <= root_slot
       \/ \E t \in Threads : Pending(t, "Finalized") /\ due <= arg[t]
    /\ ~overtaken =>
         /\ root_slot <= due
         /\ \A t \in Threads : Pending(t, "Finalized") => arg[t] <= due

\* The inductive invariant behind ViewsAgree: of a level that never raced, at most one
\* call is between its two stores, and it is the one that stored the atomic last.
ViewsInv ==
    \A l \in Levels \ raced :
        /\ \A t, u \in Threads : Pending(t, l) /\ Pending(u, l) => t = u
        /\ \A t \in Threads : Pending(t, l) => atom[l] = arg[t]
        /\ (\A t \in Threads : ~Pending(t, l)) => atom[l] = slot[l]
        /\ l = "Finalized" =>
              \A t, u \in Threads : ~(Pending(t, l) /\ Cutting(u))

=============================================================================
