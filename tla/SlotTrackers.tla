---------------------------- MODULE SlotTrackers ----------------------------
(***************************************************************************)
(* The smaller keepers of slots: WatermarkTracker and RootTracker (slot-   *)
(* reconciler/src/watermarks.rs and roots.rs) and AtomicSlotTracker with   *)
(* SlotContext (hyperplane-types/src/slot.rs).  They are atomics without   *)
(* locks; one action is one access.  RollbackHandler and CommitmentTracker *)
(* keep a count and what they were last given, and are left out.           *)
(***************************************************************************)
EXTENDS Integers, Sequences, FiniteSets, Jobs

CONSTANTS TrackedSlots,    \* slots given to the trackers
          Finality         \* slots to finalization (31); confirmation takes 1

ASSUME TrackersAssumption == TrackedSlots \subseteq Nat /\ Finality \in Nat \ {0}

VARIABLES watermark,        \* WatermarkTracker
          root,             \* RootTracker
          tracker,          \* AtomicSlotTracker: processed, confirmed, finalized
          context,          \* the SlotContext that is written to the tracker
          returned,         \* history: values of the watermark updates that returned
          advanced,         \* history: what the root is, had no advance been lost
          rootRaced,        \* history: an advance overlapped another change of the root
          contexts,         \* history: contexts written
          wentBack,         \* history: a processed slot was below the one before
          read              \* contexts read whole, and whether a write overlapped

trackersState == <<watermark, root, tracker, context, returned, advanced, rootRaced,
                   contexts, wentBack, read>>
trackersVars == <<trackersState, job, jobs>>

NewContext == <<0, 0, 0>>

TrackersInit ==
    /\ watermark = 0 /\ root = 0
    /\ tracker = NewContext /\ context = NewContext
    /\ returned = {} /\ advanced = 0 /\ rootRaced = FALSE
    /\ contexts = {NewContext} /\ wentBack = FALSE /\ read = {}
    /\ JobsInit

TrackersTypeOK ==
    /\ watermark \in Nat /\ root \in Nat
    /\ tracker \in Seq(Nat) /\ Len(tracker) = 3
    /\ context \in contexts

-----------------------------------------------------------------------------
(* WatermarkTracker: update() and advance() *)

UpdateWatermark(t, s) ==
    /\ Begin(t, [op |-> "watermark", pc |-> "load", slot |-> s, current |-> 0])
    /\ UNCHANGED trackersState

LoadWatermark(t) ==
    /\ At(t, "watermark", "load")
    /\ IF job[t].slot <= watermark
         THEN returned' = returned \cup {job[t].slot} /\ Finish(t)
         ELSE /\ job' = [job EXCEPT ![t].current = watermark, ![t].pc = "exchange"]
              /\ UNCHANGED <<returned, jobs>>
    /\ UNCHANGED <<watermark, root, tracker, context, advanced, rootRaced, contexts, wentBack, read>>

\* Mutant of ExchangeWatermark: the value is stored whatever was stored since.
StoreWatermark(t) ==
    /\ At(t, "watermark", "exchange")
    /\ watermark' = job[t].slot
    /\ returned' = returned \cup {job[t].slot}
    /\ Finish(t)
    /\ UNCHANGED <<root, tracker, context, advanced, rootRaced, contexts, wentBack, read>>

ExchangeWatermark(t) ==
    /\ At(t, "watermark", "exchange")
    /\ IF watermark = job[t].current
         THEN /\ watermark' = job[t].slot
              /\ returned' = returned \cup {job[t].slot}
              /\ Finish(t)
         ELSE /\ Goto(t, "load")
              /\ UNCHANGED <<watermark, returned>>
    /\ UNCHANGED <<root, tracker, context, advanced, rootRaced, contexts, wentBack, read>>

AdvanceWatermark(t) ==
    /\ job[t].op = "idle" /\ jobs < MaxJobs /\ jobs' = jobs + 1
    /\ watermark' = watermark + 1
    /\ UNCHANGED <<root, tracker, context, returned, advanced, rootRaced, contexts, wentBack, read, job>>

-----------------------------------------------------------------------------
(* RootTracker: update_root() and advance_root() *)

UpdateRoot(t, s) ==
    /\ job[t].op = "idle" /\ jobs < MaxJobs /\ jobs' = jobs + 1
    /\ root' = s /\ advanced' = s
    /\ rootRaced' = (rootRaced \/ Doing("advance_root") # {})
    /\ UNCHANGED <<watermark, tracker, context, returned, contexts, wentBack, read, job>>

LoadRoot(t, delta) ==
    /\ Begin(t, [op |-> "advance_root", pc |-> "store", slot |-> root + delta])
    /\ advanced' = advanced + delta
    /\ rootRaced' = (rootRaced \/ Doing("advance_root") # {})
    /\ UNCHANGED <<watermark, root, tracker, context, returned, contexts, wentBack, read>>

StoreNewRoot(t) ==
    /\ At(t, "advance_root", "store")
    /\ root' = job[t].slot
    /\ Finish(t)
    /\ UNCHANGED <<watermark, tracker, context, returned, advanced, rootRaced, contexts, wentBack, read>>

-----------------------------------------------------------------------------
(* SlotContext::update(), AtomicSlotTracker::update() and get_context() *)

\* The slots a new processed slot confirms and finalizes, if there are any.
Updated(c, s) == <<s, IF s > 1 THEN s - 1 ELSE c[2],
                   IF s > Finality THEN s - Finality ELSE c[3]>>

Overlapping(op) == [u \in Workers |-> IF job[u].op = op THEN [job[u] EXCEPT !.torn = TRUE]
                                      ELSE job[u]]

\* One task has the SlotContext and writes it; the others read the tracker.
UpdateTracker(t, s) ==
    /\ job[t].op = "idle" /\ jobs < MaxJobs /\ jobs' = jobs + 1
    /\ Doing("write_context") = {}
    /\ context' = Updated(context, s)
    /\ contexts' = contexts \cup {context'}
    /\ wentBack' = (wentBack \/ s < context[1])
    /\ job' = [Overlapping("read_context") EXCEPT ![t] = [op |-> "write_context", pc |-> 1]]
    /\ UNCHANGED <<watermark, root, tracker, returned, advanced, rootRaced, read>>

StoreSlot(t) ==
    /\ job[t].op = "write_context"
    /\ LET i == job[t].pc IN
       /\ tracker' = [tracker EXCEPT ![i] = context[i]]
       /\ IF i = 3 THEN Finish(t) ELSE Goto(t, i + 1)
    /\ UNCHANGED <<watermark, root, context, returned, advanced, rootRaced, contexts, wentBack, read>>

GetContext(t) ==
    /\ Begin(t, [op |-> "read_context", pc |-> 1, got |-> <<>>,
                 torn |-> Doing("write_context") # {}])
    /\ UNCHANGED trackersState

LoadSlot(t) ==
    /\ job[t].op = "read_context"
    /\ LET i == job[t].pc
           got == Append(job[t].got, tracker[i])
       IN  IF i = 3
             THEN read' = read \cup {<<got, job[t].torn>>} /\ Finish(t)
             ELSE /\ job' = [job EXCEPT ![t].got = got, ![t].pc = i + 1]
                  /\ UNCHANGED <<read, jobs>>
    /\ UNCHANGED <<watermark, root, tracker, context, returned, advanced, rootRaced, contexts, wentBack>>

-----------------------------------------------------------------------------
(* CommitmentLevel; get_watermark() of a SlotContext and of the tracker, which *)
(* loads the one slot, and SlotContext::is_visible()                           *)

Commitments == <<"Processed", "Confirmed", "Finalized">>
satisfies(l, m) == l >= m
min_confirmations(l) == <<0, 1, Finality>>[l]

get_watermark(c, l) == c[l]
tracker_watermark(l) == tracker[l]
is_visible(c, s, l) == s <= get_watermark(c, l)

TrackersNext ==
    \E t \in Workers :
        \/ \E s \in TrackedSlots : UpdateWatermark(t, s) \/ UpdateRoot(t, s)
                                     \/ LoadRoot(t, s) \/ UpdateTracker(t, s)
        \/ LoadWatermark(t) \/ ExchangeWatermark(t) \/ AdvanceWatermark(t)
        \/ StoreNewRoot(t)
        \/ StoreSlot(t) \/ GetContext(t) \/ LoadSlot(t)

TrackersSpec == TrackersInit /\ [][TrackersNext]_trackersVars

-----------------------------------------------------------------------------
\* The watermark is at every slot an update() has returned for, whoever updates
\* and advances it; an advance of the root is lost only to a change it overlaps;
\* and get_context() returns slots of different contexts only if a write overlaps.
\* While no processed slot goes back, the tracker is never ahead of the context,
\* and in a context read without overlap, what is visible at a commitment is visible
\* at those it satisfies and has the confirmations it asks for.
TrackersHold ==
    /\ \A s \in returned : watermark >= s
    /\ ~rootRaced /\ Doing("advance_root") = {} => root = advanced
    /\ \A r \in read : r[1] \in contexts \/ r[2]
    /\ ~wentBack => \A l \in DOMAIN Commitments :
          /\ tracker_watermark(l) <= get_watermark(context, l)
          /\ \A r \in read, s \in TrackedSlots \ {0} : ~r[2] /\ is_visible(r[1], s, l) =>
                /\ s + min_confirmations(l) <= get_watermark(r[1], 1)
                /\ \A m \in DOMAIN Commitments : satisfies(l, m) => is_visible(r[1], s, m)
=============================================================================
