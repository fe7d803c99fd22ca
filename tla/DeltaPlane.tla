----------------------------- MODULE DeltaPlane -----------------------------
(***************************************************************************)
(* The delta plane: the consumer that moves updates from the Geyser ring   *)
(* into segment files (delta_consumer.rs, segment_writer.rs), the reducer  *)
(* that keeps the latest update per account (update_reducer.rs), the       *)
(* locator that knows the finished segments (delta_locator.rs) and the     *)
(* compactor that retires them (compactor.rs).  The consumer loop, the     *)
(* thread that calls stop(), and the compactor interleave.                 *)
(*                                                                         *)
(* Every batch opens the ring again and so starts from its first entry     *)
(* (module RingBuffer shows that a consumer gets the entries in order).    *)
(***************************************************************************)
EXTENDS Integers, Sequences

CONSTANTS
    Keys,              \* account pubkeys
    Updates,           \* Geyser updates: records [key, slot, write_version]
    flush_batch_size,
    MaxRing,           \* bound: entries the ring holds
    MaxErrors,         \* bound: failing batches
    MaxCompactions,    \* bound: runs of the compactor
    MaxTotal           \* bound: total_processed saturates here

ASSUME DeltaAssumption ==
    /\ Updates \subseteq [key : Keys, slot : Nat \ {0}, write_version : Nat \ {0}]
    /\ flush_batch_size \in Nat \ {0}
    /\ MaxRing \in Nat /\ MaxErrors \in Nat /\ MaxCompactions \in Nat
    /\ MaxTotal \in Nat

VARIABLES
    ring,             \* what the Geyser plugin has published
    running,          \* state.running
    pc, pos,          \* the consumer in process_updates(), its place in the ring
    pending,          \* pending_updates: write_version per pubkey, 0 for none
    current_segment,  \* start slot of the open segment, 0 for none
    entries,          \* current_segment_entries
    total_processed, total_errors,
    files,            \* segment_{slot}.bin: header and entries, by slot
    segments_by_slot, \* the locator: entry_count and end_slot, count 0 for none
    cpc, snapshot,    \* the compactor and the segments it collected
    compaction_count,
    added,            \* history: updates added to the reducer since its last flush
    broken,           \* history: segment files whose creation or finalize() failed
    torn,             \* history: segment files with a failed append()
    disturbed         \* history: a batch failed or was overtaken by stop()

consumer  == <<running, pc, pos, current_segment, entries>>
totals    == <<total_processed, total_errors>>
disk      == <<files, segments_by_slot>>
compactor == <<cpc, snapshot, compaction_count>>
reducer   == <<pending, added>>
history   == <<broken, torn, disturbed>>
vars == <<ring, running, pc, pos, pending, current_segment, entries, total_processed,
          total_errors, files, segments_by_slot, cpc, snapshot, compaction_count,
          added, broken, torn, disturbed>>

Slots == {u.slot : u \in Updates}

Segments == {s \in Slots : segments_by_slot[s].entry_count > 0}

\* A segment file: the count its header says on disk, the counts its writer keeps in
\* memory, and behind the header the entries, or what a failed append() left of one.
\* NoFile has the header of SegmentHeader::new() and no entry; NoMeta is no segment.
File == [count : Nat, appended : Nat, end_slot : Nat, body : Seq(Updates)]

NoFile == [count |-> 0, appended |-> 0, end_slot |-> 0, body |-> <<>>]
NoMeta == [entry_count |-> 0, end_slot |-> 0]

TypeOK ==
    /\ ring \in Seq(Updates)
    /\ running \in BOOLEAN /\ disturbed \in BOOLEAN
    /\ pc \in {"idle", "read", "write", "flush"}
    /\ pos \in Nat
    /\ pc = "write" => pos + 1 \in 1 .. Len(ring)
    /\ pending \in [Keys -> Nat]
    /\ current_segment \in Slots \cup {0}
    /\ entries \in Nat
    /\ total_processed \in Nat /\ total_errors \in Nat
    /\ files \in [Slots -> File]
    /\ segments_by_slot \in [Slots -> [entry_count : Nat, end_slot : Nat]]
    /\ cpc \in {"idle", "remove"}
    /\ snapshot \in SUBSET Slots
    /\ compaction_count \in Nat
    /\ added \in SUBSET Updates /\ broken \in SUBSET Slots /\ torn \in SUBSET Slots

\* The parts as their new() makes them.
ConsumerInit ==
    /\ running = FALSE
    /\ pc = "idle" /\ pos = 0
    /\ current_segment = 0 /\ entries = 0
    /\ total_processed = 0 /\ total_errors = 0

ReducerInit == pending = [k \in Keys |-> 0] /\ added = {}

LocatorInit == segments_by_slot = [s \in Slots |-> NoMeta]

CompactorInit == cpc = "idle" /\ snapshot = {} /\ compaction_count = 0

Init ==
    /\ ring = <<>>
    /\ files = [s \in Slots |-> NoFile]
    /\ ConsumerInit /\ ReducerInit /\ LocatorInit /\ CompactorInit
    /\ broken = {} /\ torn = {} /\ disturbed = FALSE

----------------------------------------------------------------------------
(* The Geyser plugin appends to the ring. *)
Geyser(u) ==
    /\ Len(ring) < MaxRing
    /\ ring' = Append(ring, u)
    /\ UNCHANGED <<consumer, totals, disk, compactor, reducer, history>>

(* start() and stop(), from any thread. *)
Start ==
    /\ ~running
    /\ running' = TRUE
    /\ UNCHANGED <<ring, pc, pos, current_segment, entries, totals, disk, compactor,
                   reducer, history>>

Max2(a, b) == IF a > b THEN a ELSE b

\* finalize(): the header is written with the final counts.
Finalized(s) ==
    [files EXCEPT ![s].count = files[s].appended]

\* Plausible bug: stop() drops the writer without finalizing the segment.
MStop ==
    /\ running' = FALSE
    /\ current_segment' = 0
    /\ disturbed' = (disturbed \/ pc # "idle")
    /\ UNCHANGED <<ring, pc, pos, entries, totals, disk, compactor, reducer, broken, torn>>

\* The open segment is finalized and forgotten; it is not registered, and
\* current_segment_entries keeps its value.  An error of finalize() is logged.
Stop ==
    /\ running' = FALSE
    /\ current_segment' = 0
    /\ \/ current_segment = 0 /\ UNCHANGED <<files, broken>>
       \/ current_segment # 0 /\ files' = Finalized(current_segment) /\ UNCHANGED broken
       \/ /\ current_segment # 0 /\ total_errors < MaxErrors
          /\ broken' = broken \cup {current_segment} /\ UNCHANGED files
    /\ disturbed' = (disturbed \/ pc # "idle")
    /\ UNCHANGED <<ring, pc, pos, entries, totals, segments_by_slot, compactor, reducer,
                   torn>>

----------------------------------------------------------------------------
(* process_updates(), called by run() for as long as running is set. *)

OpenRing ==
    /\ pc = "idle" /\ running
    /\ pc' = "read" /\ pos' = 0
    /\ UNCHANGED <<ring, running, current_segment, entries, totals, disk, compactor,
                   reducer, history>>

\* Plausible bug: the last entry of the ring is never read.
MAddAllButLast ==
    /\ pc = "read" /\ pos + 1 < Len(ring)
    /\ LET u == ring[pos + 1]
       IN  /\ pending' = [pending EXCEPT ![u.key] = Max2(u.write_version, @)]
           /\ added' = added \cup {u}
    /\ pc' = "write"
    /\ UNCHANGED <<ring, running, pos, current_segment, entries, totals, disk,
                   compactor, history>>

\* read_next() and add_update(): the highest write_version stays.
AddUpdate ==
    /\ pc = "read" /\ pos < Len(ring)
    /\ LET u == ring[pos + 1]
       IN  /\ pending' = [pending EXCEPT ![u.key] = Max2(u.write_version, @)]
           /\ added' = added \cup {u}
    /\ pc' = "write"
    /\ UNCHANGED <<ring, running, pos, current_segment, entries, totals, disk,
                   compactor, history>>

Appended(f, u) ==
    [f EXCEPT !.body = Append(@, u), !.appended = @ + 1, !.end_slot = Max2(@, u.slot)]

\* write_to_segment() creates a segment when none is open, named after the slot of the
\* entry at hand, which truncates the file of that name: the segment, its file and the
\* entries counted in it at that point.
SegmentFor(u) == IF current_segment = 0 THEN u.slot ELSE current_segment

FileFor == IF current_segment = 0 THEN NoFile ELSE files[current_segment]

EntriesFor == IF current_segment = 0 THEN 0 ELSE entries

TruncatedBy(s) == IF current_segment = 0 THEN {s} ELSE {}

\* Plausible bug: the entry that opens a segment is not appended to it.
MWriteToSegment ==
    /\ pc = "write"
    /\ LET u == ring[pos + 1]
           s == SegmentFor(u)
       IN  /\ current_segment' = s
           /\ entries' = EntriesFor + 1
           /\ files' = [files EXCEPT ![s] = IF current_segment = 0 THEN NoFile
                                            ELSE Appended(@, u)]
           /\ broken' = broken \ TruncatedBy(s)
           /\ torn' = torn \ TruncatedBy(s)
    /\ pos' = pos + 1
    /\ pc' = "read"
    /\ UNCHANGED <<ring, running, totals, segments_by_slot, compactor, reducer, disturbed>>

\* write_to_segment(): create() if needed, then append().
WriteToSegment ==
    /\ pc = "write"
    /\ LET u == ring[pos + 1]
           s == SegmentFor(u)
       IN  /\ current_segment' = s
           /\ entries' = EntriesFor + 1
           /\ files' = [files EXCEPT ![s] = Appended(FileFor, u)]
           /\ broken' = broken \ TruncatedBy(s)
           /\ torn' = torn \ TruncatedBy(s)
    /\ pos' = pos + 1
    /\ pc' = "read"
    /\ UNCHANGED <<ring, running, totals, segments_by_slot, compactor, reducer, disturbed>>

\* An error ends the batch without its statistics and without a flush.
EndBatch ==
    /\ total_errors < MaxErrors
    /\ total_errors' = total_errors + 1
    /\ pc' = "idle"
    /\ disturbed' = TRUE
    /\ UNCHANGED <<ring, running, pos, total_processed, segments_by_slot, compactor, reducer>>

\* read_next() returns an error.
BatchFails ==
    /\ pc = "read"
    /\ EndBatch
    /\ UNCHANGED <<current_segment, entries, files, broken, torn>>

\* SegmentWriter::create() fails: at open(), or with the file truncated and without
\* the header.  No segment is open.
CreateFails ==
    /\ pc = "write" /\ current_segment = 0
    /\ EndBatch
    /\ LET s == ring[pos + 1].slot
       IN  \/ UNCHANGED <<files, broken, torn>>
           \/ /\ files' = [files EXCEPT ![s] = NoFile]
              /\ broken' = broken \cup {s}
              /\ torn' = torn \ {s}
    /\ UNCHANGED <<current_segment, entries>>

\* append() fails after a part of the entry, or all of it, went to the file: nothing
\* is counted, the segment stays open, and the next entry goes behind what is there.
AppendFails ==
    /\ pc = "write"
    /\ EndBatch
    /\ LET u == ring[pos + 1]
           s == SegmentFor(u)
       IN  /\ current_segment' = s
           /\ entries' = EntriesFor
           /\ files' = [files EXCEPT ![s] = [FileFor EXCEPT !.body = Append(@, u)]]
           /\ broken' = broken \ TruncatedBy(s)
           /\ torn' = torn \cup {s}

\* read_next() returns None.
EndOfRing ==
    /\ pc = "read" /\ pos = Len(ring)
    /\ total_processed' = IF total_processed + pos > MaxTotal
                          THEN MaxTotal ELSE total_processed + pos
    /\ pc' = "flush"
    /\ UNCHANGED <<ring, running, pos, current_segment, entries, total_errors, disk,
                   compactor, reducer, history>>

\* finalize() fails in maybe_flush_segment(): the writer is dropped with its file
\* unfinished, and current_segment_entries keeps its value.
FlushFails ==
    /\ pc = "flush" /\ total_errors < MaxErrors
    /\ entries >= flush_batch_size /\ current_segment # 0
    /\ current_segment' = 0
    /\ total_errors' = total_errors + 1
    /\ broken' = broken \cup {current_segment}
    /\ pc' = "idle"
    /\ UNCHANGED <<ring, running, pos, entries, total_processed, disk, compactor,
                   reducer, torn, disturbed>>

\* maybe_flush_segment(): finalize and register.
MaybeFlush ==
    /\ pc = "flush"
    /\ IF entries >= flush_batch_size /\ current_segment # 0
       THEN /\ files' = Finalized(current_segment)
            /\ segments_by_slot' = [segments_by_slot EXCEPT ![current_segment] =
                   [entry_count |-> files[current_segment].appended,
                    end_slot |-> files[current_segment].end_slot]]
            /\ current_segment' = 0 /\ entries' = 0
       ELSE UNCHANGED <<disk, current_segment, entries>>
    /\ pc' = "idle"
    /\ UNCHANGED <<ring, running, pos, totals, compactor, reducer, history>>

ProcessUpdates ==
    OpenRing \/ AddUpdate \/ WriteToSegment \/ EndOfRing \/ MaybeFlush

\* flush() of the reducer, whenever its owner calls it.
FlushReducer ==
    /\ pending' = [k \in Keys |-> 0]
    /\ added' = {}
    /\ UNCHANGED <<ring, consumer, totals, disk, compactor, history>>

\* SegmentReader::open() and info(): what the header of a file says, which append()
\* counts in memory and only finalize() writes.
SegmentReader(s) ==
    [start_slot |-> s, entry_count |-> files[s].count,
     end_slot |-> IF files[s].count = 0 THEN 0 ELSE files[s].end_slot]

----------------------------------------------------------------------------
(* compact() holds the compactor's lock throughout, the locator's only while it *)
(* collects the segments and while it removes them.  It merges nothing: the map *)
(* of latest deltas it walks is always empty.                                   *)

\* get_all_segments() and the first half of the statistics.
CollectSegments ==
    /\ cpc = "idle" /\ compaction_count < 2 * MaxCompactions
    /\ Segments # {}
    /\ snapshot' = Segments
    /\ compaction_count' = compaction_count + 1
    /\ cpc' = "remove"
    /\ UNCHANGED <<ring, consumer, totals, disk, reducer, history>>

\* remove_segments(), by start slot; the run is counted a second time.
RemoveSegments ==
    /\ cpc = "remove"
    /\ segments_by_slot' = [s \in Slots |-> IF s \in snapshot THEN NoMeta
                                            ELSE segments_by_slot[s]]
    /\ compaction_count' = compaction_count + 1
    /\ cpc' = "idle"
    /\ UNCHANGED <<ring, consumer, totals, files, snapshot, reducer, history>>

----------------------------------------------------------------------------
Next ==
    \/ \E u \in Updates : Geyser(u)
    \/ Start
    \/ Stop
    \/ ProcessUpdates
    \/ BatchFails \/ CreateFails \/ AppendFails
    \/ FlushFails
    \/ FlushReducer
    \/ CollectSegments
    \/ RemoveSegments

Spec == Init /\ [][Next]_vars

\* run() calls process_updates() for as long as running is set.
FairSpec == Spec /\ WF_vars(ProcessUpdates)

----------------------------------------------------------------------------
(* Properties *)

OnDisk(u) ==
    \E s \in Slots : \E i \in 1 .. Len(files[s].body) : files[s].body[i] = u

\* What a batch has read is on disk, although the batch may have truncated the file
\* it replays, unless a batch failed or stop() overtook one (write_to_segment and
\* maybe_flush_segment against stop).  And the reducer holds, for each account, the
\* highest write_version it was given since its last flush, in whatever order and
\* however often the updates came.
BatchKept ==
    /\ disturbed \/ \A i \in 1 .. pos : OnDisk(ring[i])
    /\ \A u \in added : pending[u.key] >= u.write_version
    /\ \A k \in Keys : pending[k] # 0 =>
          \E u \in added : u.key = k /\ u.write_version = pending[k]

\* A segment file nobody writes any more, whose last create() and finalize() did not
\* fail, has a header that counts its entries and an end_slot no entry of it is
\* beyond, whichever of stop() and maybe_flush_segment() closed it; the header falls
\* short of what is in the file exactly where an append() failed, whose remains lie
\* between the entries (append(), finalize()).  The file itself is not immutable, as
\* the module's doc says: a segment of the same slot is created over it.
ClosedSegmentsFinal ==
    \A s \in Slots \ broken : s # current_segment =>
        LET info == SegmentReader(s)
            body == files[s].body
        IN  /\ info.entry_count <= Len(body)
            /\ info.entry_count = Len(body) <=> s \notin torn
            /\ s \notin torn => \A i \in DOMAIN body : body[i].slot <= info.end_slot

\* Whatever the ring holds is eventually read by a consumer that keeps running.
EventuallyRead ==
    \A i \in 1 .. MaxRing : (Len(ring) >= i /\ running) ~> (pos >= i \/ ~running)

=============================================================================
