-------------------------- MODULE DeltaPlaneProofs --------------------------
(* DeltaPlane for any accounts, updates and flush size, a ring of any length, *)
(* and any number of failing batches and compactions: what a batch has read is *)
(* on disk, and a segment that nobody writes any more is final.                *)
EXTENDS DeltaPlane, TLAPS

\* A slot is never the 0 that stands for "no segment is open".
LEMMA SlotsPositive == Slots \subseteq Nat \ {0}
  BY DeltaAssumption DEF Slots

\* The entry an update becomes keeps the type of a segment file.
LEMMA AppendedType ==
  ASSUME NEW f \in File, NEW u \in Updates
  PROVE  /\ Appended(f, u) \in File
         /\ Appended(f, u).count = f.count
         /\ Appended(f, u).appended = f.appended + 1
         /\ Appended(f, u).body = Append(f.body, u)
         /\ Appended(f, u).end_slot \in Nat
         /\ Appended(f, u).end_slot >= f.end_slot
         /\ Appended(f, u).end_slot >= u.slot
<1>1. u.slot \in Nat /\ f.end_slot \in Nat /\ f.appended \in Nat
  BY DeltaAssumption DEF File
<1>2. Max2(f.end_slot, u.slot) \in Nat
  BY <1>1 DEF Max2
<1>3. Max2(f.end_slot, u.slot) >= f.end_slot /\ Max2(f.end_slot, u.slot) >= u.slot
  BY <1>1 DEF Max2
<1>4. Append(f.body, u) \in Seq(Updates)
  BY DEF File
<1>5. /\ Appended(f, u).body = Append(f.body, u)
      /\ Appended(f, u).end_slot = Max2(f.end_slot, u.slot)
      /\ Appended(f, u).count = f.count
      /\ Appended(f, u).appended = f.appended + 1
  BY DEF Appended, File
<1>6. Appended(f, u) \in File
  <2> DEFINE n == f.appended + 1
             e == Max2(f.end_slot, u.slot)
             b == Append(f.body, u)
  <2>1. n \in Nat /\ e \in Nat /\ b \in Seq(Updates)
    BY <1>1, <1>2, <1>4
  <2>2. Appended(f, u) = [f EXCEPT !.body = b, !.appended = n, !.end_slot = e]
    BY DEF Appended
  <2> HIDE DEF n, e, b
  <2>3. QED
    BY <2>1, <2>2 DEF File
<1>7. QED
  BY <1>1, <1>2, <1>3, <1>5, <1>6

\* So do the remains of an entry whose append() failed, and nothing is counted.
LEMMA TornType ==
  ASSUME NEW f \in File, NEW u \in Updates
  PROVE  /\ [f EXCEPT !.body = Append(@, u)] \in File
         /\ [f EXCEPT !.body = Append(@, u)].count = f.count
         /\ [f EXCEPT !.body = Append(@, u)].appended = f.appended
         /\ [f EXCEPT !.body = Append(@, u)].end_slot = f.end_slot
         /\ [f EXCEPT !.body = Append(@, u)].body = Append(f.body, u)
  BY DEF File

\* The segment an entry goes to, and its file before that.
LEMMA ForType ==
  ASSUME TypeOK, NEW u \in Updates
  PROVE  /\ SegmentFor(u) \in Slots /\ FileFor \in File /\ EntriesFor \in Nat
         /\ SegmentFor(u) # 0
<1>1. u.slot \in Slots /\ NoFile \in File
  BY DEF Slots, NoFile, File
<1>2. QED
  BY <1>1, SlotsPositive DEF TypeOK, SegmentFor, FileFor, EntriesFor

\* finalize() writes the header of one file and leaves every entry alone.
LEMMA FinalizedType ==
  ASSUME files \in [Slots -> File],
         NEW s \in Slots
  PROVE  /\ Finalized(s) \in [Slots -> File]
         /\ Finalized(s)[s].count = files[s].appended
         /\ \A x \in Slots : /\ Finalized(s)[x].body = files[x].body
                             /\ Finalized(s)[x].end_slot = files[x].end_slot
                             /\ Finalized(s)[x].appended = files[x].appended
                             /\ x # s => Finalized(s)[x] = files[x]
<1>1. files[s].appended \in Nat
  BY DEF File
<1>2. QED
  BY <1>1 DEF Finalized, File

\* Every variable keeps its type.
THEOREM DeltaTypeCorrect == Spec => []TypeOK
<1>1. Init => TypeOK
  <2> SUFFICES ASSUME Init PROVE TypeOK
    OBVIOUS
  <2>1. NoFile \in File
    BY DEF NoFile, File
  <2>2. NoMeta \in [entry_count : Nat, end_slot : Nat]
    BY DEF NoMeta
  <2>3. files \in [Slots -> File]
    BY <2>1 DEF Init
  <2>4. segments_by_slot \in [Slots -> [entry_count : Nat, end_slot : Nat]]
    BY <2>2 DEF Init, LocatorInit
  <2>5. ring \in Seq(Updates)
    BY DEF Init
  <2>6. pending \in [Keys -> Nat] /\ added \in SUBSET Updates
    BY DEF Init, ReducerInit
  <2>7. QED
    BY <2>3, <2>4, <2>5, <2>6 DEF Init, ConsumerInit, CompactorInit, TypeOK
<1>2. TypeOK /\ [Next]_vars => TypeOK'
  <2> SUFFICES ASSUME TypeOK, [Next]_vars PROVE TypeOK'
    OBVIOUS
  <2> USE DEF TypeOK, consumer, totals, disk, compactor, reducer, history
  <2>1. ASSUME NEW u \in Updates, Geyser(u)
        PROVE  TypeOK'
    BY <2>1 DEF Geyser
  <2>2. CASE Start
    BY <2>2 DEF Start
  <2>3. CASE Stop
    <3>1. current_segment # 0 => Finalized(current_segment)
             \in [Slots -> File]
      BY FinalizedType
    <3>2. files' \in [Slots -> File]
      BY <2>3, <3>1 DEF Stop
    <3>3. broken' \in SUBSET Slots
      BY <2>3 DEF Stop
    <3>4. QED
      BY <2>3, <3>2, <3>3 DEF Stop
  <2>4. CASE OpenRing
    BY <2>4 DEF OpenRing
  <2>5. CASE AddUpdate
    <3>1. ring[pos + 1] \in Updates /\ pos + 1 \in 1 .. Len(ring)
      BY <2>5 DEF AddUpdate
    <3>2. ring[pos + 1].key \in Keys /\ ring[pos + 1].write_version \in Nat
      BY <3>1, DeltaAssumption
    <3>3. pending' \in [Keys -> Nat]
      BY <2>5, <3>2 DEF AddUpdate, Max2
    <3>4. QED
      BY <2>5, <3>1, <3>3 DEF AddUpdate
  <2>6. CASE WriteToSegment
    <3> DEFINE u == ring[pos + 1]
    <3>1. u \in Updates
      BY <2>6 DEF WriteToSegment
    <3>2. /\ SegmentFor(u) \in Slots /\ EntriesFor \in Nat
          /\ Appended(FileFor, u) \in File
      BY <3>1, ForType, AppendedType
    <3>3. /\ files' = [files EXCEPT ![SegmentFor(u)] = Appended(FileFor, u)]
          /\ current_segment' = SegmentFor(u) /\ entries' = EntriesFor + 1
          /\ broken' \in SUBSET Slots /\ torn' \in SUBSET Slots
      BY <2>6 DEF WriteToSegment
    <3>4. pos' = pos + 1 /\ pc' = "read"
      BY <2>6 DEF WriteToSegment
    <3>5. UNCHANGED <<ring, running, pending, total_processed, total_errors,
                      segments_by_slot, cpc, snapshot, compaction_count, added, disturbed>>
      BY <2>6 DEF WriteToSegment
    <3> HIDE DEF u
    <3>6. files' \in [Slots -> File]
      BY <3>2, <3>3
    <3>7. QED
      BY <3>2, <3>3, <3>4, <3>5, <3>6
  <2>7. CASE EndOfRing
    BY <2>7, DeltaAssumption DEF EndOfRing
  <2>8. CASE MaybeFlush
    <3>1. CASE entries >= flush_batch_size /\ current_segment # 0
      <4>1. files' \in [Slots -> File]
        BY <2>8, <3>1, FinalizedType DEF MaybeFlush
      <4>2. /\ files[current_segment].appended \in Nat
            /\ files[current_segment].end_slot \in Nat
        BY <3>1 DEF File
      <4>3. segments_by_slot' \in [Slots -> [entry_count : Nat, end_slot : Nat]]
        <5> DEFINE meta == [entry_count |-> files[current_segment].appended,
                            end_slot |-> files[current_segment].end_slot]
        <5>1. meta \in [entry_count : Nat, end_slot : Nat]
          BY <4>2
        <5>2. segments_by_slot' = [segments_by_slot EXCEPT ![current_segment] = meta]
          BY <2>8, <3>1 DEF MaybeFlush
        <5> HIDE DEF meta
        <5>3. QED
          BY <5>1, <5>2
      <4>4. QED
        BY <2>8, <3>1, <4>1, <4>3 DEF MaybeFlush
    <3>2. CASE ~(entries >= flush_batch_size /\ current_segment # 0)
      BY <2>8, <3>2 DEF MaybeFlush
    <3>3. QED
      BY <3>1, <3>2
  <2>9. CASE BatchFails
    <3>1. /\ total_errors' \in Nat /\ disturbed' \in BOOLEAN /\ pc' = "idle"
      BY <2>9 DEF BatchFails, EndBatch
    <3>2. UNCHANGED <<ring, running, pos, pending, current_segment, entries,
                      total_processed, files, segments_by_slot, cpc, snapshot,
                      compaction_count, added, broken, torn>>
      BY <2>9, Zenon DEF BatchFails, EndBatch, compactor, reducer
    <3>3. QED
      BY <3>1, <3>2
  <2>15. CASE CreateFails
    <3>1. /\ total_errors' \in Nat /\ disturbed' \in BOOLEAN /\ pc' = "idle"
      BY <2>15 DEF CreateFails, EndBatch
    <3>2. UNCHANGED <<ring, running, pos, pending, current_segment, entries,
                      total_processed, segments_by_slot, cpc, snapshot,
                      compaction_count, added>>
      BY <2>15, Zenon DEF CreateFails, EndBatch, compactor, reducer
    <3>3. ring[pos + 1] \in Updates /\ ring[pos + 1].slot \in Slots
      BY <2>15 DEF CreateFails, Slots
    <3>4. /\ files' \in [Slots -> File]
          /\ broken' \in SUBSET Slots /\ torn' \in SUBSET Slots
      <4>1. NoFile \in File
        BY DEF NoFile, File
      <4>2. QED
        BY <2>15, <3>3, <4>1 DEF CreateFails
    <3>5. QED
      BY <3>1, <3>2, <3>4
  <2>16. CASE AppendFails
    <3> DEFINE u == ring[pos + 1]
    <3>1. u \in Updates
      BY <2>16 DEF AppendFails
    <3>2. /\ SegmentFor(u) \in Slots /\ EntriesFor \in Nat
          /\ [FileFor EXCEPT !.body = Append(@, u)] \in File
      BY <3>1, ForType, TornType
    <3>3. /\ files' = [files EXCEPT ![SegmentFor(u)] = [FileFor EXCEPT !.body = Append(@, u)]]
          /\ current_segment' = SegmentFor(u) /\ entries' = EntriesFor
          /\ broken' \in SUBSET Slots /\ torn' = torn \cup {SegmentFor(u)}
      BY <2>16 DEF AppendFails
    <3>4. /\ total_errors' \in Nat /\ disturbed' \in BOOLEAN /\ pc' = "idle"
      BY <2>16 DEF AppendFails, EndBatch
    <3>5. UNCHANGED <<ring, running, pos, pending, total_processed, segments_by_slot, cpc,
                      snapshot, compaction_count, added>>
      BY <2>16, Zenon DEF AppendFails, EndBatch, compactor, reducer
    <3> HIDE DEF u
    <3>6. files' \in [Slots -> File]
      BY <3>2, <3>3
    <3>7. QED
      BY <3>2, <3>3, <3>4, <3>5, <3>6
  <2>10. CASE FlushFails
    BY <2>10 DEF FlushFails
  <2>11. CASE FlushReducer
    BY <2>11 DEF FlushReducer
  <2>12. CASE CollectSegments
    BY <2>12 DEF CollectSegments, Segments
  <2>13. CASE RemoveSegments
    BY <2>13 DEF RemoveSegments, NoMeta
  <2>14. CASE UNCHANGED vars
    BY <2>14 DEF vars
  <2>17. QED
    BY <2>1, <2>2, <2>3, <2>4, <2>5, <2>6, <2>7, <2>8, <2>9, <2>10, <2>11, <2>12,
       <2>13, <2>14, <2>15, <2>16 DEF Next, ProcessUpdates
<1>3. QED
  BY <1>1, <1>2, PTL DEF Spec

----------------------------------------------------------------------------
(* Closed segments. *)

\* A writer counts the entries of its file, short of those whose append() failed, and
\* without such a failure no entry is beyond the end_slot it keeps; the header of a
\* file that is neither open nor broken says what the writer counted.
ClosedInv ==
    \A s \in Slots :
        /\ files[s].appended <= Len(files[s].body)
        /\ files[s].appended = Len(files[s].body) <=> s \notin torn
        /\ s \notin torn => \A i \in 1 .. Len(files[s].body) :
                                files[s].body[i].slot <= files[s].end_slot
        /\ s \notin broken /\ s # current_segment => files[s].count = files[s].appended

LEMMA ClosedStep ==
  ASSUME TypeOK, ClosedInv, [Next]_vars
  PROVE  ClosedInv'
<1> USE DEF consumer, totals, disk, compactor, reducer, history
<1>1. CASE UNCHANGED <<files, broken, torn, current_segment>>
  BY <1>1 DEF ClosedInv
<1>2. ASSUME current_segment # 0, files' = Finalized(current_segment),
             current_segment' = 0, broken' = broken, torn' = torn
      PROVE  ClosedInv'
  <2>1. current_segment \in Slots
    BY <1>2 DEF TypeOK
  <2>2. \A x \in Slots : /\ files'[x].body = files[x].body
                         /\ files'[x].end_slot = files[x].end_slot
                         /\ files'[x].appended = files[x].appended
                         /\ x # current_segment => files'[x] = files[x]
    BY <1>2, <2>1, FinalizedType DEF TypeOK
  <2>3. files'[current_segment].count = files[current_segment].appended
    BY <1>2, <2>1, FinalizedType DEF TypeOK
  <2>4. QED
    BY <1>2, <2>1, <2>2, <2>3 DEF ClosedInv
<1>3. ASSUME current_segment # 0, files' = files, current_segment' = 0,
             broken' = broken \cup {current_segment}, torn' = torn
      PROVE  ClosedInv'
  BY <1>3 DEF ClosedInv
<1>4. CASE WriteToSegment
  <2> DEFINE u == ring[pos + 1]
             seg == SegmentFor(u)
             new == Appended(FileFor, u)
  <2>1. u \in Updates /\ u.slot \in Nat
    BY <1>4, DeltaAssumption DEF WriteToSegment, TypeOK
  <2>2. seg \in Slots /\ FileFor \in File /\ new \in File /\ seg # 0
    BY <2>1, ForType, AppendedType
  <2>3. /\ files' = [files EXCEPT ![seg] = new] /\ current_segment' = seg
        /\ broken' = broken \ TruncatedBy(seg) /\ torn' = torn \ TruncatedBy(seg)
    BY <1>4 DEF WriteToSegment
  <2>4. /\ FileFor.appended <= Len(FileFor.body)
        /\ FileFor.appended = Len(FileFor.body) <=> seg \notin torn'
        /\ seg \notin torn' => \A i \in 1 .. Len(FileFor.body) :
                                   FileFor.body[i].slot <= FileFor.end_slot
    <3>1. CASE current_segment = 0
      BY <2>3, <3>1 DEF FileFor, NoFile, TruncatedBy
    <3>2. CASE current_segment # 0
      BY <2>2, <2>3, <3>2 DEF FileFor, SegmentFor, TruncatedBy, ClosedInv
    <3>3. QED
      BY <3>1, <3>2
  <2>5. /\ new.body = Append(FileFor.body, u) /\ new.appended = FileFor.appended + 1
        /\ new.end_slot \in Nat
        /\ new.end_slot >= FileFor.end_slot /\ new.end_slot >= u.slot
    BY <2>1, <2>2, AppendedType
  <2>6. /\ FileFor.body \in Seq(Updates) /\ Len(FileFor.body) \in Nat
        /\ FileFor.appended \in Nat /\ FileFor.end_slot \in Nat
    BY <2>2 DEF File
  <2> HIDE DEF seg, new, u
  <2>7. /\ new.appended <= Len(new.body)
        /\ new.appended = Len(new.body) <=> seg \notin torn'
    BY <2>1, <2>4, <2>5, <2>6
  <2>8. seg \notin torn' => \A i \in 1 .. Len(new.body) : new.body[i].slot <= new.end_slot
    <3> SUFFICES ASSUME seg \notin torn', NEW i \in 1 .. Len(new.body)
                 PROVE  new.body[i].slot <= new.end_slot
      OBVIOUS
    <3>1. CASE i = Len(FileFor.body) + 1
      BY <2>1, <2>5, <2>6, <3>1
    <3>2. CASE i # Len(FileFor.body) + 1
      <4>1. i \in 1 .. Len(FileFor.body) /\ new.body[i] = FileFor.body[i]
        BY <2>1, <2>5, <2>6, <3>2
      <4>2. FileFor.body[i].slot \in Nat
        BY <2>6, <4>1, DeltaAssumption
      <4>3. QED
        BY <2>4, <2>5, <2>6, <4>1, <4>2
    <3>3. QED
      BY <3>1, <3>2
  <2>9. files'[seg] = new
    BY <2>2, <2>3 DEF TypeOK
  <2>10. \A x \in Slots : x # seg =>
           /\ files'[x] = files[x]
           /\ x \in broken' <=> x \in broken
           /\ x \in torn' <=> x \in torn
           /\ x # current_segment
    <3>1. current_segment # 0 => seg = current_segment
      BY DEF seg, SegmentFor
    <3>2. QED
      BY <2>2, <2>3, <3>1, SlotsPositive DEF TypeOK, TruncatedBy
  <2>11. QED
    BY <2>3, <2>7, <2>8, <2>9, <2>10 DEF ClosedInv
<1>9. CASE AppendFails
  <2> DEFINE u == ring[pos + 1]
             seg == SegmentFor(u)
             new == [FileFor EXCEPT !.body = Append(@, u)]
  <2>1. u \in Updates
    BY <1>9 DEF AppendFails, TypeOK
  <2>2. seg \in Slots /\ FileFor \in File /\ seg # 0
    BY <2>1, ForType
  <2>3. /\ files' = [files EXCEPT ![seg] = new] /\ current_segment' = seg
        /\ broken' = broken \ TruncatedBy(seg) /\ torn' = torn \cup {seg}
    BY <1>9 DEF AppendFails
  <2>4. FileFor.appended <= Len(FileFor.body)
    BY <2>2 DEF FileFor, NoFile, ClosedInv, TypeOK
  <2>5. new.body = Append(FileFor.body, u) /\ new.appended = FileFor.appended
    BY <2>1, <2>2, TornType
  <2>6. FileFor.body \in Seq(Updates) /\ Len(FileFor.body) \in Nat /\ FileFor.appended \in Nat
    BY <2>2 DEF File
  <2> HIDE DEF seg, new, u
  <2>7. new.appended < Len(new.body) /\ new.appended \in Nat /\ Len(new.body) \in Nat
    BY <2>1, <2>4, <2>5, <2>6
  <2>8. files'[seg] = new
    BY <2>2, <2>3 DEF TypeOK
  <2>9. \A x \in Slots : x # seg =>
           /\ files'[x] = files[x]
           /\ x \in broken' <=> x \in broken
           /\ x \in torn' <=> x \in torn
           /\ x # current_segment
    <3>1. current_segment # 0 => seg = current_segment
      BY DEF seg, SegmentFor
    <3>2. QED
      BY <2>2, <2>3, <3>1, SlotsPositive DEF TypeOK, TruncatedBy
  <2>10. QED
    BY <2>3, <2>7, <2>8, <2>9 DEF ClosedInv
<1>10. CASE CreateFails
  <2> DEFINE s == ring[pos + 1].slot
  <2>1. s \in Slots
    BY <1>10 DEF CreateFails, TypeOK, Slots
  <2>2. current_segment' = current_segment
    BY <1>10 DEF CreateFails
  <2>3. CASE UNCHANGED <<files, broken, torn>>
    BY <1>1, <2>2, <2>3
  <2>4. CASE files' = [files EXCEPT ![s] = NoFile] /\ broken' = broken \cup {s}
               /\ torn' = torn \ {s}
    <3>1. files'[s] = NoFile /\ \A x \in Slots : x # s => files'[x] = files[x]
      BY <2>1, <2>4 DEF TypeOK
    <3>2. NoFile.appended = 0 /\ Len(NoFile.body) = 0
      BY DEF NoFile
    <3> HIDE DEF s
    <3>3. QED
      BY <2>2, <2>4, <3>1, <3>2 DEF ClosedInv
  <2>5. QED
    BY <1>10, <2>3, <2>4 DEF CreateFails
<1>5. CASE Stop
  BY <1>1, <1>2, <1>3, <1>5 DEF Stop
<1>6. CASE MaybeFlush
  BY <1>1, <1>2, <1>6 DEF MaybeFlush
<1>7. CASE FlushFails
  BY <1>3, <1>7 DEF FlushFails
<1>8. QED
  BY <1>1, <1>4, <1>5, <1>6, <1>7, <1>9, <1>10 DEF Next, ProcessUpdates, Geyser, Start,
     OpenRing, AddUpdate, EndOfRing, BatchFails, FlushReducer, CollectSegments, RemoveSegments, vars

\* For any updates, flush size and number of failures: a segment file that nobody
\* writes any more, and whose create() and finalize() did not fail, has a header that
\* counts its entries and an end_slot no entry is beyond, and falls short of them
\* exactly if an append() to it failed.
THEOREM DeltaSegments == Spec => []ClosedSegmentsFinal
<1>1. Init => ClosedInv
  BY DEF Init, ConsumerInit, ClosedInv, NoFile
<1>2. TypeOK /\ ClosedInv /\ [Next]_vars => ClosedInv'
  BY ClosedStep
<1>3. TypeOK /\ ClosedInv => ClosedSegmentsFinal
  <2> SUFFICES ASSUME TypeOK, ClosedInv, NEW s \in Slots \ broken, s # current_segment
               PROVE  /\ files[s].count <= Len(files[s].body)
                      /\ files[s].count = Len(files[s].body) <=> s \notin torn
                      /\ s \notin torn => \A i \in DOMAIN files[s].body :
                            files[s].body[i].slot <= SegmentReader(s).end_slot
    BY DEF ClosedSegmentsFinal, SegmentReader
  <2>1. /\ files[s].count = files[s].appended /\ files[s].body \in Seq(Updates)
        /\ files[s].appended \in Nat
    BY DEF ClosedInv, TypeOK, File
  <2>2. DOMAIN files[s].body = 1 .. Len(files[s].body)
    BY <2>1
  <2>3. CASE files[s].count = 0
    BY <2>1, <2>2, <2>3 DEF ClosedInv
  <2>4. CASE files[s].count # 0
    BY <2>1, <2>2, <2>4 DEF ClosedInv, SegmentReader
  <2>5. QED
    BY <2>3, <2>4
<1>4. QED
  BY <1>1, <1>2, <1>3, DeltaTypeCorrect, PTL DEF Spec

----------------------------------------------------------------------------
(* What a batch has read. *)

InFile(u, s) == \E i \in 1 .. Len(files[s].body) : files[s].body[i] = u

\* The batch at work keeps what it has read in the segment that is open, which it
\* may have truncated, but only before its first entry; between batches no file is
\* truncated.
BatchInv ==
    /\ pos <= Len(ring)
    /\ ~disturbed /\ pc = "idle" => \A i \in 1 .. pos : OnDisk(ring[i])
    /\ ~disturbed /\ pc # "idle" /\ pos > 0 =>
          current_segment # 0 /\ \A i \in 1 .. pos : InFile(ring[i], current_segment)

\* The reducer holds the highest write_version it was given for each account.
ReducerInv ==
    /\ \A u \in added : pending[u.key] >= u.write_version
    /\ \A k \in Keys : pending[k] # 0 =>
          \E u \in added : u.key = k /\ u.write_version = pending[k]

LEMMA ReducerStep ==
  ASSUME TypeOK, ReducerInv, [Next]_vars
  PROVE  ReducerInv'
<1> USE DEF consumer, totals, disk, compactor, reducer, history
<1>1. CASE UNCHANGED reducer
  BY <1>1 DEF ReducerInv
<1>2. CASE FlushReducer
  BY <1>2 DEF FlushReducer, ReducerInv
<1>3. CASE AddUpdate
  <2> DEFINE u == ring[pos + 1]
  <2>1. u \in Updates
    BY <1>3 DEF AddUpdate, TypeOK
  <2>2. u.key \in Keys /\ u.write_version \in Nat /\ pending[u.key] \in Nat
    BY <2>1, DeltaAssumption DEF TypeOK
  <2>3. /\ pending' = [pending EXCEPT ![u.key] = Max2(u.write_version, pending[u.key])]
        /\ added' = added \cup {u}
    BY <1>3 DEF AddUpdate
  <2>4. /\ pending'[u.key] \in Nat
        /\ pending'[u.key] >= u.write_version /\ pending'[u.key] >= pending[u.key]
        /\ pending'[u.key] = u.write_version \/ pending'[u.key] = pending[u.key]
        /\ \A k \in Keys : k # u.key => pending'[k] = pending[k]
    BY <2>2, <2>3 DEF TypeOK, Max2
  <2> HIDE DEF u
  <2>5. ASSUME NEW v \in added'
        PROVE  pending'[v.key] >= v.write_version
    <3>1. CASE v = u
      BY <2>4, <3>1
    <3>2. CASE v # u
      <4>1. v \in added /\ v.key \in Keys /\ v.write_version \in Nat
        BY <2>3, <2>5, <3>2, DeltaAssumption DEF TypeOK
      <4>2. pending[v.key] >= v.write_version /\ pending[v.key] \in Nat
        BY <4>1 DEF ReducerInv, TypeOK
      <4>3. CASE v.key = u.key
        BY <2>2, <2>4, <4>1, <4>2, <4>3
      <4>4. CASE v.key # u.key
        BY <2>4, <4>1, <4>2, <4>4
      <4>5. QED
        BY <4>3, <4>4
    <3>3. QED
      BY <3>1, <3>2
  <2>6. ASSUME NEW k \in Keys, pending'[k] # 0
        PROVE  \E v \in added' : v.key = k /\ v.write_version = pending'[k]
    <3>1. CASE k = u.key /\ pending'[k] = u.write_version
      BY <2>3, <3>1
    <3>2. CASE ~(k = u.key /\ pending'[k] = u.write_version)
      <4>1. pending'[k] = pending[k]
        BY <2>4, <3>2
      <4>2. QED
        BY <2>3, <2>6, <4>1 DEF ReducerInv
    <3>3. QED
      BY <3>1, <3>2
  <2>7. QED
    BY <2>5, <2>6 DEF ReducerInv
<1>4. QED
  BY <1>1, <1>2, <1>3 DEF Next, ProcessUpdates, Geyser, Start, Stop, OpenRing, EndOfRing,
     WriteToSegment, MaybeFlush, BatchFails, CreateFails, AppendFails, EndBatch, FlushFails,
     CollectSegments, RemoveSegments, vars

LEMMA BatchStep ==
  ASSUME TypeOK, TypeOK', BatchInv, [Next]_vars
  PROVE  BatchInv'
<1> USE DEF consumer, totals, disk, compactor, reducer, history
<1>1. pos \in Nat /\ Len(ring) \in Nat
  BY DEF TypeOK
<1>2. \A x \in Slots : x # 0
  BY SlotsPositive
\* Steps of the batch, or of others, that leave the entries of the files alone.
<1>3. ASSUME files' = files, pos' = pos, ring' = ring, disturbed' = disturbed,
             pc # "idle" => current_segment' = current_segment,
             pc' = "idle" <=> pc = "idle"
      PROVE  BatchInv'
  BY <1>1, <1>3 DEF BatchInv, OnDisk, InFile, TypeOK
<1>4. ASSUME NEW u \in Updates, Geyser(u)
      PROVE  BatchInv'
  <2>1. Len(ring') = Len(ring) + 1 /\ \A i \in 1 .. pos : ring'[i] = ring[i]
    BY <1>1, <1>4 DEF Geyser, BatchInv, TypeOK
  <2>2. QED
    BY <1>1, <1>4, <2>1 DEF Geyser, BatchInv, OnDisk, InFile
<1>5. ASSUME \A x \in Slots : files'[x].body = files[x].body, pos' = pos, ring' = ring,
             disturbed' = disturbed, pc' = "idle"
      PROVE  BatchInv'
  <2>1. ~disturbed => \A i \in 1 .. pos : OnDisk(ring[i])
    <3>1. CASE pc = "idle"
      BY <3>1 DEF BatchInv
    <3>2. CASE pc # "idle"
      <4> SUFFICES ASSUME ~disturbed, NEW i \in 1 .. pos PROVE OnDisk(ring[i])
        OBVIOUS
      <4>1. current_segment \in Slots /\ InFile(ring[i], current_segment)
        BY <1>1, <3>2 DEF BatchInv, TypeOK
      <4>2. QED
        BY <4>1 DEF InFile, OnDisk
    <3>3. QED
      BY <3>1, <3>2
  <2>2. \A i \in 1 .. pos : OnDisk(ring[i]) => OnDisk(ring[i])'
    BY <1>5 DEF OnDisk
  <2>3. QED
    BY <1>1, <1>5, <2>1, <2>2 DEF BatchInv
<1>15. \A s \in Slots : \A x \in Slots : Finalized(s)[x].body = files[x].body
  <2>1. files \in [Slots -> File]
    BY DEF TypeOK
  <2>2. QED
    BY <2>1, FinalizedType
<1>6. CASE Stop
  <2>1. CASE pc = "idle"
    <3>1. files' = files \/ (current_segment \in Slots /\ files' = Finalized(current_segment))
      BY <1>6 DEF Stop, TypeOK
    <3>2. \A x \in Slots : files'[x].body = files[x].body
      BY <1>15, <3>1
    <3>3. pos' = pos /\ ring' = ring /\ disturbed' = disturbed /\ pc' = "idle"
      BY <1>6, <2>1 DEF Stop, TypeOK
    <3>4. QED
      BY <1>5, <3>2, <3>3
  <2>2. CASE pc # "idle"
    BY <1>6, <2>2 DEF Stop, BatchInv
  <2>3. QED
    BY <2>1, <2>2
<1>7. CASE OpenRing
  BY <1>1, <1>7 DEF OpenRing, BatchInv
<1>8. CASE WriteToSegment
  <2> DEFINE u == ring[pos + 1]
             seg == SegmentFor(u)
  <2>1. u \in Updates /\ pos + 1 \in 1 .. Len(ring)
    BY <1>8 DEF WriteToSegment, TypeOK
  <2>2. seg \in Slots /\ FileFor \in File /\ FileFor.body \in Seq(Updates)
    BY <2>1, ForType DEF File
  <2>3. files' = [files EXCEPT ![seg] = Appended(FileFor, u)] /\ current_segment' = seg
    BY <1>8 DEF WriteToSegment
  <2>4. files'[seg].body = Append(FileFor.body, u)
    <3>1. Appended(FileFor, u).body = Append(FileFor.body, u)
      BY <2>1, <2>2, AppendedType
    <3>2. QED
      BY <2>2, <2>3, <3>1 DEF TypeOK
  <2>5. ~disturbed => \A i \in 1 .. pos :
           \E j \in 1 .. Len(FileFor.body) : FileFor.body[j] = ring[i]
    BY <1>1, <1>8 DEF BatchInv, InFile, WriteToSegment, FileFor
  <2>6. ring' = ring /\ pos' = pos + 1 /\ pc' = "read" /\ disturbed' = disturbed
    BY <1>8 DEF WriteToSegment
  <2> HIDE DEF seg
  <2>7. /\ Append(FileFor.body, u)[Len(FileFor.body) + 1] = u
        /\ Len(Append(FileFor.body, u)) = Len(FileFor.body) + 1
        /\ Len(FileFor.body) \in Nat
        /\ \A j \in 1 .. Len(FileFor.body) : Append(FileFor.body, u)[j] = FileFor.body[j]
    BY <2>1, <2>2
  <2>8. ASSUME ~disturbed, NEW i \in 1 .. pos + 1
        PROVE  \E j \in 1 .. Len(files'[seg].body) : files'[seg].body[j] = ring[i]
    <3>1. CASE i = pos + 1
      BY <2>4, <2>7, <3>1
    <3>2. CASE i # pos + 1
      <4>1. PICK j \in 1 .. Len(FileFor.body) : FileFor.body[j] = ring[i]
        BY <1>1, <2>5, <2>8, <3>2
      <4>2. j \in 1 .. Len(files'[seg].body) /\ files'[seg].body[j] = ring[i]
        BY <2>4, <2>7, <4>1
      <4>3. QED
        BY <4>2
    <3>3. QED
      BY <3>1, <3>2
  <2>9. QED
    BY <1>1, <1>2, <2>1, <2>2, <2>3, <2>6, <2>8 DEF BatchInv, InFile
<1>9. CASE MaybeFlush
  <2>1. files' = files \/ (current_segment \in Slots /\ files' = Finalized(current_segment))
    BY <1>9 DEF MaybeFlush, TypeOK
  <2>2. \A x \in Slots : files'[x].body = files[x].body
    BY <1>15, <2>1
  <2>3. QED
    BY <1>5, <1>9, <2>2 DEF MaybeFlush
<1>10. CASE FlushFails
  BY <1>5, <1>10 DEF FlushFails
<1>11. CASE BatchFails \/ CreateFails \/ AppendFails
  BY <1>11 DEF BatchFails, CreateFails, AppendFails, EndBatch, BatchInv
<1>12. QED
  BY <1>3, <1>4, <1>6, <1>7, <1>8, <1>9, <1>10, <1>11 DEF Next, ProcessUpdates, Start,
     AddUpdate, EndOfRing, FlushReducer, CollectSegments, RemoveSegments, vars

\* For any updates, flush size, ring and number of failures: whatever a batch has read
\* is on disk unless a batch failed or stop() overtook one, and the reducer holds the
\* highest write_version it was given for each account.
THEOREM DeltaBatches == Spec => []BatchKept
<1>1. Init => BatchInv /\ ReducerInv
  BY DEF Init, ConsumerInit, ReducerInit, BatchInv, ReducerInv
<1>2. TypeOK /\ TypeOK' /\ BatchInv /\ [Next]_vars => BatchInv'
  BY BatchStep
<1>3. TypeOK /\ ReducerInv /\ [Next]_vars => ReducerInv'
  BY ReducerStep
<1>4. TypeOK /\ BatchInv /\ ReducerInv => BatchKept
  BY DEF BatchInv, ReducerInv, BatchKept, InFile, OnDisk, TypeOK
<1>5. QED
  BY <1>1, <1>2, <1>3, <1>4, DeltaTypeCorrect, PTL DEF Spec

=============================================================================
