-------------------------- MODULE RingBufferProofs --------------------------
(* Type correctness and, for a single producer, the delivery guarantee of    *)
(* RingBuffer.                                                               *)
EXTENDS RingBuffer, SequenceTheorems, TLAPS

LEMMA SizeType ==
  ASSUME NEW u \in Updates
  PROVE  Size(u) \in Nat /\ Size(u) >= 2
BY RingAssumption DEF Size

LEMMA SizesAtType ==
  ASSUME TypeOK, NEW p \in Nat
  PROVE  SizesAt(p) \subseteq Nat
<1>1. CASE p \notin Offsets
  BY <1>1, RingAssumption DEF SizesAt
<1>2. CASE p \in Offsets
  <2>1. mem[p] \in Cells
    BY <1>2 DEF TypeOK
  <2>2. CASE mem[p] = Zero
    BY <1>2, <2>2 DEF SizesAt
  <2>3. CASE mem[p] # Zero
    <3>1. mem[p].of \in Updates
      BY <2>1, <2>3 DEF Cells
    <3>2. QED
      BY <1>2, <2>3, <3>1, SizeType, RingAssumption DEF SizesAt
  <2>4. QED
    BY <2>2, <2>3
<1>3. QED
  BY <1>1, <1>2

LEMMA HeadersAtType ==
  ASSUME TypeOK, NEW p \in Nat
  PROVE  HeadersAt(p) \subseteq Updates \cup {Torn}
<1>1. CASE ~({p, p + 1} \subseteq Offsets)
  BY <1>1 DEF HeadersAt
<1>2. CASE {p, p + 1} \subseteq Offsets
  <2>1. mem[p] \in Cells
    BY <1>2 DEF TypeOK
  <2>2. mem[p] # Zero => mem[p].of \in Updates
    BY <2>1 DEF Cells
  <2>3. QED
    BY <1>2, <2>2 DEF HeadersAt
<1>3. QED
  BY <1>1, <1>2

LEMMA DataAtType ==
  ASSUME NEW u \in Updates \cup {Torn}, NEW p \in Nat
  PROVE  DataAt(u, p) \subseteq Updates \cup {Torn}
BY DEF DataAt

\* Every variable keeps its type, whatever the number of producers.
THEOREM RingTypeCorrect == Spec => []TypeOK
<1>1. Init => TypeOK
  BY RingAssumption DEF Init, TypeOK, Cells
<1>2. TypeOK /\ [Next]_vars => TypeOK'
  <2> SUFFICES ASSUME TypeOK, [Next]_vars PROVE TypeOK'
    OBVIOUS
  <2> USE DEF TypeOK
  <2>1. ASSUME NEW w \in Writers, NEW u \in Updates, UpdateAccount(w, u)
        PROVE  TypeOK'
    BY <2>1 DEF UpdateAccount, ring, reader, hist
  <2>2. ASSUME NEW w \in Writers, LoadWritePos(w)
        PROVE  TypeOK'
    <3>1. 0 .. Size(wupd[w]) - 1 \subseteq Nat
      BY SizeType
    <3>2. /\ wpc' \in [Writers -> {"idle", "load", "copy", "count"}]
          /\ wpos' \in [Writers -> Nat]
          /\ todo' \in [Writers -> SUBSET Nat]
      BY <2>2, <3>1 DEF LoadWritePos
    <3>3. QED
      BY <2>2, <3>2 DEF LoadWritePos, ring, reader, hist
  <2>3. ASSUME NEW w \in Writers, NEW k \in 0 .. Capacity, CopyCell(w, k)
        PROVE  TypeOK'
    <3>1. [of |-> wupd[w], part |-> k] \in Cells
      BY RingAssumption DEF Cells
    <3>2. mem' \in [Offsets -> Cells]
      BY <2>3, <3>1 DEF CopyCell
    <3>3. QED
      BY <2>3, <3>2 DEF CopyCell, reader, hist
  <2>4. ASSUME NEW w \in Writers, Publish(w)
        PROVE  TypeOK'
    <3>1. Size(wupd[w]) \in Nat
      BY SizeType
    <3>2. log' \in Seq([upd : Updates, at : Nat])
      BY <2>4 DEF Publish
    <3>3. write_pos' \in Nat
      BY <2>4, <3>1 DEF Publish
    <3>4. wpc' \in [Writers -> {"idle", "load", "copy", "count"}]
      BY <2>4 DEF Publish
    <3>5. QED
      BY <2>4, <3>2, <3>3, <3>4 DEF Publish, reader
  <2>5. ASSUME NEW w \in Writers, CountEntry(w)
        PROVE  TypeOK'
    BY <2>5 DEF CountEntry, reader, hist
  <2>6. CASE Close
    BY <2>6 DEF Close, writer, reader, hist
  <2>7. CASE Crash
    <3>1. /\ wpc' \in [Writers -> {"idle", "load", "copy", "count"}]
          /\ wpos' \in [Writers -> Nat]
          /\ todo' \in [Writers -> SUBSET Nat]
      BY <2>7 DEF Crash
    <3>2. plugin' = "none" /\ UNCHANGED <<state, write_pos, entry_count, mem, sized, wupd>>
      BY <2>7 DEF Crash
    <3>3. UNCHANGED <<pollers, rpc, read_pos, rlim, vat, view, got, repoch, epoch, log>>
      BY <2>7 DEF Crash, reader, hist
    <3>4. QED
      BY <3>1, <3>2, <3>3
  <2>8. CASE Truncate
    <3>1. mem' \in [Offsets -> Cells]
      BY <2>8 DEF Truncate, Cells
    <3>2. /\ plugin' = "creating" /\ sized' = FALSE /\ state' = "Uninitialized"
          /\ write_pos' = 0 /\ entry_count' = 0
      BY <2>8 DEF Truncate
    <3>3. epoch' \in Nat /\ log' \in Seq([upd : Updates, at : Nat])
      BY <2>8 DEF Truncate
    <3>4. UNCHANGED <<wpc, wupd, wpos, todo, pollers, rpc, read_pos, rlim, vat, view, got, repoch>>
      BY <2>8 DEF Truncate, writer, reader
    <3>5. QED
      BY <3>1, <3>2, <3>3, <3>4
  <2>9. CASE SetLen
    BY <2>9 DEF SetLen, writer, reader, hist
  <2>10. CASE WriteHeader
    BY <2>10 DEF WriteHeader, writer, reader, hist
  <2>11. ASSUME NEW r \in Readers, ReaderStep(r)
        PROVE  TypeOK'
    <3>1. CASE NoNewData(r)
      BY <3>1 DEF NoNewData, EndBatch, ring, writer, hist
    <3>2. CASE SeeNewData(r)
      BY <3>2 DEF SeeNewData, ring, writer, hist
    <3>3. CASE CorruptedEntry(r)
      BY <3>3 DEF CorruptedEntry, EndBatch, ring, writer, hist
    <3>4. CASE ReadEntry(r)
      <4>1. read_pos' \in [Readers -> Nat]
        <5>1. PICK s \in SizesAt(read_pos[r]) :
                 read_pos' = [read_pos EXCEPT ![r] = @ + s]
          BY <3>4 DEF ReadEntry
        <5>2. s \in Nat
          BY <5>1, SizesAtType
        <5>3. QED
          BY <5>1, <5>2
      <4>2. view' \in [Readers -> Updates \cup {Torn}]
        <5>1. PICK u \in HeadersAt(read_pos[r]) : view' = [view EXCEPT ![r] = u]
          BY <3>4 DEF ReadEntry
        <5>2. u \in Updates \cup {Torn}
          BY <5>1, HeadersAtType
        <5>3. QED
          BY <5>1, <5>2
      <4>3. QED
        BY <3>4, <4>1, <4>2 DEF ReadEntry, ring, writer, hist
    <3>5. CASE UseView(r)
      <4>1. PICK x \in DataAt(view[r], vat[r]) : got' = [got EXCEPT ![r] = Append(@, x)]
        BY <3>5 DEF UseView
      <4>2. x \in Updates \cup {Torn}
        BY <4>1, DataAtType
      <4>3. Append(got[r], x) \in Seq(Updates \cup {Torn})
        BY <4>2
      <4>4. got' \in [Readers -> Seq(Updates \cup {Torn})]
        BY <4>1, <4>3
      <4>5. QED
        BY <3>5, <4>4 DEF UseView, ring, writer, hist
    <3>6. CASE Open(r)
      <4>1. <<>> \in Seq(Updates \cup {Torn})
        OBVIOUS
      <4>2. got' \in [Readers -> Seq(Updates \cup {Torn})]
        BY <3>6, <4>1 DEF Open
      <4>3. QED
        BY <3>6, <4>2 DEF Open, ring, writer, hist
    <3>7. CASE Die(r)
      BY <3>7 DEF Die, ring, writer, hist
    <3>8. QED
      BY <2>11, <3>1, <3>2, <3>3, <3>4, <3>5, <3>6, <3>7 DEF ReaderStep
  <2>12. CASE UNCHANGED vars
    BY <2>12 DEF vars
  <2>13. QED
    BY <2>1, <2>2, <2>3, <2>4, <2>5, <2>6, <2>7, <2>8, <2>9, <2>10, <2>11, <2>12 DEF Next
<1>3. QED
  BY <1>1, <1>2, PTL DEF Spec

----------------------------------------------------------------------------
(* Facts about the layout of the log. *)

LEMMA LogEntryType ==
  ASSUME log \in Seq([upd : Updates, at : Nat]), NEW k \in 1 .. Len(log)
  PROVE  /\ log[k].at \in Nat /\ log[k].upd \in Updates
         /\ Size(log[k].upd) \in Nat /\ Size(log[k].upd) >= 2
<1>1. log[k] \in [upd : Updates, at : Nat]
  BY ElementOfSeq
<1>2. log[k].at \in Nat /\ log[k].upd \in Updates
  BY <1>1
<1>3. QED
  BY <1>2, SizeType

LEMMA StartOfNext ==
  ASSUME NEW k \in Nat, k >= 1
  PROVE  StartOf(k + 1) = log[k].at + Size(log[k].upd)
BY DEF StartOf

LEMMA StartOfType ==
  ASSUME TypeOK, NEW k \in 1 .. Len(log) + 1
  PROVE  StartOf(k) \in Nat
<1>1. CASE k = 1
  BY <1>1 DEF StartOf
<1>2. CASE k # 1
  <2>1. k - 1 \in 1 .. Len(log)
    BY <1>2 DEF TypeOK
  <2>2. log[k - 1].at \in Nat /\ Size(log[k - 1].upd) \in Nat
    BY <2>1, LogEntryType DEF TypeOK
  <2>3. QED
    BY <1>2, <2>2 DEF StartOf
<1>3. QED
  BY <1>1, <1>2

\* What lies within the file stays there, and an entry within it covers its cells.
LEMMA InsideBelow ==
  ASSUME TypeOK, NEW m \in Nat, NEW n \in Nat, m <= n, Inside(n)
  PROVE  Inside(m)
BY DEF Inside, TypeOK

LEMMA FitsCells ==
  ASSUME NEW u \in Updates, NEW p \in Nat, Fits(u, p), NEW k \in 0 .. Size(u) - 1
  PROVE  p + k \in Offsets
BY SizeType, RingAssumption DEF Fits, Offsets

\* A reader of the current ring that saw new data is at the next logged entry, and
\* finds it whole, ending at or before the write_pos it loaded, if it lies within
\* the file.
LEMMA ParseSound ==
  ASSUME TypeOK, RingInv, NEW r \in Readers, repoch[r] = epoch, rpc[r] = "parse",
         Inside(Len(got[r]))
  PROVE  LET e == log[Len(got[r]) + 1]
         IN  /\ Len(got[r]) + 1 <= Len(log)
             /\ read_pos[r] = e.at
             /\ Inside(Len(got[r]) + 1) =>
                   /\ SizesAt(read_pos[r]) = {Size(e.upd)}
                   /\ HeadersAt(read_pos[r]) = {e.upd}
                   /\ read_pos[r] + Size(e.upd) <= rlim[r]
                   /\ {read_pos[r], read_pos[r] + 1} \subseteq Offsets
<1> DEFINE n == Len(got[r])
<1> DEFINE e == log[n + 1]
<1>1. n \in Nat /\ n <= Len(log) /\ Len(log) \in Nat
  BY DEF TypeOK, RingInv, ReaderAligned
<1>2. read_pos[r] = StartOf(n + 1) /\ read_pos[r] < rlim[r]
  BY DEF RingInv, ReaderAligned
<1>3. PICK m \in 1 .. Len(log) : rlim[r] = StartOf(m + 1)
  BY DEF RingInv, ReaderAligned
<1>4. rlim[r] = log[m].at + Size(log[m].upd)
  BY <1>3, StartOfNext
<1>5. \A k \in 1 .. Len(log) :
         /\ log[k].at \in Nat /\ log[k].upd \in Updates
         /\ Size(log[k].upd) \in Nat /\ Size(log[k].upd) >= 2
  BY LogEntryType DEF TypeOK
<1>6. n < m
  <2> SUFFICES ASSUME m <= n PROVE FALSE
    BY <1>1
  <2>1. n \in 1 .. Len(log)
    BY <1>1
  <2>2. read_pos[r] = log[n].at + Size(log[n].upd)
    <3>1. n \in Nat /\ n >= 1
      BY <1>1, <2>1
    <3>2. StartOf(n + 1) = log[n].at + Size(log[n].upd)
      BY <3>1, StartOfNext
    <3>3. QED
      BY <1>2, <3>2
  <2>3. CASE m = n
    BY <1>2, <1>4, <1>5, <2>1, <2>2, <2>3
  <2>4. CASE m < n
    <3>1. log[m].at + Size(log[m].upd) <= log[n].at
      BY <2>1, <2>4 DEF RingInv, LogIntact
    <3>2. /\ log[m].at \in Nat /\ Size(log[m].upd) \in Nat
          /\ log[n].at \in Nat /\ Size(log[n].upd) \in Nat
      BY <1>5, <2>1
    <3>3. QED
      BY <1>2, <1>4, <2>2, <3>1, <3>2
  <2>5. QED
    BY <2>3, <2>4, <1>1
<1>7. n + 1 \in 1 .. Len(log)
  BY <1>1, <1>6
<1>8. /\ e.at = StartOf(n + 1)
      /\ Holds(e.at, e.upd, 0 .. Size(e.upd) - 1)
  BY <1>7 DEF RingInv, LogIntact
<1>9. e.at + Size(e.upd) <= rlim[r]
  <2>1. CASE m = n + 1
    BY <1>4, <1>5, <1>7, <2>1
  <2>2. CASE m > n + 1
    <3>1. e.at + Size(e.upd) <= log[m].at
      BY <1>7, <2>2 DEF RingInv, LogIntact
    <3>2. /\ log[m].at \in Nat /\ Size(log[m].upd) \in Nat
          /\ e.at \in Nat /\ Size(e.upd) \in Nat
      BY <1>5, <1>7
    <3>3. QED
      BY <1>4, <3>1, <3>2
  <2>3. QED
    BY <1>1, <1>6, <2>1, <2>2
<1>10. ASSUME Inside(n + 1)
       PROVE  /\ SizesAt(e.at) = {Size(e.upd)} /\ HeadersAt(e.at) = {e.upd}
              /\ e.at \in Offsets /\ e.at + 1 \in Offsets
  <2>1. Fits(e.upd, e.at)
    BY <1>1, <1>7, <1>10 DEF Inside
  <2>2. 0 \in 0 .. Size(e.upd) - 1 /\ 1 \in 0 .. Size(e.upd) - 1
    BY <1>5, <1>7
  <2>3. e.at + 0 \in Offsets /\ e.at + 1 \in Offsets
    BY <1>5, <1>7, <2>1, <2>2, FitsCells
  <2>4. e.at + 0 = e.at
    BY <1>5, <1>7
  <2>5. /\ mem[e.at] = [of |-> e.upd, part |-> 0]
        /\ mem[e.at + 1] = [of |-> e.upd, part |-> 1]
    BY <1>8, <2>2, <2>3, <2>4 DEF Holds
  <2>6. mem[e.at] # Zero /\ mem[e.at + 1] # Zero
    BY <1>5, <1>7, <2>5, RingAssumption
  <2>7. SizesAt(e.at) = {Size(e.upd)}
    BY <2>3, <2>4, <2>5, <2>6 DEF SizesAt
  <2>8. HeadersAt(e.at) = {e.upd}
    BY <2>3, <2>4, <2>5, <2>6 DEF HeadersAt
  <2>9. QED
    BY <2>3, <2>4, <2>7, <2>8
<1>11. QED
  BY <1>1, <1>2, <1>7, <1>8, <1>9, <1>10

LEMMA LayoutKept ==
  ASSUME LogIntact, UNCHANGED <<write_pos, mem, log>>
  PROVE  LogIntact'
BY DEF LogIntact, StartOf, Holds

LEMMA ReadersKept ==
  ASSUME RingInv, UNCHANGED <<reader, hist, sized>>
  PROVE  ReaderAligned' /\ DeliveredInOrder' /\ \A r \in Readers : repoch'[r] <= epoch'
BY DEF RingInv, ReaderAligned, DeliveredInOrder, StartOf, Inside, reader, hist

LEMMA WritersKept ==
  ASSUME WriterAtEnd, UNCHANGED <<write_pos, mem, plugin, wupd, wpos, todo>>,
         \A w \in Writers : /\ wpc'[w] = "copy" => wpc[w] = "copy"
                            /\ wpc'[w] # "idle" => wpc[w] # "idle"
  PROVE  WriterAtEnd'
BY DEF WriterAtEnd, Holds

\* The cell a writer copies lies behind every published entry.
LEMMA CopyKeepsLayout ==
  ASSUME SingleProducer, TypeOK, RingInv,
         NEW w \in Writers, NEW k \in Nat, CopyCell(w, k)
  PROVE  LogIntact' /\ WriterAtEnd'
<1>1. /\ wpos[w] = write_pos
      /\ todo[w] \subseteq 0 .. Size(wupd[w]) - 1
      /\ Holds(wpos[w], wupd[w], (0 .. Size(wupd[w]) - 1) \ todo[w])
      /\ k \in todo[w]
  BY DEF CopyCell, RingInv, WriterAtEnd
<1>2. /\ write_pos \in Nat /\ wupd[w] \in Updates /\ Size(wupd[w]) \in Nat
  BY SizeType DEF TypeOK
<1>3. \A x \in Offsets : x # write_pos + k => mem'[x] = mem[x]
  BY <1>1 DEF CopyCell, TypeOK
<1>4. write_pos + k \in Offsets => mem'[write_pos + k] = [of |-> wupd[w], part |-> k]
  BY <1>1 DEF CopyCell, TypeOK
<1>5. UNCHANGED <<write_pos, log, plugin, wpc, wupd, wpos>>
  BY DEF CopyCell, hist
<1>6. LogIntact'
  <2>1. ASSUME NEW j \in 1 .. Len(log)
        PROVE  Holds(log[j].at, log[j].upd, 0 .. Size(log[j].upd) - 1)'
    <3>1. /\ log[j].at + Size(log[j].upd) <= write_pos
          /\ Holds(log[j].at, log[j].upd, 0 .. Size(log[j].upd) - 1)
      BY <2>1 DEF RingInv, LogIntact
    <3>2. log[j].at \in Nat /\ Size(log[j].upd) \in Nat
      BY <2>1, LogEntryType DEF TypeOK
    <3>3. ASSUME NEW i \in 0 .. Size(log[j].upd) - 1, log[j].at + i \in Offsets
          PROVE  mem'[log[j].at + i] = mem[log[j].at + i]
      <4>1. log[j].at + i # write_pos + k
        BY <1>2, <3>1, <3>2
      <4>2. QED
        BY <1>3, <3>3, <4>1
    <3>4. QED
      BY <1>5, <3>1, <3>3 DEF Holds
  <2>2. QED
    BY <1>5, <2>1 DEF RingInv, LogIntact, StartOf
<1>7. WriterAtEnd'
  <2>1. todo'[w] = todo[w] \ {k}
    BY DEF CopyCell, TypeOK
  <2>2. ASSUME NEW i \in (0 .. Size(wupd[w]) - 1) \ todo'[w], write_pos + i \in Offsets
        PROVE  mem'[write_pos + i] = [of |-> wupd[w], part |-> i]
    <3>1. CASE i = k
      BY <1>4, <2>2, <3>1
    <3>2. CASE i # k
      <4>1. write_pos + i # write_pos + k
        BY <1>1, <1>2, <3>2
      <4>2. i \in (0 .. Size(wupd[w]) - 1) \ todo[w]
        BY <2>1, <3>2
      <4>3. QED
        BY <1>1, <1>3, <2>2, <4>1, <4>2 DEF Holds
    <3>3. QED
      BY <3>1, <3>2
  <2>3. \A v \in Writers : v = w
    BY DEF SingleProducer
  <2>4. wpc[w] = "copy" /\ plugin = "open"
    BY DEF CopyCell, RingInv, WriterAtEnd
  <2>5. QED
    BY <1>1, <1>5, <2>1, <2>2, <2>3, <2>4 DEF WriterAtEnd, Holds
<1>8. QED
  BY <1>6, <1>7

\* Publishing appends the copied entry to the log and moves write_pos to its end.
LEMMA PublishKeepsInv ==
  ASSUME SingleProducer, TypeOK, TypeOK', RingInv, NEW w \in Writers, Publish(w)
  PROVE  RingInv'
<1> DEFINE u == wupd[w]
<1>0. PICK n \in Nat : n = Len(log)
  BY DEF TypeOK
<1>1. /\ wpos[w] = write_pos
      /\ Holds(write_pos, u, 0 .. Size(u) - 1)
  BY DEF Publish, RingInv, WriterAtEnd
<1>2. /\ write_pos \in Nat /\ u \in Updates /\ Size(u) \in Nat
      /\ Size(u) >= 2
  BY SizeType DEF TypeOK
<1>3. /\ write_pos' = write_pos + Size(u)
      /\ mem' = mem
      /\ log' = Append(log, [upd |-> u, at |-> write_pos])
  BY <1>1 DEF Publish
<1>4. /\ Len(log') = n + 1
      /\ \A k \in 1 .. n : log'[k] = log[k]
      /\ log'[n + 1] = [upd |-> u, at |-> write_pos]
  BY <1>0, <1>3 DEF TypeOK
<1>5. \A k \in 1 .. n + 1 : StartOf(k)' = StartOf(k)
  <2> SUFFICES ASSUME NEW k \in 1 .. n + 1 PROVE StartOf(k)' = StartOf(k)
    OBVIOUS
  <2>1. CASE k = 1
    BY <2>1 DEF StartOf
  <2>2. CASE k # 1
    <3>1. k - 1 \in 1 .. n
      BY <1>2, <2>2
    <3>2. QED
      BY <1>4, <2>2, <3>1 DEF StartOf
  <2>3. QED
    BY <2>1, <2>2
<1>6. StartOf(n + 2)' = write_pos'
  <2>1. (n + 2) - 1 = n + 1 /\ n + 2 # 1
    BY <1>2
  <2>2. QED
    BY <1>3, <1>4, <2>1 DEF StartOf
<1>7. LogIntact'
  <2>1. write_pos' = StartOf(Len(log) + 1)'
    <3>1. Len(log') + 1 = n + 2
      BY <1>2, <1>4
    <3>2. QED
      BY <1>4, <1>6, <3>1 DEF StartOf
  <2>3. ASSUME NEW k \in 1 .. n + 1
        PROVE  /\ log'[k].at = StartOf(k)'
               /\ log'[k].at + Size(log'[k].upd) <= write_pos'
               /\ Holds(log[k].at, log[k].upd, 0 .. Size(log[k].upd) - 1)'
    <3>1. CASE k = n + 1
      <4>0. write_pos = StartOf(n + 1)
        BY <1>0 DEF RingInv, LogIntact
      <4>1. log'[k].at = StartOf(k)'
        BY <1>4, <1>5, <3>1, <4>0
      <4>2. log'[k].upd = u /\ log'[k].at = write_pos
        BY <1>4, <3>1
      <4>3. Holds(log[k].at, log[k].upd, 0 .. Size(log[k].upd) - 1)'
        <5>1. \A j \in 0 .. Size(u) - 1 : write_pos + j \in Offsets =>
                 mem[write_pos + j] = [of |-> u, part |-> j]
          BY <1>1 DEF Holds
        <5>2. \A j \in 0 .. Size(log'[k].upd) - 1 : log'[k].at + j \in Offsets =>
                 mem'[log'[k].at + j] = [of |-> log'[k].upd, part |-> j]
          BY <1>3, <4>2, <5>1
        <5>3. QED
          BY <5>2 DEF Holds, Size
      <4>4. log'[k].at + Size(log'[k].upd) <= write_pos'
        <5>1. log'[k].at + Size(log'[k].upd) = write_pos'
          BY <1>3, <4>2
        <5>2. write_pos' \in Nat
          BY DEF TypeOK
        <5>3. QED
          BY <5>1, <5>2
      <4>5. QED
        BY <4>1, <4>3, <4>4
    <3>2. CASE k \in 1 .. n
      <4>1. /\ log[k].at = StartOf(k)
            /\ log[k].at + Size(log[k].upd) <= write_pos
            /\ Holds(log[k].at, log[k].upd, 0 .. Size(log[k].upd) - 1)
        BY <1>0, <3>2 DEF RingInv, LogIntact
      <4>2. log[k].at \in Nat /\ Size(log[k].upd) \in Nat
        BY <1>0, <3>2, LogEntryType DEF TypeOK
      <4>3. log[k].at + Size(log[k].upd) <= write_pos'
        BY <1>2, <1>3, <4>1, <4>2
      <4>4. QED
        BY <1>3, <1>4, <1>5, <3>2, <4>1, <4>3 DEF Holds
    <3>3. QED
      BY <1>2, <3>1, <3>2
  <2>4. ASSUME NEW j \in 1 .. n + 1, NEW k \in 1 .. n + 1, j < k
        PROVE  log'[j].at + Size(log'[j].upd) <= log'[k].at
    <3>1. j \in 1 .. n
      BY <1>2, <2>4
    <3>2. CASE k = n + 1
      BY <1>0, <1>4, <3>1, <3>2 DEF RingInv, LogIntact
    <3>3. CASE k \in 1 .. n
      BY <1>0, <1>4, <2>4, <3>1, <3>3 DEF RingInv, LogIntact
    <3>4. QED
      BY <1>2, <3>2, <3>3
  <2>5. QED
    BY <1>4, <2>1, <2>3, <2>4 DEF LogIntact
<1>8. WriterAtEnd'
  BY DEF Publish, RingInv, WriterAtEnd, SingleProducer, TypeOK
<1>9. \A k \in Nat : /\ Inside(k)' => Inside(k)
                     /\ k <= n /\ Inside(k) => Inside(k)'
  <2>1. \A k \in Nat : Inside(k)' => Inside(k)
    BY <1>0, <1>4 DEF Inside, Fits, Size
  <2>2. ASSUME NEW k \in Nat, k <= n, Inside(k)
        PROVE  Inside(k)'
    BY <1>0, <1>2, <1>4, <2>2 DEF Inside, Fits, Size
  <2>3. QED
    BY <2>1, <2>2
<1>10. UNCHANGED <<rpc, read_pos, rlim, vat, view, got, repoch, epoch, sized>>
  BY DEF Publish, reader
<1>13. DeliveredInOrder'
  <2> SUFFICES ASSUME NEW r \in Readers, repoch[r] = epoch,
                      NEW k \in 1 .. Len(got[r]), Inside(k)'
               PROVE  k <= Len(log') /\ got[r][k] = log'[k].upd
    BY <1>10 DEF DeliveredInOrder
  <2>1. k \in Nat /\ k >= 1
    BY DEF TypeOK
  <2>2. k <= n /\ got[r][k] = log[k].upd
    BY <1>0, <1>9, <2>1 DEF RingInv, DeliveredInOrder
  <2>3. QED
    BY <1>2, <1>4, <2>1, <2>2
<1>14. ReaderAligned'
  <2> SUFFICES ASSUME NEW r \in Readers, repoch'[r] = epoch',
                      NEW m \in Nat, m = Len(got'[r]), Inside(m)'
               PROVE  /\ sized' /\ m <= Len(log')
                      /\ rpc'[r] \in {"idle", "parse"} => read_pos'[r] = StartOf(m + 1)'
                      /\ rpc'[r] = "parse" =>
                            /\ read_pos'[r] < rlim'[r]
                            /\ \E j \in 1 .. Len(log') : rlim'[r] = StartOf(j + 1)'
                      /\ rpc'[r] = "view" =>
                            /\ m + 1 <= Len(log')
                            /\ vat'[r] = log'[m + 1].at
                            /\ Inside(m + 1)' => /\ read_pos'[r] = StartOf(m + 2)'
                                                 /\ view'[r] = log'[m + 1].upd
    <3>1. \A r \in Readers : Len(got'[r]) \in Nat
      BY DEF TypeOK
    <3>2. QED
      BY <3>1 DEF ReaderAligned, StartOf
  <2>0. repoch[r] = epoch /\ m = Len(got[r]) /\ Inside(m)
    BY <1>9, <1>10
  <2>1. sized /\ m <= n
    BY <1>0, <2>0 DEF RingInv, ReaderAligned
  <2>2. sized' /\ m <= Len(log')
    BY <1>2, <1>4, <1>10, <2>1
  <2>3. m + 1 \in 1 .. n + 1
    BY <1>2, <2>1
  <2>4. ASSUME rpc[r] \in {"idle", "parse"}
        PROVE  read_pos[r] = StartOf(m + 1)'
    BY <1>5, <2>0, <2>3, <2>4 DEF RingInv, ReaderAligned
  <2>5. ASSUME rpc[r] = "parse"
        PROVE  /\ read_pos[r] < rlim[r]
               /\ \E j \in 1 .. Len(log') : rlim[r] = StartOf(j + 1)'
    <3>1. PICK j \in 1 .. n : rlim[r] = StartOf(j + 1)
      BY <1>0, <2>0, <2>5 DEF RingInv, ReaderAligned
    <3>2. j \in 1 .. Len(log') /\ j + 1 \in 1 .. n + 1
      BY <1>2, <1>4
    <3>3. rlim[r] = StartOf(j + 1)'
      BY <1>5, <3>1, <3>2
    <3>4. read_pos[r] < rlim[r]
      BY <2>0, <2>5 DEF RingInv, ReaderAligned
    <3>5. QED
      BY <3>2, <3>3, <3>4
  <2>6. ASSUME rpc[r] = "view"
        PROVE  /\ m + 1 <= Len(log')
               /\ vat[r] = log'[m + 1].at
               /\ Inside(m + 1)' => read_pos[r] = StartOf(m + 2)' /\ view[r] = log'[m + 1].upd
    <3>1. /\ m + 1 <= n
          /\ vat[r] = log[m + 1].at
          /\ Inside(m + 1) => read_pos[r] = StartOf(m + 2) /\ view[r] = log[m + 1].upd
      BY <1>0, <2>0, <2>6 DEF RingInv, ReaderAligned
    <3>2. m + 1 \in 1 .. n /\ m + 2 \in 1 .. n + 1 /\ m + 1 <= Len(log')
      BY <1>2, <1>4, <2>1, <3>1
    <3>3. QED
      BY <1>4, <1>5, <1>9, <3>1, <3>2
  <2>7. QED
    BY <1>10, <2>2, <2>4, <2>5, <2>6
<1>11. \A r \in Readers : repoch'[r] <= epoch'
  BY DEF RingInv, Publish, reader
<1>12. QED
  BY <1>7, <1>8, <1>11, <1>13, <1>14 DEF RingInv

\* Every step of a reader keeps the invariant.
LEMMA ReaderKeepsInv ==
  ASSUME TypeOK, TypeOK', RingInv, NEW r \in Readers, ReaderStep(r)
  PROVE  RingInv'
<1>1. UNCHANGED <<ring, writer, hist>>
  BY DEF ReaderStep, Open, NoNewData, SeeNewData, CorruptedEntry, ReadEntry, UseView, Die
<1>2. LogIntact'
  BY <1>1, LayoutKept DEF RingInv, ring, hist
<1>3. WriterAtEnd'
  BY <1>1 DEF RingInv, WriterAtEnd, Holds, ring, writer
<1>4. \A q \in Readers : q # r =>
         /\ rpc'[q] = rpc[q] /\ read_pos'[q] = read_pos[q] /\ rlim'[q] = rlim[q]
         /\ vat'[q] = vat[q] /\ view'[q] = view[q] /\ got'[q] = got[q]
         /\ repoch'[q] = repoch[q]
  <2> SUFFICES ASSUME NEW q \in Readers, q # r
               PROVE  /\ rpc'[q] = rpc[q] /\ read_pos'[q] = read_pos[q]
                      /\ rlim'[q] = rlim[q] /\ vat'[q] = vat[q]
                      /\ view'[q] = view[q] /\ got'[q] = got[q]
                      /\ repoch'[q] = repoch[q]
    OBVIOUS
  <2>1. CASE Open(r)
    BY <2>1 DEF Open, TypeOK
  <2>2. CASE NoNewData(r)
    BY <2>2 DEF NoNewData, EndBatch, TypeOK
  <2>3. CASE SeeNewData(r)
    BY <2>3 DEF SeeNewData, TypeOK
  <2>4. CASE CorruptedEntry(r)
    BY <2>4 DEF CorruptedEntry, EndBatch, TypeOK
  <2>5. CASE ReadEntry(r)
    BY <2>5 DEF ReadEntry, TypeOK
  <2>6. CASE UseView(r)
    BY <2>6 DEF UseView, TypeOK
  <2>7. CASE Die(r)
    BY <2>7 DEF Die, TypeOK
  <2>8. QED
    BY <2>1, <2>2, <2>3, <2>4, <2>5, <2>6, <2>7 DEF ReaderStep
<1> DEFINE Given(q) == \A k \in 1 .. Len(got[q]) :
                          Inside(k) => k <= Len(log) /\ got[q][k] = log[k].upd
<1> DEFINE Aligned(q) ==
      /\ sized /\ Len(got[q]) <= Len(log)
      /\ rpc[q] \in {"idle", "parse"} => read_pos[q] = StartOf(Len(got[q]) + 1)
      /\ rpc[q] = "parse" =>
            /\ read_pos[q] < rlim[q]
            /\ \E m \in 1 .. Len(log) : rlim[q] = StartOf(m + 1)
      /\ rpc[q] = "view" =>
            /\ Len(got[q]) + 1 <= Len(log)
            /\ vat[q] = log[Len(got[q]) + 1].at
            /\ Inside(Len(got[q]) + 1) =>
                  /\ read_pos[q] = StartOf(Len(got[q]) + 2)
                  /\ view[q] = log[Len(got[q]) + 1].upd
<1> DEFINE At(q) ==
      /\ repoch[q] <= epoch
      /\ repoch[q] = epoch => Given(q)
      /\ repoch[q] = epoch /\ Inside(Len(got[q])) => Aligned(q)
<1>5. \A q \in Readers : At(q)
  BY DEF RingInv, ReaderAligned, DeliveredInOrder
<1>6. /\ log' = log /\ epoch' = epoch /\ write_pos' = write_pos /\ mem' = mem
      /\ sized' = sized
  BY <1>1 DEF ring, hist
<1>7. \A k : Inside(k)' = Inside(k)
  BY <1>6 DEF Inside, Fits, Size
<1>8. \A k : StartOf(k)' = StartOf(k)
  BY <1>6 DEF StartOf
<1>9. \A q \in Readers : q # r => At(q)'
  <2> SUFFICES ASSUME NEW q \in Readers, q # r
               PROVE  At(q)'
    OBVIOUS
  <2>1. /\ rpc'[q] = rpc[q] /\ read_pos'[q] = read_pos[q]
        /\ rlim'[q] = rlim[q] /\ vat'[q] = vat[q]
        /\ view'[q] = view[q] /\ got'[q] = got[q]
        /\ repoch'[q] = repoch[q]
    BY <1>4
  <2>2. At(q)
    BY <1>5
  <2>3. QED
    BY <1>6, <1>7, <1>8, <2>1, <2>2
<1>10. At(r)'
  <2>0. PICK n \in Nat : n = Len(got[r])
    BY DEF TypeOK
  <2>1. CASE Open(r)
    <3>1. /\ sized /\ rpc'[r] = "idle" /\ read_pos'[r] = 0
          /\ got'[r] = <<>> /\ repoch'[r] = epoch
      BY <2>1 DEF Open, TypeOK
    <3>2. Len(got'[r]) = 0 /\ Len(log) \in Nat /\ epoch \in Nat
      BY <3>1 DEF TypeOK
    <3>3. StartOf(Len(got'[r]) + 1) = 0
      BY <3>2 DEF StartOf
    <3>4. StartOf(Len(got[r]) + 1)' = 0
      BY <1>6, <3>2 DEF StartOf
    <3>5. QED
      BY <1>6, <3>1, <3>2, <3>4
  <2>2. ASSUME rpc'[r] \in {"idle", "closed", "dead"}, UNCHANGED <<got, repoch>>,
               rpc'[r] = "idle" => rpc[r] \in {"idle", "parse"} /\ read_pos'[r] = read_pos[r]
        PROVE  At(r)'
    BY <1>5, <1>6, <1>7, <1>8, <2>2
  <2>3. CASE NoNewData(r)
    BY <2>2, <2>3 DEF NoNewData, EndBatch, TypeOK
  <2>4. CASE CorruptedEntry(r)
    BY <2>2, <2>4 DEF CorruptedEntry, EndBatch, TypeOK
  <2>5. CASE Die(r)
    BY <2>2, <2>5 DEF Die, TypeOK
  <2>6. CASE SeeNewData(r)
    <3>1. /\ rpc[r] = "idle" /\ rpc'[r] = "parse" /\ rlim'[r] = write_pos
          /\ read_pos[r] < write_pos
          /\ UNCHANGED <<read_pos, got, repoch>>
      BY <2>6 DEF SeeNewData, TypeOK
    <3>2. write_pos = StartOf(Len(log) + 1) /\ Len(log) \in Nat /\ read_pos[r] \in Nat
      BY DEF RingInv, LogIntact, TypeOK
    <3>3. Len(log) # 0
      BY <3>1, <3>2 DEF StartOf
    <3>4. Len(log) \in 1 .. Len(log)
      BY <3>2, <3>3
    <3>5. QED
      BY <1>5, <1>6, <1>7, <1>8, <3>1, <3>2, <3>4
  <2>7. CASE ReadEntry(r)
    <3>1. /\ rpc[r] = "parse" /\ rpc'[r] = "view" /\ vat'[r] = read_pos[r]
          /\ UNCHANGED <<got, repoch>>
      BY <2>7 DEF ReadEntry, TypeOK
    <3>2. PICK s \in SizesAt(read_pos[r]) : read_pos'[r] = read_pos[r] + s
      BY <2>7 DEF ReadEntry, TypeOK
    <3>3. view'[r] \in HeadersAt(read_pos[r])
      BY <2>7 DEF ReadEntry, TypeOK
    <3>4. ASSUME repoch[r] = epoch, Inside(n)
          PROVE  Aligned(r)'
      <4>1. /\ n + 1 <= Len(log) /\ sized
            /\ read_pos[r] = log[n + 1].at
            /\ Inside(n + 1) => /\ SizesAt(read_pos[r]) = {Size(log[n + 1].upd)}
                                /\ HeadersAt(read_pos[r]) = {log[n + 1].upd}
        BY <1>5, <2>0, <3>1, <3>4, ParseSound
      <4>2. ASSUME Inside(n + 1)
            PROVE  read_pos'[r] = StartOf(n + 2) /\ view'[r] = log[n + 1].upd
        <5>1. s = Size(log[n + 1].upd) /\ view'[r] = log[n + 1].upd
          BY <3>2, <3>3, <4>1, <4>2
        <5>2. StartOf(n + 2) = log[n + 1].at + Size(log[n + 1].upd)
          BY StartOfNext
        <5>3. QED
          BY <3>2, <4>1, <5>1, <5>2
      <4>3. Len(log) \in Nat
        BY DEF TypeOK
      <4>4. QED
        BY <1>6, <1>7, <1>8, <2>0, <3>1, <4>1, <4>2, <4>3
    <3>5. QED
      BY <1>5, <1>6, <1>7, <2>0, <3>1, <3>4
  <2>8. CASE UseView(r)
    <3>1. /\ rpc[r] = "view" /\ rpc'[r] = "idle" /\ UNCHANGED <<read_pos, repoch>>
      BY <2>8 DEF UseView, TypeOK
    <3>2. PICK x \in DataAt(view[r], vat[r]) : got' = [got EXCEPT ![r] = Append(@, x)]
      BY <2>8 DEF UseView
    <3>3. x \in Updates \cup {Torn}
      BY <3>2, DataAtType DEF TypeOK
    <3>4. /\ Len(got'[r]) = n + 1 /\ got'[r][n + 1] = x
          /\ \A k \in 1 .. n : got'[r][k] = got[r][k]
      <4>1. got'[r] = Append(got[r], x) /\ got[r] \in Seq(Updates \cup {Torn})
        BY <3>2 DEF TypeOK
      <4>2. QED
        BY <2>0, <3>3, <4>1
    <3>5. ASSUME repoch[r] = epoch, Inside(n + 1)
          PROVE  /\ sized /\ n + 1 <= Len(log) /\ x = log[n + 1].upd
                 /\ read_pos[r] = StartOf(n + 2)
      <4>1. Inside(n)
        BY <3>5, InsideBelow
      <4>2. /\ sized /\ n + 1 <= Len(log)
            /\ vat[r] = log[n + 1].at
            /\ read_pos[r] = StartOf(n + 2)
            /\ view[r] = log[n + 1].upd
        BY <1>5, <2>0, <3>1, <3>5, <4>1
      <4>3. n + 1 \in 1 .. Len(log)
        BY <4>2 DEF TypeOK
      <4>4. PICK u \in Updates : u = log[n + 1].upd /\ vat[r] \in Nat
        BY <4>2, <4>3, LogEntryType DEF TypeOK
      <4>5. Fits(u, vat[r])
        BY <3>5, <4>2, <4>3, <4>4 DEF Inside
      <4>6. \A k \in 2 .. Size(u) - 1 : mem[vat[r] + k] = [of |-> u, part |-> k]
        <5> SUFFICES ASSUME NEW k \in 2 .. Size(u) - 1
                     PROVE  mem[vat[r] + k] = [of |-> u, part |-> k]
          OBVIOUS
        <5>1. k \in 0 .. Size(u) - 1
          BY SizeType
        <5>2. vat[r] + k \in Offsets
          BY <4>4, <4>5, <5>1, FitsCells
        <5>3. Holds(vat[r], u, 0 .. Size(u) - 1)
          BY <4>2, <4>3, <4>4 DEF RingInv, LogIntact
        <5>4. QED
          BY <5>1, <5>2, <5>3 DEF Holds
      <4>7. u # Torn
        BY <4>4, RingAssumption
      <4>8. DataAt(u, vat[r]) = {u}
        BY <4>5, <4>6, <4>7 DEF DataAt
      <4>9. QED
        BY <3>2, <4>2, <4>4, <4>8
    <3>6. repoch[r] = epoch => Given(r)'
      <4> SUFFICES ASSUME repoch[r] = epoch, NEW k \in 1 .. n + 1, Inside(k)
                   PROVE  k <= Len(log) /\ got'[r][k] = log[k].upd
        BY <1>6, <1>7, <3>4
      <4>1. CASE k = n + 1
        BY <3>4, <3>5, <4>1
      <4>2. CASE k \in 1 .. n
        BY <1>5, <2>0, <3>4, <4>2
      <4>3. QED
        BY <4>1, <4>2
    <3>7. repoch[r] = epoch /\ Inside(n + 1) => Aligned(r)'
      BY <1>6, <1>7, <1>8, <3>1, <3>4, <3>5
    <3>8. QED
      BY <1>5, <1>6, <1>7, <3>1, <3>4, <3>6, <3>7
  <2>9. QED
    BY <2>1, <2>3, <2>4, <2>5, <2>6, <2>7, <2>8 DEF ReaderStep
<1>11. \A q \in Readers : At(q)'
  BY <1>9, <1>10
<1>12. QED
  BY <1>2, <1>3, <1>11 DEF RingInv, ReaderAligned, DeliveredInOrder

----------------------------------------------------------------------------
\* The inductive step.
LEMMA RingStep ==
  ASSUME SingleProducer, TypeOK, TypeOK', RingInv, [Next]_vars
  PROVE  RingInv'
<1>1. ASSUME NEW w \in Writers, NEW u \in Updates, UpdateAccount(w, u)
      PROVE  RingInv'
  <2>1. UNCHANGED <<write_pos, mem, sized, plugin, wpos, todo, reader, hist>>
    BY <1>1 DEF UpdateAccount, ring
  <2>2. WriterAtEnd'
    BY <1>1, <2>1 DEF UpdateAccount, RingInv, WriterAtEnd, SingleProducer, TypeOK
  <2>3. QED
    BY <2>1, <2>2, LayoutKept, ReadersKept DEF RingInv, hist
<1>2. ASSUME NEW w \in Writers, LoadWritePos(w)
      PROVE  RingInv'
  <2>1. UNCHANGED <<write_pos, mem, sized, plugin, wupd, reader, hist>>
    BY <1>2 DEF LoadWritePos, ring
  <2>2. ASSUME wpc'[w] = "copy"
        PROVE  /\ wpos'[w] = write_pos
               /\ todo'[w] = 0 .. Size(wupd[w]) - 1
    BY <1>2, <2>2 DEF LoadWritePos, TypeOK
  <2>3. plugin = "open"
    BY <1>2 DEF LoadWritePos, RingInv, WriterAtEnd
  <2>4. WriterAtEnd'
    BY <2>1, <2>2, <2>3 DEF WriterAtEnd, Holds, SingleProducer
  <2>5. QED
    BY <2>1, <2>4, LayoutKept, ReadersKept DEF RingInv, hist
<1>3. ASSUME NEW w \in Writers, NEW k \in 0 .. Capacity, CopyCell(w, k)
      PROVE  RingInv'
  <2>1. k \in Nat
    BY RingAssumption
  <2>2. LogIntact' /\ WriterAtEnd'
    BY <1>3, <2>1, CopyKeepsLayout
  <2>3. UNCHANGED <<reader, hist, sized>>
    BY <1>3 DEF CopyCell
  <2>4. QED
    BY <2>2, <2>3, ReadersKept DEF RingInv
<1>4. ASSUME NEW w \in Writers, Publish(w)
      PROVE  RingInv'
  BY <1>4, PublishKeepsInv
<1>5. ASSUME NEW w \in Writers, CountEntry(w)
      PROVE  RingInv'
  <2>1. UNCHANGED <<write_pos, mem, sized, plugin, wupd, todo, reader, hist>>
    BY <1>5 DEF CountEntry
  <2>2. \A v \in Writers : wpc'[v] # "copy" /\ (wpc'[v] # "idle" => wpc[v] # "idle")
    BY <1>5 DEF CountEntry, SingleProducer, TypeOK
  <2>3. WriterAtEnd'
    BY <2>1, <2>2 DEF RingInv, WriterAtEnd
  <2>4. QED
    BY <2>1, <2>3, LayoutKept, ReadersKept DEF RingInv, hist
<1>6. CASE Close
  <2>1. UNCHANGED <<write_pos, mem, sized, plugin, writer, reader, hist>>
    BY <1>6 DEF Close
  <2>2. QED
    BY <2>1, LayoutKept, ReadersKept, WritersKept DEF RingInv, writer, hist
<1>11. CASE Crash
  <2>1. UNCHANGED <<write_pos, mem, sized, reader, hist>>
    BY <1>11 DEF Crash
  <2>2. WriterAtEnd'
    BY <1>11 DEF Crash, WriterAtEnd
  <2>3. QED
    BY <2>1, <2>2, LayoutKept, ReadersKept DEF RingInv, hist
<1>7. CASE Truncate
  <2>1. /\ write_pos' = 0 /\ log' = <<>> /\ epoch' = epoch + 1
        /\ repoch' = repoch /\ Len(log') = 0
    BY <1>7 DEF Truncate, reader
  <2>2. LogIntact'
    BY <2>1 DEF LogIntact, StartOf
  <2>3. WriterAtEnd'
    BY <1>7 DEF Truncate, RingInv, WriterAtEnd, writer
  <2>4. \A r \in Readers : repoch'[r] < epoch' /\ repoch'[r] \in Nat /\ epoch' \in Nat
    BY <2>1 DEF RingInv, TypeOK
  <2>5. QED
    BY <2>2, <2>3, <2>4 DEF RingInv, ReaderAligned, DeliveredInOrder
<1>12. CASE SetLen
  <2>1. UNCHANGED <<write_pos, mem, plugin, writer, reader, hist>> /\ sized'
    BY <1>12 DEF SetLen
  <2>2. ReaderAligned' /\ DeliveredInOrder' /\ \A r \in Readers : repoch'[r] <= epoch'
    BY <2>1 DEF RingInv, ReaderAligned, DeliveredInOrder, StartOf, Inside, reader, hist
  <2>3. QED
    BY <2>1, <2>2, LayoutKept, WritersKept DEF RingInv, writer, hist
<1>13. CASE WriteHeader
  <2>1. UNCHANGED <<write_pos, mem, sized, writer, reader, hist>>
    BY <1>13 DEF WriteHeader
  <2>2. WriterAtEnd'
    BY <1>13, <2>1 DEF WriteHeader, RingInv, WriterAtEnd, Holds, writer
  <2>3. QED
    BY <2>1, <2>2, LayoutKept, ReadersKept DEF RingInv, hist
<1>8. ASSUME NEW r \in Readers, ReaderStep(r)
      PROVE  RingInv'
  BY <1>8, ReaderKeepsInv
<1>9. CASE UNCHANGED vars
  <2>1. UNCHANGED <<write_pos, mem, sized, plugin, wpc, wupd, wpos, todo, log, reader, hist>>
    BY <1>9 DEF vars, reader, hist
  <2>2. QED
    BY <2>1, LayoutKept, ReadersKept, WritersKept DEF RingInv
<1>10. QED
  BY <1>1, <1>2, <1>3, <1>4, <1>5, <1>6, <1>7, <1>8, <1>9, <1>11, <1>12, <1>13 DEF Next

LEMMA RingInitially == Init => RingInv
<1> SUFFICES ASSUME Init PROVE RingInv
  OBVIOUS
<1>1. Len(log) = 0 /\ \A r \in Readers : Len(got[r]) = 0
  BY DEF Init
<1>2. LogIntact
  BY <1>1 DEF Init, LogIntact, StartOf
<1>3. ReaderAligned /\ DeliveredInOrder
  BY <1>1 DEF Init, ReaderAligned, DeliveredInOrder, StartOf
<1>4. QED
  BY <1>2, <1>3 DEF Init, RingInv, WriterAtEnd

\* With one producer, every consumer of the current ring gets the published updates
\* that lie within the file whole and in order, however writing, reading, closing,
\* crashing and re-creating the ring interleave: read_next() needs no lock against
\* write().
THEOREM RingDelivery ==
  ASSUME SingleProducer
  PROVE  Spec => []DeliveredInOrder
<1>1. TypeOK /\ TypeOK' /\ RingInv /\ [Next]_vars => RingInv'
  BY RingStep
<1>2. Spec => []RingInv
  BY <1>1, RingInitially, RingTypeCorrect, PTL DEF Spec
<1>3. RingInv => DeliveredInOrder
  BY DEF RingInv
<1>4. QED
  BY <1>2, <1>3, PTL

\* The steps of a reader that a step of the program takes for it.
LEMMA ReaderMoves ==
  ASSUME TypeOK, [Next]_vars, NEW r \in Readers, rpc'[r] # rpc[r]
  PROVE  ReaderStep(r)
<1>1. PICK q \in Readers : ReaderStep(q)
  BY DEF Next, UpdateAccount, LoadWritePos, CopyCell, Publish, CountEntry, Close, Crash,
         Truncate, SetLen, WriteHeader, vars, reader
<1>2. q = r
  BY <1>1 DEF ReaderStep, Open, NoNewData, SeeNewData, CorruptedEntry, ReadEntry, UseView,
              Die, EndBatch, TypeOK
<1>3. QED
  BY <1>1, <1>2

\* With one producer, read_next() neither reports CorruptedEntry to a consumer of the
\* current ring nor kills it, until that consumer is at an entry beyond the file.
THEOREM RingNeverCorrupted ==
  ASSUME SingleProducer
  PROVE  Spec => CorruptedOnlyIfStale
<1> DEFINE Stale == \A r \in Readers :
          \/ rpc[r] = "parse" /\ rpc'[r] \in {"idle", "closed"}
          \/ rpc[r] # "dead" /\ rpc'[r] = "dead"
          => repoch[r] # epoch \/ ~Inside(Len(got[r]) + 1)
<1>1. TypeOK /\ TypeOK' /\ RingInv /\ [Next]_vars => RingInv'
  BY RingStep
<1>2. Spec => []RingInv
  BY <1>1, RingInitially, RingTypeCorrect, PTL DEF Spec
<1>3. TypeOK /\ RingInv /\ [Next]_vars => Stale
  <2> SUFFICES ASSUME TypeOK, RingInv, [Next]_vars, NEW r \in Readers,
                      \/ rpc[r] = "parse" /\ rpc'[r] \in {"idle", "closed"}
                      \/ rpc[r] # "dead" /\ rpc'[r] = "dead",
                      repoch[r] = epoch, Inside(Len(got[r]) + 1)
               PROVE  FALSE
    OBVIOUS
  <2>1. ReaderStep(r)
    BY ReaderMoves
  <2>2. CorruptedEntry(r) \/ Die(r)
    BY <2>1 DEF ReaderStep, Open, NoNewData, SeeNewData, ReadEntry, UseView, EndBatch,
                TypeOK
  <2>3. PICK n \in Nat : n = Len(got[r])
    BY DEF TypeOK
  <2>4. Inside(n)
    BY <2>3, InsideBelow
  <2>5. sized
    BY <2>3, <2>4 DEF RingInv, ReaderAligned
  <2>6. ASSUME rpc[r] = "parse"
        PROVE  /\ SizesAt(read_pos[r]) = {Size(log[n + 1].upd)}
               /\ read_pos[r] + Size(log[n + 1].upd) <= rlim[r]
               /\ {read_pos[r], read_pos[r] + 1} \subseteq Offsets
               /\ n + 1 <= Len(log)
    BY <2>3, <2>4, <2>6, ParseSound
  <2>7. CASE CorruptedEntry(r)
    <3>1. rpc[r] = "parse"
      BY <2>7 DEF CorruptedEntry
    <3>2. n + 1 \in 1 .. Len(log)
      BY <2>6, <3>1 DEF TypeOK
    <3>3. Size(log[n + 1].upd) \in Nat /\ Size(log[n + 1].upd) >= 2
      BY <3>2, LogEntryType DEF TypeOK
    <3>4. read_pos[r] \in Nat /\ rlim[r] \in Nat
      BY DEF TypeOK
    <3>5. QED
      BY <2>6, <2>7, <3>1, <3>3, <3>4 DEF CorruptedEntry
  <2>8. CASE Die(r)
    <3>1. rpc[r] = "view"
      BY <2>5, <2>6, <2>8 DEF Die, Beyond
    <3>2. /\ n + 1 <= Len(log) /\ vat[r] = log[n + 1].at
          /\ view[r] = log[n + 1].upd
      BY <2>3, <2>4, <3>1 DEF RingInv, ReaderAligned
    <3>3. n + 1 \in 1 .. Len(log)
      BY <3>2 DEF TypeOK
    <3>4. Fits(view[r], vat[r]) /\ view[r] \in Updates
      BY <2>3, <3>2, <3>3, LogEntryType DEF Inside, TypeOK
    <3>5. QED
      BY <2>5, <2>8, <3>1, <3>4, RingAssumption DEF Die, Beyond
  <2>9. QED
    BY <2>2, <2>7, <2>8
<1>4. QED
  BY <1>2, <1>3, RingTypeCorrect, PTL DEF Spec, CorruptedOnlyIfStale

=============================================================================
