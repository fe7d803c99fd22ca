----------------------------- MODULE RingBuffer -----------------------------
(***************************************************************************)
(* geyser-bridge/src/ring_buffer.rs and the plugin of geyser-bridge/src/   *)
(* lib.rs: Geyser callbacks append account updates to a shared-memory      *)
(* file, and consumers in another process read them back through a mapping *)
(* of their own.  The file is never wrapped: it fills up and stays full.   *)
(*                                                                         *)
(* The file is a row of cells: its header and, behind that, the entries.   *)
(* An update takes one cell for the size word, one for the rest of its     *)
(* RingEntry and one per unit of data, copied in any order.  A cell is     *)
(* what the program reads back: the part of an update it holds, or Zero.   *)
(* The space check forgets that the header is part of the file, so an      *)
(* entry can reach beyond its end: what is stored there is lost or kills   *)
(* the process, and what is read from there is anything, or kills it too.  *)
(***************************************************************************)
EXTENDS Integers, Sequences

CONSTANTS
    Updates,      \* account updates handed to update_account()
    DataLen,      \* data.len() of each, in cells
    Writers,      \* validator threads that call update_account()
    Readers,      \* consumers
    Capacity,     \* create(path, capacity): the size of the file, in cells
    Header,       \* the part of it that is its header: 128 bytes, in cells
    MaxEpoch,     \* bound: how often the ring is created
    Zero,         \* a cell nobody wrote since the file was truncated
    Torn          \* a delivered entry that is no update

ASSUME RingAssumption ==
    /\ DataLen \in [Updates -> Nat]
    /\ Capacity \in Nat /\ Header \in 0 .. Capacity
    /\ MaxEpoch \in Nat
    /\ Torn \notin Updates
    /\ Zero \notin [of : Updates, part : Nat]

VARIABLES
    state,        \* header.state
    write_pos,    \* header.write_pos
    entry_count,  \* header.entry_count
    mem,          \* the cells of the file behind the header
    sized,        \* whether the file has its length; it is empty otherwise
    plugin,       \* whether the plugin has a ring, creates one, or has none
    wpc, wupd,    \* where each writer is in write(), and with which update
    wpos, todo,   \* the write_pos it loaded, the cells it has yet to copy (locals are 0 or
                  \* Torn while they hold nothing)
    pollers,      \* the consumers that reopen the ring for each batch (never changes)
    rpc,          \* where each reader is in read_next()
    read_pos,     \* its private read_pos
    rlim,         \* the write_pos it loaded
    vat, view,    \* where the view it holds points, the update its header names
    got,          \* history: what was delivered to it since it opened the ring
    repoch,       \* history: the incarnation of the ring it opened
    epoch,        \* history: the current incarnation
    log           \* history: the updates published in it, with their positions

ring   == <<state, write_pos, entry_count, mem, sized, plugin>>
writer == <<wpc, wupd, wpos, todo>>
reader == <<rpc, read_pos, rlim, vat, view, got, repoch>>
hist   == <<epoch, log, pollers>>
vars   == <<state, write_pos, entry_count, mem, sized, plugin, wpc, wupd, wpos, todo,
            rpc, read_pos, rlim, vat, view, got, repoch, epoch, log, pollers>>

\* The cells behind the header that the file, and so every mapping of it, has.
Offsets == 0 .. Capacity - Header - 1

Cells == [of : Updates, part : Nat] \cup {Zero}

\* size_of::<RingEntry>() + data.len()
Size(u) == 2 + DataLen[u]

TypeOK ==
    /\ state \in {"Uninitialized", "Active", "Stopped"}
    /\ write_pos \in Nat
    /\ entry_count \in Nat
    /\ mem \in [Offsets -> Cells]
    /\ sized \in BOOLEAN
    /\ plugin \in {"none", "creating", "open"}
    /\ wpc \in [Writers -> {"idle", "load", "copy", "count"}]
    /\ wupd \in [Writers -> Updates]
    /\ wpos \in [Writers -> Nat]
    /\ todo \in [Writers -> SUBSET Nat]
    /\ pollers \subseteq Readers
    /\ rpc \in [Readers -> {"closed", "idle", "parse", "view", "dead"}]
    /\ read_pos \in [Readers -> Nat]
    /\ rlim \in [Readers -> Nat]
    /\ vat \in [Readers -> Nat]
    /\ view \in [Readers -> Updates \cup {Torn}]
    /\ got \in [Readers -> Seq(Updates \cup {Torn})]
    /\ repoch \in [Readers -> Nat] /\ epoch \in Nat
    /\ log \in Seq([upd : Updates, at : Nat])

\* create() has run and the consumers have opened the ring.
Init ==
    /\ state = "Active"
    /\ write_pos = 0 /\ entry_count = 0
    /\ mem = [p \in Offsets |-> Zero]
    /\ sized = TRUE /\ plugin = "open"
    /\ wpc = [w \in Writers |-> "idle"]
    /\ wupd \in [Writers -> Updates]
    /\ wpos = [w \in Writers |-> 0]
    /\ todo = [w \in Writers |-> {}]
    /\ pollers \in SUBSET Readers
    /\ rpc = [r \in Readers |-> "idle"]
    /\ read_pos = [r \in Readers |-> 0]
    /\ rlim = [r \in Readers |-> 0]
    /\ vat = [r \in Readers |-> 0]
    /\ view = [r \in Readers |-> Torn]
    /\ got = [r \in Readers |-> <<>>]
    /\ repoch = [r \in Readers |-> 1]
    /\ epoch = 1
    /\ log = <<>>

----------------------------------------------------------------------------
(* update_account() and write().  The plugin holds ring_buffer.read(), which *)
(* other callbacks share, and drops write()'s error.                         *)

UpdateAccount(w, u) ==
    /\ wpc[w] = "idle"
    /\ plugin = "open"
    /\ state = "Active"
    /\ wpc' = [wpc EXCEPT ![w] = "load"]
    /\ wupd' = [wupd EXCEPT ![w] = u]
    /\ UNCHANGED <<ring, wpos, todo, reader, hist>>

\* The position is loaded and the space checked; BufferFull drops the update.
LoadWritePos(w) ==
    /\ wpc[w] = "load"
    /\ IF write_pos + Size(wupd[w]) > Capacity
       THEN wpc' = [wpc EXCEPT ![w] = "idle"] /\ UNCHANGED <<wpos, todo>>
       ELSE /\ wpc' = [wpc EXCEPT ![w] = "copy"]
            /\ wpos' = [wpos EXCEPT ![w] = write_pos]
            /\ todo' = [todo EXCEPT ![w] = 0 .. Size(wupd[w]) - 1]
    /\ UNCHANGED <<ring, wupd, reader, hist>>

\* ptr::write of the RingEntry and copy_nonoverlapping of the data.  A cell beyond
\* the file is no cell of the ring (or Crash ends the process).
CopyCell(w, k) ==
    /\ wpc[w] = "copy"
    /\ k \in todo[w]
    /\ IF wpos[w] + k \in Offsets
       THEN mem' = [mem EXCEPT ![wpos[w] + k] = [of |-> wupd[w], part |-> k]]
       ELSE UNCHANGED mem
    /\ todo' = [todo EXCEPT ![w] = @ \ {k}]
    /\ UNCHANGED <<state, write_pos, entry_count, sized, plugin, wpc, wupd, wpos, reader, hist>>

\* Plausible bug: write_pos is stored before the entry is complete.
MPublish(w) ==
    /\ wpc[w] = "copy"
    /\ write_pos' = wpos[w] + Size(wupd[w])
    /\ wpc' = [wpc EXCEPT ![w] = "count"]
    /\ log' = Append(log, [upd |-> wupd[w], at |-> wpos[w]])
    /\ UNCHANGED <<state, entry_count, mem, sized, plugin, wupd, wpos, todo, reader, epoch, pollers>>

\* write_pos.store(new_pos, Release): readers that see it see the cells.
Publish(w) ==
    /\ wpc[w] = "copy"
    /\ todo[w] = {}
    /\ write_pos' = wpos[w] + Size(wupd[w])
    /\ wpc' = [wpc EXCEPT ![w] = "count"]
    /\ log' = Append(log, [upd |-> wupd[w], at |-> wpos[w]])
    /\ UNCHANGED <<state, entry_count, mem, sized, plugin, wupd, wpos, todo, reader, epoch, pollers>>

CountEntry(w) ==
    /\ wpc[w] = "count"
    /\ entry_count' = entry_count + 1
    /\ wpc' = [wpc EXCEPT ![w] = "idle"]
    /\ wpos' = [wpos EXCEPT ![w] = 0]
    /\ UNCHANGED <<state, write_pos, mem, sized, plugin, wupd, todo, reader, hist>>

\* close(): a write() past its state check still completes.
Close ==
    /\ plugin = "open"
    /\ state' = "Stopped"
    /\ UNCHANGED <<write_pos, entry_count, mem, sized, plugin, writer, reader, hist>>

\* The validator ends at any point, or create() does with an error.
Crash ==
    /\ plugin # "none"
    /\ plugin' = "none"
    /\ wpc' = [w \in Writers |-> "idle"]
    /\ wpos' = [w \in Writers |-> 0]
    /\ todo' = [w \in Writers |-> {}]
    /\ UNCHANGED <<state, write_pos, entry_count, mem, sized, wupd, reader, hist>>

\* create() of the next validator process, on the same file: open() truncates it,
\* which leaves the consumers' mappings without a page, ...
Truncate ==
    /\ plugin = "none" /\ epoch < MaxEpoch
    /\ plugin' = "creating" /\ sized' = FALSE
    /\ epoch' = epoch + 1
    /\ state' = "Uninitialized" /\ write_pos' = 0 /\ entry_count' = 0
    /\ mem' = [p \in Offsets |-> Zero]
    /\ log' = <<>>
    /\ UNCHANGED <<writer, reader, pollers>>

\* ... set_len() gives it zeros ...
SetLen ==
    /\ plugin = "creating" /\ ~sized
    /\ sized' = TRUE
    /\ UNCHANGED <<state, write_pos, entry_count, mem, plugin, writer, reader, hist>>

\* ... and ptr::write its header.
WriteHeader ==
    /\ plugin = "creating" /\ sized
    /\ plugin' = "open"
    /\ state' = "Active"
    /\ UNCHANGED <<write_pos, entry_count, mem, sized, writer, reader, hist>>

----------------------------------------------------------------------------
(* read_next() *)

\* The caller's batch ends with None or an error; a poller drops its reader.
EndBatch(r) == rpc' = [rpc EXCEPT ![r] = IF r \in pollers THEN "closed" ELSE "idle"]

\* Plausible bug: the poller keeps its read position when it opens the ring again.
MOpen(r) ==
    /\ rpc[r] = "closed" /\ sized
    /\ rpc' = [rpc EXCEPT ![r] = "idle"]
    /\ got' = [got EXCEPT ![r] = <<>>]
    /\ repoch' = [repoch EXCEPT ![r] = epoch]
    /\ UNCHANGED <<ring, writer, read_pos, rlim, vat, view, hist>>

\* open() of an empty file fails with InvalidSize, and the poller tries again.
Open(r) ==
    /\ rpc[r] = "closed" /\ sized
    /\ rpc' = [rpc EXCEPT ![r] = "idle"]
    /\ read_pos' = [read_pos EXCEPT ![r] = 0]
    /\ got' = [got EXCEPT ![r] = <<>>]
    /\ repoch' = [repoch EXCEPT ![r] = epoch]
    /\ UNCHANGED <<ring, writer, rlim, vat, view, hist>>

NoNewData(r) ==
    /\ rpc[r] = "idle" /\ sized
    /\ read_pos[r] >= write_pos
    /\ EndBatch(r)
    /\ UNCHANGED <<ring, writer, read_pos, rlim, vat, view, got, repoch, hist>>

\* Plausible bug: the test for new data allows one position too many.
MSeeNewData(r) ==
    /\ rpc[r] = "idle" /\ sized
    /\ read_pos[r] <= write_pos
    /\ rlim' = [rlim EXCEPT ![r] = write_pos]
    /\ rpc' = [rpc EXCEPT ![r] = "parse"]
    /\ UNCHANGED <<ring, writer, read_pos, vat, view, got, repoch, hist>>

\* write_pos.load(Acquire)
SeeNewData(r) ==
    /\ rpc[r] = "idle" /\ sized
    /\ read_pos[r] < write_pos
    /\ rlim' = [rlim EXCEPT ![r] = write_pos]
    /\ rpc' = [rpc EXCEPT ![r] = "parse"]
    /\ UNCHANGED <<ring, writer, read_pos, vat, view, got, repoch, hist>>

\* The u32 a reader finds at p: any value where no entry starts or no file is.
SizesAt(p) ==
    IF p \notin Offsets THEN 0 .. Capacity
    ELSE IF mem[p] = Zero THEN {0}
    ELSE IF mem[p].part = 0 THEN {Size(mem[p].of)}
    ELSE 0 .. Capacity

\* entry.size == 0 || read_pos + entry.size > write_pos
CorruptedEntry(r) ==
    /\ rpc[r] = "parse" /\ sized
    /\ \E s \in SizesAt(read_pos[r]) : s = 0 \/ read_pos[r] + s > rlim[r]
    /\ EndBatch(r)
    /\ rlim' = [rlim EXCEPT ![r] = 0]
    /\ UNCHANGED <<ring, writer, read_pos, vat, view, got, repoch, hist>>

\* The update a RingEntry at p names, when both of its cells agree; beyond the file
\* they may hold anything.
HeadersAt(p) ==
    IF ~({p, p + 1} \subseteq Offsets) THEN Updates \cup {Torn}
    ELSE IF mem[p] # Zero /\ mem[p + 1] # Zero
            /\ mem[p].part = 0 /\ mem[p + 1] = [of |-> mem[p].of, part |-> 1]
    THEN {mem[p].of}
    ELSE {Torn}

\* A view is taken; it points into the mapping.
ReadEntry(r) ==
    /\ rpc[r] = "parse" /\ sized
    /\ \E s \in SizesAt(read_pos[r]) :
          /\ s # 0 /\ read_pos[r] + s <= rlim[r]
          /\ read_pos' = [read_pos EXCEPT ![r] = @ + s]
    /\ vat' = [vat EXCEPT ![r] = read_pos[r]]
    /\ \E u \in HeadersAt(read_pos[r]) : view' = [view EXCEPT ![r] = u]
    /\ rpc' = [rpc EXCEPT ![r] = "view"]
    /\ rlim' = [rlim EXCEPT ![r] = 0]
    /\ UNCHANGED <<ring, writer, got, repoch, hist>>

\* The entry that update u has at position p lies within the file.
Fits(u, p) == p + Size(u) <= Capacity - Header

\* What the data of a view at p of update u turns out to be.
DataAt(u, p) ==
    IF u = Torn THEN {Torn}
    ELSE IF ~Fits(u, p) THEN {u, Torn}
    ELSE IF \A k \in 2 .. Size(u) - 1 : mem[p + k] = [of |-> u, part |-> k] THEN {u}
    ELSE {Torn}

\* The caller reads entry.data through the view.
UseView(r) ==
    /\ rpc[r] = "view" /\ sized
    /\ \E u \in DataAt(view[r], vat[r]) : got' = [got EXCEPT ![r] = Append(@, u)]
    /\ rpc' = [rpc EXCEPT ![r] = "idle"]
    /\ vat' = [vat EXCEPT ![r] = 0] /\ view' = [view EXCEPT ![r] = Torn]
    /\ UNCHANGED <<ring, writer, read_pos, rlim, repoch, hist>>

\* The next access of the mapping may fall beyond the file; a torn view's data_len
\* is anything.
Beyond(r) ==
    \/ ~sized
    \/ rpc[r] = "parse" /\ ~({read_pos[r], read_pos[r] + 1} \subseteq Offsets)
    \/ rpc[r] = "view" /\ ~(view[r] # Torn /\ Fits(view[r], vat[r]))

\* SIGBUS or SIGSEGV: the consumer's process ends.
Die(r) ==
    /\ rpc[r] \in {"idle", "parse", "view"}
    /\ Beyond(r)
    /\ rpc' = [rpc EXCEPT ![r] = "dead"]
    /\ read_pos' = [read_pos EXCEPT ![r] = 0] /\ rlim' = [rlim EXCEPT ![r] = 0]
    /\ vat' = [vat EXCEPT ![r] = 0] /\ view' = [view EXCEPT ![r] = Torn]
    /\ UNCHANGED <<ring, writer, got, repoch, hist>>

ReaderStep(r) ==
    \/ Open(r)
    \/ NoNewData(r)
    \/ SeeNewData(r)
    \/ CorruptedEntry(r)
    \/ ReadEntry(r)
    \/ UseView(r)
    \/ Die(r)

----------------------------------------------------------------------------
Next ==
    \/ \E w \in Writers, u \in Updates : UpdateAccount(w, u)
    \/ \E w \in Writers : LoadWritePos(w)
    \/ \E w \in Writers, k \in 0 .. Capacity : CopyCell(w, k)
    \/ \E w \in Writers : Publish(w)
    \/ \E w \in Writers : CountEntry(w)
    \/ Close
    \/ Crash
    \/ Truncate
    \/ SetLen
    \/ WriteHeader
    \/ \E r \in Readers : ReaderStep(r)

Spec == Init /\ [][Next]_vars

\* The consumer loops run for as long as the process does; nothing blocks them.
FairSpec == Spec /\ \A r \in Readers : WF_vars(ReaderStep(r))

----------------------------------------------------------------------------
(* Properties *)

\* Entry k of the log and those before it lie within the file.
Inside(k) == \A j \in 1 .. Len(log) : j <= k => Fits(log[j].upd, log[j].at)

\* A consumer that opened the current ring has been given the published updates,
\* whole and in order, from the first one on: none skipped, repeated, torn or seen
\* before write_pos covered it (write() against read_next()).  This ends with the
\* first entry that lies beyond the file.
DeliveredInOrder ==
    \A r \in Readers : repoch[r] = epoch =>
        \A k \in 1 .. Len(got[r]) : Inside(k) => k <= Len(log) /\ got[r][k] = log[k].upd

\* read_next() reports CorruptedEntry to a consumer, or kills it, only if the ring was
\* created again since the consumer opened it, or at an entry that lies beyond the file.
CorruptedOnlyIfStale ==
    [][\A r \in Readers :
          \/ rpc[r] = "parse" /\ rpc'[r] \in {"idle", "closed"}
          \/ rpc[r] # "dead" /\ rpc'[r] = "dead"
          => repoch[r] # epoch \/ ~Inside(Len(got[r]) + 1)]_vars

\* What write() stores lies within the file: it was made "with given capacity" in bytes
\* and write() checks "if we have space".
WritesStayInside == \A w \in Writers : wpc[w] = "copy" => Fits(wupd[w], wpos[w])

\* The hypothesis under which the ring keeps these promises.
SingleProducer == \A v, w \in Writers : v = w

\* Where entry k of the log starts; Len(log) + 1 is where the next one will.
StartOf(k) == IF k = 1 THEN 0 ELSE log[k - 1].at + Size(log[k - 1].upd)

\* Cells p of the entry at position at hold update u, as far as there are such cells.
Holds(at, u, parts) ==
    \A k \in parts : at + k \in Offsets => mem[at + k] = [of |-> u, part |-> k]

\* The published entries fill the ring from 0 to write_pos, back to back, intact.
LogIntact ==
    /\ write_pos = StartOf(Len(log) + 1)
    /\ \A k \in 1 .. Len(log) :
          /\ log[k].at = StartOf(k)
          /\ log[k].at + Size(log[k].upd) <= write_pos
          /\ Holds(log[k].at, log[k].upd, 0 .. Size(log[k].upd) - 1)
    /\ \A j, k \in 1 .. Len(log) : j < k => log[j].at + Size(log[j].upd) <= log[k].at

\* The writer in the middle of an entry works right behind write_pos.
WriterAtEnd ==
    \A w \in Writers :
        /\ wpc[w] # "idle" => plugin = "open"
        /\ wpc[w] = "copy" =>
              /\ wpos[w] = write_pos
              /\ todo[w] \subseteq 0 .. Size(wupd[w]) - 1
              /\ Holds(wpos[w], wupd[w], (0 .. Size(wupd[w]) - 1) \ todo[w])

\* A reader of the current ring that has read nothing beyond the file is at the start
\* of the entry it has to read next, and the write_pos it loaded is the end of an entry.
ReaderAligned ==
    \A r \in Readers : repoch[r] = epoch /\ Inside(Len(got[r])) =>
        LET n == Len(got[r])
        IN  /\ sized /\ n <= Len(log)
            /\ rpc[r] \in {"idle", "parse"} => read_pos[r] = StartOf(n + 1)
            /\ rpc[r] = "parse" =>
                  /\ read_pos[r] < rlim[r]
                  /\ \E m \in 1 .. Len(log) : rlim[r] = StartOf(m + 1)
            /\ rpc[r] = "view" =>
                  /\ n + 1 <= Len(log)
                  /\ vat[r] = log[n + 1].at
                  /\ Inside(n + 1) =>
                        read_pos[r] = StartOf(n + 2) /\ view[r] = log[n + 1].upd

\* The inductive invariant behind DeliveredInOrder and CorruptedOnlyIfStale.
RingInv ==
    /\ LogIntact
    /\ WriterAtEnd
    /\ ReaderAligned
    /\ DeliveredInOrder
    /\ \A r \in Readers : repoch[r] <= epoch

\* Whatever lies within the file is eventually delivered to every consumer that opened
\* this ring, and to those that open it again for each batch (the delta consumer) also
\* after a restart of the producer, unless the ring is created again first, or the
\* consumer had the file truncated under its mapping.
ReadersCatchUp ==
    \A r \in Readers, n \in 1 .. Capacity \div 2, e \in 1 .. MaxEpoch :
        (epoch = e /\ (r \in pollers \/ repoch[r] = e) /\ Len(log) >= n /\ Inside(n)) ~>
            \/ epoch # e \/ (repoch[r] = e /\ Len(got[r]) >= n)
            \/ repoch[r] # e /\ rpc[r] = "dead"
=============================================================================
