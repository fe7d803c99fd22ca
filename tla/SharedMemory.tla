---------------------------- MODULE SharedMemory ----------------------------
(***************************************************************************)
(* index-fabric/src/shared_memory.rs: memory-mapped files that hand query  *)
(* results from one process to another, and the manager that knows them by *)
(* name.  A thread gets a region from the manager, which looks the name up *)
(* under a read lock and creates the file before it takes the write lock,  *)
(* and then reads and writes through the mapping it was given.             *)
(*                                                                         *)
(* Memory is in cells of 16 bytes.  SharedMemHeader is two u32 and nine    *)
(* u64, 80 bytes, of which a cell is: magic, version and entry_count; two  *)
(* sizes; the time and slot; and twice two reserved words, always 0.  Data *)
(* begins at data_offset, 64, which is the last of these cells.  All calls *)
(* ask for regions of one capacity.                                        *)
(***************************************************************************)
EXTENDS Integers, Sequences, FiniteSets, Maps, Jobs

CONSTANTS RegionNames,    \* names of regions
          Capacity,       \* size of a region, in cells
          Results,        \* what is written into a cell of data
          Counts          \* entry counts and slots given to update_header()

HeaderCells == 5
DataOffset == 4

ASSUME SharedMemoryAssumption ==
    /\ Capacity \in Nat /\ Capacity >= HeaderCells
    /\ 0 \notin Results /\ Counts \subseteq Nat

VARIABLES inodes,      \* the files created so far: sequences of cells
          paths,       \* name -> file now under the name's path
          regions,     \* names the manager has registered
          region,      \* per thread: the region it works on, or NoRegion
          written,     \* history: what was last written to a cell of data of a file
          doubled      \* history: names that two calls created at once

shmState == <<inodes, paths, regions, region, written, doubled>>
shmVars == <<shmState, job, jobs>>

NoRegion == [file |-> 0, header |-> <<>>]

\* A cell has a tag and a value; new files and reserved words hold zeros.
Zero == <<"data", 0>>

\* The cells of SharedMemHeader: SHARED_MEM_MAGIC with the entry count, the
\* sizes, the slot, and the reserved words.
SharedMemHeader(count, slot) ==
    << <<"SHME", count>>, <<"sizes", Capacity>>, <<"slot", slot>>, Zero, Zero >>

ShmInit ==
    /\ inodes = <<>> /\ paths = EmptyMap /\ regions = {}
    /\ region = [t \in Workers |-> NoRegion]
    /\ written = <<>> /\ doubled = {}
    /\ JobsInit

ShmTypeOK ==
    /\ \A n \in DOMAIN paths : n \in RegionNames /\ paths[n] \in DOMAIN inodes
    /\ regions \subseteq RegionNames
    /\ \A t \in Workers : region[t].file \in 0 .. Len(inodes)

\* Cells h written over the beginning of file i.
Overwrite(i, h) ==
    [inodes EXCEPT ![i] = [c \in DOMAIN @ |-> IF c <= HeaderCells THEN h[c] ELSE @[c]]]

MakingRegion(n) == {t \in Workers : job[t].op = "get_region" /\ job[t].pc \in {"create", "insert"}
                                      /\ job[t].name = n}

-----------------------------------------------------------------------------
(* get_or_create_region() *)

GetRegion(t, n) ==
    /\ Begin(t, [op |-> "get_region", pc |-> IF n \in regions THEN "open" ELSE "create",
                 name |-> n])
    /\ doubled' = IF n \notin regions /\ MakingRegion(n) # {} THEN doubled \cup {n} ELSE doubled
    /\ UNCHANGED <<inodes, paths, regions, region, written>>

\* open(): fails when the file is gone or does not begin with the magic number.
OpenRegion(t) ==
    /\ At(t, "get_region", "open")
    /\ LET n == job[t].name IN
       region' = IF n \in DOMAIN paths /\ inodes[paths[n]][1][1] = "SHME"
                   THEN [region EXCEPT ![t] = [file |-> paths[n],
                            header |-> SubSeq(inodes[paths[n]], 1, HeaderCells)]]
                   ELSE region
    /\ Finish(t)
    /\ UNCHANGED <<inodes, paths, regions, written, doubled>>

\* create() truncates a file that is already there, under the regions of others.
CreateRegion(t) ==
    LET n == job[t].name
        i == IF n \in DOMAIN paths THEN paths[n] ELSE Len(inodes) + 1
        header == SharedMemHeader(0, 0)
        cells == [c \in 1 .. Capacity |-> IF c <= HeaderCells THEN header[c] ELSE Zero]
    IN  /\ At(t, "get_region", "create")
        /\ inodes' = IF i \in DOMAIN inodes THEN [inodes EXCEPT ![i] = cells]
                     ELSE Append(inodes, cells)
        /\ written' = IF i \in DOMAIN inodes THEN [written EXCEPT ![i] = EmptyMap]
                      ELSE Append(written, EmptyMap)
        /\ paths' = Put(paths, n, i)
        /\ region' = [region EXCEPT ![t] = [file |-> i, header |-> header]]
        /\ Goto(t, "insert")
        /\ UNCHANGED <<regions, doubled>>

InsertRegion(t) ==
    /\ At(t, "get_region", "insert")
    /\ regions' = regions \cup {job[t].name}
    /\ Finish(t)
    /\ UNCHANGED <<inodes, paths, region, written, doubled>>

\* Mutant of RemoveRegions: the names stay registered.
RemoveFiles(t, names) ==
    /\ job[t].op = "idle" /\ jobs < MaxJobs /\ jobs' = jobs + 1
    /\ paths' = Without(paths, names \cap regions)
    /\ UNCHANGED <<inodes, regions, region, written, doubled, job>>

\* remove_region() and cleanup() hold the write lock throughout.  What is mapped
\* stays mapped.
RemoveRegions(t, names) ==
    /\ job[t].op = "idle" /\ jobs < MaxJobs /\ jobs' = jobs + 1
    /\ paths' = Without(paths, names \cap regions)
    /\ regions' = regions \ names
    /\ UNCHANGED <<inodes, region, written, doubled, job>>

-----------------------------------------------------------------------------
(* SharedMemoryRegion: write_data() and update_header() *)

HasRegion(t) == job[t].op = "idle" /\ region[t] # NoRegion /\ jobs < MaxJobs

WriteData(t, offset, v) ==
    LET i == region[t].file IN
    /\ HasRegion(t)
    /\ DataOffset + offset < Capacity
    /\ inodes' = [inodes EXCEPT ![i][DataOffset + offset + 1] = <<"data", v>>]
    /\ written' = [written EXCEPT ![i] = Put(@, offset, v)]
    /\ jobs' = jobs + 1
    /\ UNCHANGED <<paths, regions, region, doubled, job>>

\* The header of the region, not that of the file, is written with the new values.
UpdateHeader(t, count, slot) ==
    LET i == region[t].file
        h == [region[t].header EXCEPT ![1][2] = count, ![3][2] = slot]
    IN  /\ HasRegion(t)
        /\ region' = [region EXCEPT ![t].header = h]
        /\ inodes' = Overwrite(i, h)
        /\ jobs' = jobs + 1
        /\ UNCHANGED <<paths, regions, written, doubled, job>>

\* A thread drops the region it has.
DropRegion(t) ==
    /\ job[t].op = "idle" /\ region[t] # NoRegion
    /\ region' = [region EXCEPT ![t] = NoRegion]
    /\ UNCHANGED <<inodes, paths, regions, written, doubled, job, jobs>>

ShmNext ==
    \E t \in Workers :
        \/ \E n \in RegionNames : GetRegion(t, n)
        \/ OpenRegion(t) \/ CreateRegion(t) \/ InsertRegion(t)
        \/ \E n \in RegionNames : RemoveRegions(t, {n})
        \/ RemoveRegions(t, RegionNames)
        \/ \E o \in 0 .. Capacity - DataOffset - 1, v \in Results : WriteData(t, o, v)
        \/ \E c, s \in Counts : UpdateHeader(t, c, s)
        \/ DropRegion(t)

ShmSpec == ShmInit /\ [][ShmNext]_shmVars

-----------------------------------------------------------------------------
\* A registered name has a file with a valid header, so that getting the region
\* succeeds, unless two calls created it at once: then a removal between their
\* registrations leaves a name whose file is gone.
RegisteredOpens ==
    \A n \in regions \ doubled :
        n \in DOMAIN paths /\ inodes[paths[n]][1][1] = "SHME"

\* read_data() of a cell of data.
ReadBack(i, o) == inodes[i][DataOffset + o + 1][2]

\* "Header della shared memory (64 bytes)" and data_offset "64, // Header size":
\* the header ends where data begins, so all data stays as it was written.
HeaderApartFromData ==
    \A i \in DOMAIN inodes : \A o \in DOMAIN written[i] : ReadBack(i, o) = written[i][o]
=============================================================================
