------------------------------ MODULE BaseScan ------------------------------
(***************************************************************************)
(* The bootstrap of the base layer: bin/base-scanner.rs lists the account  *)
(* files of the validator, scans them in parallel (account-file-mapper),   *)
(* writes where each account is to the locator and gives each pubkey an id *)
(* in the persistent dictionary (base-locator, redb backend).  The         *)
(* validator adds and removes files meanwhile, the process may be killed   *)
(* at any step, and it may be run again over the databases it left.        *)
(*                                                                         *)
(* The bytes of a file are given as the records that the scan takes them   *)
(* for, each with its stored_size and the room it takes: that of the last  *)
(* one is the rest of the file.  Account data is left out, and with it     *)
(* what depends on it alone.  The two databases are external: a write      *)
(* transaction commits as a whole or not at all.  The individual inserts   *)
(* of a batch, whose errors the code drops, may fail one by one.           *)
(***************************************************************************)
EXTENDS Integers, FiniteSets, SequencesExt, Maps

CONSTANTS Pubkeys,     \* accounts
          U32,         \* number of values of a u32
          Creators,    \* threads that call get_or_create_id()
          Names,       \* file names, <<file_id, version>>
          FileContents,    \* name -> the contents it may have
          MaxIds,      \* bound: ids one process hands out
          MaxScans,    \* bound: processes started
          MaxLost      \* bound: database errors that are dropped

align_to_8(n) == ((n + 7) \div 8) * 8

\* The records are where the scan looks for them: one aligned stored_size after another,
\* up to a record that ends the scan or leaves less than a stored_size behind it.
Delimited(c) ==
    \A j \in 1 .. Len(c) :
        IF j < Len(c)
        THEN c[j].size # 0 /\ c[j].room = align_to_8(c[j].size)
        ELSE c[j].size = 0 \/ c[j].size > c[j].room \/ c[j].room < align_to_8(c[j].size) + 8

ASSUME ScanAssumption ==
    /\ MaxIds \in Nat \ {0} /\ MaxScans \in Nat /\ MaxLost \in Nat
    /\ U32 \in Nat \ {0}
    /\ Names \subseteq Nat \X Nat /\ IsFiniteSet(Names)
    /\ \A n \in Names :
          /\ FileContents[n] \subseteq
                Seq([pubkey : Pubkeys, slot : Nat, size : Nat, room : Nat \ {0}])
          /\ \A c \in FileContents[n] : Delimited(c)

VARIABLES files,        \* the validator's directory: name -> contents
          pc,           \* where the process is
          found,        \* discover_account_files(): the names in scan order
          results,      \* per name: the accounts scan_file() returned
          mmap_files,   \* file_id -> contents of the file mapped last
          locator,      \* LOCATIONS_TABLE: pubkey -> bytes
          table,        \* DICT_TABLE: pubkey -> id
          memory_cache, \* PersistentPubkeyDictionary.memory_cache
          next_dict_id,      \* PersistentPubkeyDictionary.next_id
          scans,        \* number of processes started
          lost,         \* history: number of database errors dropped
          creating,     \* per thread: where it is in get_or_create_id()
          overlapped,   \* history: two such calls overlapped in this process
          created,      \* history: pubkeys of get_or_create_id()
          assigned      \* history: pubkeys the last committing process gave ids

scanVars == <<files, pc, found, results, mmap_files, locator, table, memory_cache,
          next_dict_id, scans, lost, creating, overlapped, created, assigned>>

callState == <<creating, overlapped>>

NoFile == <<>>          \* a name that is not in the directory
NoBytes == <<>>
NoId == -1

-----------------------------------------------------------------------------
(* The account file: appendvec_compat.rs and account_parser.rs.            *)

HeaderSize == 97

padding_needed(n, alignment) == IF n % alignment = 0 THEN 0 ELSE alignment - (n % alignment)

\* Where record i of contents c starts, and how long c is.
Offset(c, i) ==
    LET at[j \in 0 .. Len(c)] == IF j = 0 THEN 0 ELSE at[j - 1] + c[j].room
    IN  at[i - 1]
Length(c) == Offset(c, Len(c) + 1)

\* scan_file() takes record j for a record: its size fits the rest of the file.
Fits(c, j) ==
    /\ Offset(c, j) + 8 <= Length(c)
    /\ c[j].size # 0
    /\ c[j].size <= Length(c) - Offset(c, j)

\* The scan gets as far as record i: it ends at the first record that does not fit.
Reached(c, i) == \A j \in 1 .. i : Fits(c, j)

\* A record too short for its metadata is skipped and the scan goes on.
Parses(r) == r.size >= HeaderSize

StorageType == {"Base", "Delta", "Compacted"}
Locations ==
    [file_id : Nat, offset : Nat, stored_size : Nat, data_offset : Nat, data_len : Nat,
     slot : Nat, write_version : Nat, storage_type : StorageType]

parse_account_record(file_id, offset, r) ==
    [pubkey |-> r.pubkey, slot |-> r.slot,
     location |-> [file_id |-> file_id, offset |-> offset, stored_size |-> r.size % U32,
                   data_offset |-> HeaderSize, data_len |-> (r.size - HeaderSize) % U32,
                   slot |-> r.slot, write_version |-> 0, storage_type |-> "Base"]]

\* What is read of the bytes of a record without parsing all of them, none on an error.
get_account_data_size(r) == IF r.size < HeaderSize THEN {} ELSE {r.size - HeaderSize}
get_account_pubkey(r) == IF r.size < 40 THEN {} ELSE {r.pubkey}

\* validate_account_record() of the n bytes that begin with record r.
validate_account_record(r, n) == n >= 8 /\ r.size <= n

\* AppendVecScanner::scan_file(): the accounts of a file, in file order.
Scanned(file_id, c) ==
    LET push[i \in 0 .. Len(c)] ==
            IF i = 0 THEN <<>>
            ELSE IF Reached(c, i) /\ Parses(c[i])
            THEN Append(push[i - 1], parse_account_record(file_id, Offset(c, i), c[i]))
            ELSE push[i - 1]
    IN  push[Len(c)]

-----------------------------------------------------------------------------
(* The locator's record: rocks_locator.rs.                                 *)

TypeByte == [Base |-> 0, Delta |-> 1, Compacted |-> 2]

serialize_location(l) ==
    <<l.file_id, l.offset, l.stored_size, l.data_offset, l.data_len, l.slot,
      l.write_version, TypeByte[l.storage_type]>>

\* Mutant: two fields are read in the wrong order.
Mdeserialize_location(b) ==
    [file_id |-> b[1], offset |-> b[2], stored_size |-> b[4], data_offset |-> b[3],
     data_len |-> b[5], slot |-> b[6], write_version |-> b[7],
     storage_type |-> CHOOSE t \in StorageType : TypeByte[t] = b[8]]

deserialize_location(b) ==
    [file_id |-> b[1], offset |-> b[2], stored_size |-> b[3], data_offset |-> b[4],
     data_len |-> b[5], slot |-> b[6], write_version |-> b[7],
     storage_type |-> CHOOSE t \in StorageType : TypeByte[t] = b[8]]

\* AccountLocation::is_newer_than(): by slot, then by write_version.
is_newer_than(l, m) ==
    IF l.slot # m.slot THEN l.slot > m.slot ELSE l.write_version > m.write_version

\* The bytes of a record and those of its data, [first, end).
read_range(l) == <<l.offset, l.offset + l.stored_size>>
data_range(l) == <<l.offset + l.data_offset, l.offset + l.data_offset + l.data_len>>

is_valid_location(c, l) == read_range(l)[2] <= Length(c)

\* MmapAccountFile::get_slice() and get_account_data(): the ranges they give, none if
\* out of bounds.
get_slice(c, l) == IF is_valid_location(c, l) THEN {read_range(l)} ELSE {}
get_account_data(c, l) == IF data_range(l)[2] <= Length(c) THEN {data_range(l)} ELSE {}

\* MmapAccountFile::read_bytes(): the whole record behind a location, none if the slice is
\* out of bounds or not all of it.
read_bytes(c, l) ==
    {c[i] : i \in {j \in DOMAIN c : /\ Offset(c, j) = l.offset
                                    /\ c[j].size = l.stored_size
                                    /\ is_valid_location(c, l)}}

\* MmapBatchReader::read_batch() of one location over the files kept by file_id.
read_batch(maps, l) == IF l.file_id \in DOMAIN maps THEN read_bytes(maps[l.file_id], l) ELSE {}

\* AppendVecScanner::get_account_at_offset() does not compare the size with the rest of
\* the file before it slices: it panics where the record is longer.
panics_at_offset(offset, c) ==
    \E j \in DOMAIN c :
        Offset(c, j) = offset /\ offset + 8 <= Length(c) /\ offset + c[j].size > Length(c)

\* The record there, parsed again, none on an error or a panic.
get_account_at_offset(file_id, offset, c) ==
    {parse_account_record(file_id, offset, c[i]) :
        i \in {j \in DOMAIN c : /\ Offset(c, j) = offset /\ offset + 8 <= Length(c)
                                /\ ~panics_at_offset(offset, c) /\ Parses(c[j])}}

\* locate_account(): the first location the file has of pubkey p.
locate_account(file_id, c, p) ==
    LET scanned == Scanned(file_id, c)
        hits == {i \in DOMAIN scanned : scanned[i].pubkey = p}
    IN  {scanned[i].location : i \in {j \in hits : \A k \in hits : j <= k}}

-----------------------------------------------------------------------------
\* PersistentPubkeyDictionary::open() makes a new cache and counter.
NoCall == [pc |-> "idle"]

EmptyDictionary == [cache |-> [p \in Pubkeys |-> NoId], next |-> 0]

ScanInit ==
    /\ files = [n \in Names |-> NoFile]
    /\ pc = "down" /\ found = <<>> /\ results = EmptyMap /\ mmap_files = EmptyMap
    /\ locator = [p \in Pubkeys |-> NoBytes]
    /\ table = [p \in Pubkeys |-> NoId]
    /\ memory_cache = EmptyDictionary.cache /\ next_dict_id = EmptyDictionary.next
    /\ scans = 0
    /\ lost = 0 /\ created = {} /\ assigned = {}
    /\ creating = [t \in Creators |-> NoCall] /\ overlapped = FALSE

\* External: the validator writes a file, or drops one.
AddFile(n) ==
    /\ files[n] = NoFile
    /\ \E c \in FileContents[n] : files' = [files EXCEPT ![n] = c]
    /\ UNCHANGED <<pc, found, results, mmap_files, locator, table, memory_cache,
                   next_dict_id, scans, lost, callState, created, assigned>>

DropFile(n) ==
    /\ files[n] # NoFile
    /\ files' = [files EXCEPT ![n] = NoFile]
    /\ UNCHANGED <<pc, found, results, mmap_files, locator, table, memory_cache,
                   next_dict_id, scans, lost, callState, created, assigned>>

\* The process ends, by itself or killed: what is in memory is gone.
Exit ==
    /\ pc' = "down"
    /\ found' = <<>> /\ results' = EmptyMap /\ mmap_files' = EmptyMap
    /\ memory_cache' = EmptyDictionary.cache /\ next_dict_id' = EmptyDictionary.next
    /\ creating' = [t \in Creators |-> NoCall] /\ overlapped' = FALSE

Crash ==
    /\ pc # "down"
    /\ Exit
    /\ UNCHANGED <<files, locator, table, scans, lost, created, assigned>>

\* Mutant: the files stay in the directory's order.
Mdiscover_account_files == SetToSeqs({n \in Names : files[n] # NoFile})

\* The file names there are, sorted by file_id; names of one file_id stay in the
\* directory's order, which is any.
discover_account_files ==
    {s \in SetToSeqs({n \in Names : files[n] # NoFile}) :
        \A i, j \in DOMAIN s : i < j => s[i][1] <= s[j][1]}

\* scan(): without files it returns an error and main() ends.
Discover ==
    /\ pc = "down" /\ scans < MaxScans
    /\ scans' = scans + 1
    /\ \E s \in discover_account_files :
          IF s = <<>> THEN UNCHANGED <<pc, found>>
                      ELSE pc' = "scan" /\ found' = s
    /\ UNCHANGED <<files, results, mmap_files, locator, table, memory_cache, next_dict_id,
                   lost, callState, created, assigned>>

\* scan_file(), on any thread: map the file, keep the mapping under its file_id, and
\* scan it.  A file that cannot be opened any more is logged and left out.
ScanFile(n) ==
    /\ pc = "scan" /\ n \notin DOMAIN results
    /\ IF files[n] = NoFile
       THEN /\ results' = Put(results, n, <<>>)
            /\ UNCHANGED mmap_files
       ELSE /\ results' = Put(results, n, Scanned(n[1], files[n]))
            /\ mmap_files' = Put(mmap_files, n[1], files[n])
    /\ UNCHANGED <<files, pc, found, locator, table, memory_cache, next_dict_id, scans, lost,
                   callState, created, assigned>>

\* ScanResult.accounts: rayon's collect() keeps the order of the files.
accounts == FlattenSeq([i \in DOMAIN found |-> results[found[i]]])

\* build_base_locator(): the last location of each pubkey scanned.
build_base_locator(batch) ==
    LET map[i \in 0 .. Len(batch)] ==
            IF i = 0 THEN EmptyMap ELSE Put(map[i - 1], batch[i].pubkey, batch[i].location)
    IN  map[Len(batch)]

\* The code drops n more errors of the databases.
Lose(n) == lost + n <= MaxLost /\ lost' = lost + n

Collected == pc = "scan" /\ Range(found) \subseteq DOMAIN results

\* RocksLocator::insert_batch() over the positions whose insert succeeds.
Located(batch, ok) ==
    LET db[i \in 0 .. Len(batch)] ==
            IF i = 0 THEN locator
            ELSE IF i \in ok
            THEN [db[i - 1] EXCEPT ![batch[i].pubkey] = serialize_location(batch[i].location)]
            ELSE db[i - 1]
    IN  db[Len(batch)]

InsertLocations ==
    /\ Collected
    /\ LET batch == accounts IN
       \E ok \in SUBSET DOMAIN batch :
          /\ Lose(Cardinality(DOMAIN batch \ ok))
          /\ locator' = Located(batch, ok)
    /\ pc' = "located"
    /\ UNCHANGED <<files, found, results, mmap_files, table, memory_cache, next_dict_id,
                   scans, callState, created, assigned>>

\* The transaction fails: main() returns the error.
LocatorFails ==
    /\ Collected
    /\ Exit
    /\ UNCHANGED <<files, locator, table, scans, lost, created, assigned>>

\* PubkeyDictionary::insert() gives a new pubkey the next id of its own.
CacheInsert(cache, p) ==
    IF cache[p] # NoId THEN cache
    ELSE [cache EXCEPT ![p] = Cardinality({q \in Pubkeys : cache[q] # NoId})]

\* build_pubkey_dictionary(), over an in-memory dictionary.
build_pubkey_dictionary(batch) ==
    LET dict[i \in 0 .. Len(batch)] ==
            IF i = 0 THEN EmptyDictionary.cache
            ELSE CacheInsert(dict[i - 1], batch[i].pubkey)
    IN  dict[Len(batch)]

\* Mutant: an id is taken for every pubkey of the batch, known or not.
MAssignAlways(d, p, ok) ==
    IF d.cache[p] # NoId THEN [d EXCEPT !.next = d.next + 1]
    ELSE [cache |-> CacheInsert(d.cache, p),
          table |-> IF ok THEN [d.table EXCEPT ![p] = d.next] ELSE d.table,
          next |-> d.next + 1]

\* One pubkey of PersistentPubkeyDictionary::insert_batch(); ok: the insert succeeds.
Assign(d, p, ok) ==
    IF d.cache[p] # NoId THEN d
    ELSE [cache |-> CacheInsert(d.cache, p),
          table |-> IF ok THEN [d.table EXCEPT ![p] = d.next] ELSE d.table,
          next |-> d.next + 1]

Assigned(batch, ok) ==
    LET d[i \in 0 .. Len(batch)] ==
            IF i = 0 THEN [cache |-> memory_cache, table |-> table, next |-> next_dict_id]
            ELSE Assign(d[i - 1], batch[i].pubkey, i \in ok)
    IN  d[Len(batch)]

\* insert_batch() of a dictionary just opened: the cache is empty and the counter 0,
\* whatever the table holds.  main() ignores an error, also that of the commit.
InsertPubkeys ==
    /\ pc = "located"
    /\ LET batch == accounts IN
       \E ok \in SUBSET DOMAIN batch, commits \in BOOLEAN :
          /\ Lose(Cardinality(DOMAIN batch \ ok) + IF commits THEN 0 ELSE 1)
          /\ LET d == Assigned(batch, ok) IN
             /\ memory_cache' = d.cache
             /\ next_dict_id' = d.next
             /\ table' = IF commits THEN d.table ELSE table
             /\ assigned' = IF commits THEN {p \in Pubkeys : d.cache[p] # NoId}
                                       ELSE assigned
    /\ pc' = "done"
    /\ UNCHANGED <<files, found, results, mmap_files, locator, scans, callState, created>>

-----------------------------------------------------------------------------
(* get_or_create_id(): the cache, the table, the counter, the transaction and the cache *)
(* again, one after the other, without a lock over them.                               *)

Calling(t, where) == creating[t].pc = where

GotoCall(t, c) == creating' = [creating EXCEPT ![t] = c]

scanState == <<files, found, results, mmap_files, locator, scans>>

\* A pubkey that is in the cache is answered from it.
MissCache(t, p) ==
    /\ pc = "done" /\ Calling(t, "idle")
    /\ memory_cache[p] = NoId
    /\ GotoCall(t, [pc |-> "table", pubkey |-> p])
    /\ overlapped' = (overlapped \/ \E u \in Creators : ~Calling(u, "idle"))
    /\ UNCHANGED <<scanState, pc, table, memory_cache, next_dict_id, lost, created, assigned>>

ReadTable(t) ==
    /\ Calling(t, "table")
    /\ GotoCall(t, IF table[creating[t].pubkey] # NoId THEN NoCall
                   ELSE [pc |-> "take", pubkey |-> creating[t].pubkey])
    /\ UNCHANGED <<scanState, pc, table, memory_cache, next_dict_id, lost, overlapped,
                   created, assigned>>

TakeId(t) ==
    /\ Calling(t, "take") /\ next_dict_id < MaxIds
    /\ GotoCall(t, [pc |-> "commit", pubkey |-> creating[t].pubkey, id |-> next_dict_id])
    /\ next_dict_id' = next_dict_id + 1
    /\ UNCHANGED <<scanState, pc, table, memory_cache, lost, overlapped, created, assigned>>

\* An error of the insert is dropped, that of the commit is returned.
CommitId(t) ==
    LET p == creating[t].pubkey IN
    /\ Calling(t, "commit")
    /\ \/ /\ table' = [table EXCEPT ![p] = creating[t].id]
          /\ created' = created \cup {p}
          /\ assigned' = assigned \cup {p}
          /\ GotoCall(t, [pc |-> "cache", pubkey |-> p])
          /\ UNCHANGED lost
       \/ /\ Lose(1)
          /\ GotoCall(t, [pc |-> "cache", pubkey |-> p])
          /\ UNCHANGED <<table, created, assigned>>
       \/ /\ Lose(1)
          /\ GotoCall(t, NoCall)
          /\ UNCHANGED <<table, created, assigned>>
    /\ UNCHANGED <<scanState, pc, memory_cache, next_dict_id, overlapped>>

\* PubkeyDictionary::insert() does not know of the id taken: it counts its own entries.
CacheId(t) ==
    /\ Calling(t, "cache")
    /\ memory_cache' = CacheInsert(memory_cache, creating[t].pubkey)
    /\ GotoCall(t, NoCall)
    /\ UNCHANGED <<scanState, pc, table, next_dict_id, lost, overlapped, created, assigned>>

get_or_create_id(t) ==
    \/ \E p \in Pubkeys : MissCache(t, p)
    \/ ReadTable(t) \/ TakeId(t) \/ CommitId(t) \/ CacheId(t)

\* What is asked of the two databases: RocksLocator::get(), and get_id() and get_pubkey()
\* of the dictionary, which asks its cache first.
get(p) == {deserialize_location(b) : b \in {locator[p]} \ {NoBytes}}
get_id(p) == IF memory_cache[p] # NoId THEN memory_cache[p] ELSE table[p]
get_pubkey(id) == {p \in Pubkeys : memory_cache[p] = id}

\* AccountFileScanner::get_mmap_file()
get_mmap_file(file_id) == IF file_id \in DOMAIN mmap_files THEN mmap_files[file_id] ELSE NoFile

Validator == \E n \in Names : AddFile(n) \/ DropFile(n)

ScanNext ==
    \/ Validator
    \/ Crash
    \/ Discover
    \/ \E i \in DOMAIN found : ScanFile(found[i])
    \/ InsertLocations
    \/ LocatorFails
    \/ InsertPubkeys
    \/ \E t \in Creators : get_or_create_id(t)

ScanSpec == ScanInit /\ [][ScanNext]_scanVars

-----------------------------------------------------------------------------
(* Properties.                                                             *)

\* Every result is made of whole records: data_len is a length, and what is scanned is
\* in the listing.
ScanTypeOK ==
    /\ pc \in {"down", "scan", "located", "done"}
    /\ \A n \in Names : files[n] = NoFile \/ files[n] \in FileContents[n]
    /\ DOMAIN results \subseteq Range(found) /\ Range(found) \subseteq Names
    /\ \A n \in DOMAIN results : \A i \in DOMAIN results[n] :
          /\ results[n][i].pubkey \in Pubkeys
          /\ results[n][i].location \in Locations
    /\ table \in [Pubkeys -> {NoId} \cup 0 .. MaxIds + Cardinality(Pubkeys)]
    /\ memory_cache \in [Pubkeys -> {NoId} \cup 0 .. Cardinality(Pubkeys)]

\* The scanned files that hold pubkey p.
Holding(p) == {n \in DOMAIN results : \E i \in DOMAIN results[n] : results[n][i].pubkey = p}

\* The locations of p in scanned file n.
LocationsIn(n, p) ==
    {results[n][i].location : i \in {j \in DOMAIN results[n] : results[n][j].pubkey = p}}

\* The validator's files agree with the order of slots on p: a later file_id holds no
\* older version, no two files have one file_id, and no file holds p twice.
InSlotOrder(p) ==
    /\ \A n \in Holding(p) : Cardinality(LocationsIn(n, p)) = 1
    /\ \A m, n \in Holding(p) : m # n =>
          /\ m[1] # n[1]
          /\ m[1] < n[1] => \A k \in LocationsIn(m, p), l \in LocationsIn(n, p) :
                                ~is_newer_than(k, l)

\* Whatever order the threads scan the files in, no scanned version of an account is newer
\* than the one in the locator, if the files are in slot order; and for what was scanned
\* the locator is the map that build_base_locator() makes of it.
NewestLocated ==
    pc \in {"located", "done"} /\ lost = 0 =>
        /\ \A p \in Pubkeys : InSlotOrder(p) =>
              \A n \in Holding(p) : \A k \in LocationsIn(n, p) :
                  \E l \in get(p) : ~is_newer_than(k, l)
        /\ LET built == build_base_locator(accounts) IN
           \A p \in DOMAIN built : get(p) = {built[p]}

\* What the locator says of a scanned account can be read back from the mapping the scan
\* kept under that file_id, and is that account at that slot, although the validator has
\* removed or replaced files since; the record parsed again and the search of the file say
\* the same, as do the readers of single fields, the account's data lies within the
\* record, the record is valid and padded to where the next one starts, and no read
\* panics.  Of a record whose size does not fit a u32, and of two files of one file_id,
\* which share a mapping, nothing is claimed.
LocatedReadsBack ==
    pc \in {"located", "done"} /\ lost = 0 =>
        \A p \in Pubkeys : Holding(p) # {} => \E l \in get(p) :
            LET c == get_mmap_file(l.file_id)
                from == {n \in DOMAIN results : n[1] = l.file_id}
                whole == \A i \in DOMAIN c : Offset(c, i) = l.offset => c[i].size < U32
            IN  Cardinality(from) = 1 /\ whole =>
                  /\ \E r \in read_batch(mmap_files, l) :
                        /\ r.pubkey = p /\ r.slot = l.slot
                        /\ get_account_pubkey(r) = {p} /\ get_account_data_size(r) = {l.data_len}
                        /\ validate_account_record(r, Length(c) - l.offset)
                        /\ align_to_8(r.size) = l.stored_size + padding_needed(r.size, 8)
                  /\ ~panics_at_offset(l.offset, c)
                  /\ \E a \in get_account_at_offset(l.file_id, l.offset, c) :
                        a.pubkey = p /\ a.location = l
                  /\ \E s \in get_slice(c, l), d \in get_account_data(c, l) :
                        s[1] <= d[1] /\ d[2] <= s[2]
                  /\ \A n \in from : LocationsIn(n, p) = {l} => locate_account(l.file_id, c, p) = {l}

\* As long as no database error was dropped: get_pubkey() leads back from the id that
\* get_id() answers from the cache to the same pubkey; that id is the one in the table,
\* although the two are counted apart, unless calls of get_or_create_id() overlapped; and
\* two pubkeys that one process gave ids share none in the table, also after it has ended,
\* whatever the calls did to one another.  (A pubkey that only an earlier process saw may:
\* the counter starts again.)  What a scan gave an id has a location, wherever the process
\* was killed, and that id is the one build_pubkey_dictionary() would give it.
IdsAgree ==
    lost = 0 =>
        /\ \A p \in Pubkeys : memory_cache[p] # NoId => get_pubkey(get_id(p)) = {p}
        /\ ~overlapped => \A p \in Pubkeys : memory_cache[p] # NoId => get_id(p) = table[p]
        /\ \A p, q \in assigned : table[p] = table[q] => p = q
        /\ \A p \in Pubkeys \ created : table[p] # NoId => locator[p] # NoBytes
        /\ pc = "done" => LET dict == build_pubkey_dictionary(accounts) IN
              \A p \in Pubkeys : dict[p] # NoId => get_id(p) = dict[p]
=============================================================================
