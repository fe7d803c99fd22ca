-------------------------- MODULE QueryResultCache --------------------------
(***************************************************************************)
(* index-fabric/src/query_cache.rs: query results in two levels of memory  *)
(* (least recently, least frequently used leaves) and one on disk, whose   *)
(* files outlive the process.  Each level has a lock of its own;           *)
(* insert() and get() take them one after the other, and the file of the   *)
(* third level is written before its lock is taken.                        *)
(*                                                                         *)
(* A result is the number of the call that inserted it.  The slot of an    *)
(* entry is left out: is_invalidated_by_slot() has no caller and           *)
(* invalidate_by_slot() is empty, so nothing depends on it; and so are the *)
(* counters of hits and misses.  A size that is kept next to a map under   *)
(* the map's lock is the size of the map.                                  *)
(***************************************************************************)
EXTENDS Integers, FiniteSets, Maps, Jobs

CONSTANTS QueryKeys,     \* CacheKey
          Ttls,          \* ttl_secs of insert()
          DiskTtl,       \* the TTL of an entry made from a file (3600)
          L1Size,        \* max_size of L1Cache
          L2Size,        \* max_size of L2Cache
          MaxNow,        \* bound: seconds
          MaxFaults      \* bound: restarts of the process and I/O errors

ASSUME QueryCacheAssumption ==
    /\ Ttls \subseteq Nat /\ DiskTtl \in Nat
    /\ L1Size \in Nat \ {0} /\ L2Size \in Nat \ {0}
    /\ MaxNow \in Nat /\ MaxFaults \in Nat

VARIABLES level1, level2,  \* key -> entry
          metadata,        \* L3Cache.metadata: key -> entry
          file,            \* the files in cache_dir: key -> data, or Torn
          now,             \* seconds since the epoch
          faults,          \* number of restarts and I/O errors
          inserted,        \* history: key -> the entry last inserted
          mixed,           \* history: keys with an insert that another call on the
                           \* key overlapped, or that did not reach the disk
          revived          \* history: keys whose file a restart or a failed removal
                           \* left behind since their last insertion

queryCacheState == <<level1, level2, metadata, file, now, faults,
                     inserted, mixed, revived>>
queryCacheVars == <<queryCacheState, job, jobs>>

Torn == 0

QueryCacheTypeOK ==
    /\ \A f \in {level1, level2, metadata, inserted} : DOMAIN f \subseteq QueryKeys
    /\ DOMAIN file \subseteq QueryKeys
    /\ Cardinality(DOMAIN level1) <= L1Size /\ Cardinality(DOMAIN level2) <= L2Size
    /\ now \in 0 .. MaxNow
    /\ mixed \subseteq QueryKeys /\ revived \subseteq QueryKeys

\* new(); files of an earlier process are the business of Restart.
QueryCacheInit ==
    /\ level1 = EmptyMap /\ level2 = EmptyMap /\ metadata = EmptyMap
    /\ file = EmptyMap
    /\ now = 0 /\ faults = 0
    /\ inserted = EmptyMap /\ mixed = {} /\ revived = {}
    /\ JobsInit

CacheEntry(data, ttl) ==
    [data |-> data, created_at |-> now, access_count |-> 0, last_access |-> now,
     ttl_secs |-> ttl]

is_expired(e) == e.ttl_secs = 0 \/ now > e.created_at + e.ttl_secs

access(e) == [e EXCEPT !.access_count = @ + 1, !.last_access = now]

\* The maps insert() may leave: one that is full first gives up an entry of
\* the least rank, whichever of them it meets first, even if the key is there.
Stored(f, size, rank, k, e) ==
    {Put(g, k, e) : g \in IF Cardinality(DOMAIN f) < size THEN {f}
                          ELSE {Drop(f, v) : v \in {x \in DOMAIN f :
                                    \A y \in DOMAIN f : rank[x] <= rank[y]}}}

LastAccess == [k \in DOMAIN level1 |-> level1[k].last_access]
AccessCount == [k \in DOMAIN level2 |-> level2[k].access_count]

StoreL1(k, e) == level1' \in Stored(level1, L1Size, LastAccess, k, e)

\* Mutant of StoreL2: what is there already stays.
StoreL2IfAbsent(k, e) ==
    IF k \in DOMAIN level2 THEN UNCHANGED level2
    ELSE level2' \in Stored(level2, L2Size, AccessCount, k, e)

StoreL2(k, e) == level2' \in Stored(level2, L2Size, AccessCount, k, e)

Upon(op, k) == {t \in Doing(op) : job[t].key = k}

-----------------------------------------------------------------------------
(* insert(): L1, then L2, then the file, then its metadata. *)

InsertResult(t, k, ttl) ==
    LET e == CacheEntry(jobs + 1, ttl) IN
    /\ Begin(t, [op |-> "insert", pc |-> "l1", key |-> k, entry |-> e])
    /\ inserted' = Put(inserted, k, e)
    /\ mixed' = IF Upon("insert", k) \cup Upon("lookup", k) # {}
                  THEN mixed \cup {k} ELSE mixed
    /\ revived' = revived \ {k}
    /\ UNCHANGED <<level1, level2, metadata, file, now, faults>>

InsertL1(t) ==
    /\ At(t, "insert", "l1")
    /\ StoreL1(job[t].key, job[t].entry)
    /\ Goto(t, "l2")
    /\ UNCHANGED <<level2, metadata, file, now, faults, inserted, mixed, revived>>

InsertL2(t) ==
    /\ At(t, "insert", "l2")
    /\ StoreL2(job[t].key, job[t].entry)
    /\ Goto(t, "file")
    /\ UNCHANGED <<level1, metadata, file, now, faults, inserted, mixed, revived>>

\* fs::write() opens the file, which empties it ...
CreateFile(t) ==
    /\ At(t, "insert", "file")
    /\ file' = Put(file, job[t].key, Torn)
    /\ Goto(t, "write")
    /\ UNCHANGED <<level1, level2, metadata, now, faults, inserted, mixed, revived>>

\* ... and writes the data, into nothing if the file was removed meanwhile;
\* two writers of one file may leave a mixture.
WriteFile(t) ==
    LET k == job[t].key
        data == job[t].entry.data
        others == {u \in Upon("insert", k) \ {t} : job[u].pc = "write"}
    IN  /\ At(t, "insert", "write")
        /\ file' \in IF k \notin DOMAIN file THEN {file}
                     ELSE IF others = {} /\ file[k] = Torn THEN {Put(file, k, data)}
                     ELSE {file, Put(file, k, data), Put(file, k, Torn)}
        /\ Goto(t, "meta")
        /\ UNCHANGED <<level1, level2, metadata, now, faults, inserted,
                       mixed, revived>>

\* An I/O error ends the call, and insert() drops it.
FileFails(t) ==
    /\ At(t, "insert", "file") \/ At(t, "insert", "write")
    /\ faults < MaxFaults /\ faults' = faults + 1
    /\ mixed' = mixed \cup {job[t].key}
    /\ Finish(t)
    /\ UNCHANGED <<level1, level2, metadata, file, now, inserted, revived>>

InsertMetadata(t) ==
    /\ At(t, "insert", "meta")
    /\ metadata' = Put(metadata, job[t].key, job[t].entry)
    /\ Finish(t)
    /\ UNCHANGED <<level1, level2, file, now, faults, inserted, mixed, revived>>

-----------------------------------------------------------------------------
(* get(): L1, then L2, then L3; a hit is promoted by one level. *)

GetResult(t, k) ==
    /\ Begin(t, [op |-> "lookup", pc |-> "l1", key |-> k])
    /\ mixed' = IF Upon("insert", k) # {} THEN mixed \cup {k} ELSE mixed
    /\ UNCHANGED <<level1, level2, metadata, file, now, faults,
                   inserted, revived>>

\* The outcome of get() on the map f of a level: an expired entry goes.
Miss(f, k) == k \notin DOMAIN f \/ is_expired(f[k])
Looked(f, k) ==
    IF k \notin DOMAIN f THEN f
    ELSE IF is_expired(f[k]) THEN Drop(f, k) ELSE Put(f, k, access(f[k]))

\* Goes on to promote the entry that was found.
Promote(t, pc, e) ==
    /\ job' = [job EXCEPT ![t] = [op |-> "lookup", pc |-> pc, key |-> job[t].key,
                                  entry |-> e]]
    /\ UNCHANGED jobs

GetL1(t) ==
    /\ At(t, "lookup", "l1")
    /\ level1' = Looked(level1, job[t].key)
    /\ IF Miss(level1, job[t].key) THEN Goto(t, "l2") ELSE Finish(t)
    /\ UNCHANGED <<level2, metadata, file, now, faults, inserted, mixed, revived>>

GetL2(t) ==
    LET k == job[t].key IN
    /\ At(t, "lookup", "l2")
    /\ level2' = Looked(level2, k)
    /\ IF Miss(level2, k) THEN Goto(t, "l3") ELSE Promote(t, "promote1", level2'[k])
    /\ UNCHANGED <<level1, metadata, file, now, faults, inserted, mixed, revived>>

PromoteToL1(t) ==
    /\ At(t, "lookup", "promote1")
    /\ StoreL1(job[t].key, job[t].entry)
    /\ Finish(t)
    /\ UNCHANGED <<level2, metadata, file, now, faults, inserted, mixed, revived>>

\* Mutant of GetL3: an expired entry leaves its file behind.
GetL3KeepsFile(t) ==
    LET k == job[t].key IN
    /\ At(t, "lookup", "l3")
    /\ IF k \in DOMAIN metadata
         THEN /\ metadata' = Looked(metadata, k)
              /\ IF Miss(metadata, k) THEN Finish(t) ELSE Promote(t, "promote2", metadata'[k])
         ELSE IF k \in DOMAIN file
         THEN LET e == CacheEntry(file[k], DiskTtl) IN
              metadata' = Put(metadata, k, e) /\ Promote(t, "promote2", e)
         ELSE UNCHANGED metadata /\ Finish(t)
    /\ UNCHANGED <<level1, level2, file, now, faults, inserted, mixed, revived>>

\* The disk is read under the lock of the metadata; a file without metadata
\* becomes an entry with a new life.
GetL3(t) ==
    LET k == job[t].key IN
    /\ At(t, "lookup", "l3")
    /\ \/ /\ k \in DOMAIN metadata
          /\ metadata' = Looked(metadata, k)
          /\ IF Miss(metadata, k)
               THEN file' = Drop(file, k) /\ Finish(t)
               ELSE UNCHANGED file /\ Promote(t, "promote2", metadata'[k])
       \/ /\ k \in DOMAIN file \ DOMAIN metadata
          /\ LET e == CacheEntry(file[k], DiskTtl) IN
             metadata' = Put(metadata, k, e) /\ Promote(t, "promote2", e)
          /\ UNCHANGED file
       \/ /\ k \notin DOMAIN file \cup DOMAIN metadata
          /\ Finish(t)
          /\ UNCHANGED <<metadata, file>>
    /\ UNCHANGED <<level1, level2, now, faults, inserted, mixed, revived>>

\* Errors that get() drops: an expired file cannot be removed, and stays there without
\* metadata; or a file cannot be read, and passes for none.
GetL3Fails(t) ==
    LET k == job[t].key IN
    /\ At(t, "lookup", "l3") /\ k \in DOMAIN file
    /\ faults < MaxFaults /\ faults' = faults + 1
    /\ \/ /\ k \in DOMAIN metadata /\ is_expired(metadata[k])
          /\ metadata' = Drop(metadata, k)
          /\ revived' = revived \cup {k}
       \/ k \notin DOMAIN metadata /\ UNCHANGED <<metadata, revived>>
    /\ Finish(t)
    /\ UNCHANGED <<level1, level2, file, now, inserted, mixed>>

PromoteToL2(t) ==
    /\ At(t, "lookup", "promote2")
    /\ StoreL2(job[t].key, job[t].entry)
    /\ Finish(t)
    /\ UNCHANGED <<level1, metadata, file, now, faults, inserted, mixed, revived>>

-----------------------------------------------------------------------------
NextSecond ==
    /\ now < MaxNow /\ now' = now + 1
    /\ UNCHANGED <<level1, level2, metadata, file, faults, inserted, mixed,
                   revived, job, jobs>>

\* The process dies and a new one opens the same directory.
Restart ==
    /\ faults < MaxFaults /\ faults' = faults + 1
    /\ level1' = EmptyMap /\ level2' = EmptyMap /\ metadata' = EmptyMap
    /\ job' = [t \in Workers |-> NoJob]
    /\ mixed' = mixed \cup {job[t].key : t \in Doing("insert")}
    /\ revived' = revived \cup DOMAIN file
    /\ UNCHANGED <<file, now, inserted, jobs>>

QueryCacheStep(t) ==
    \/ InsertL1(t) \/ InsertL2(t) \/ CreateFile(t) \/ WriteFile(t) \/ FileFails(t)
    \/ InsertMetadata(t)
    \/ GetL1(t) \/ GetL2(t) \/ PromoteToL1(t) \/ GetL3(t) \/ GetL3Fails(t)
    \/ PromoteToL2(t)

QueryCacheNext ==
    \/ \E t \in Workers :
         \/ \E k \in QueryKeys, ttl \in Ttls : InsertResult(t, k, ttl)
         \/ \E k \in QueryKeys : GetResult(t, k)
         \/ QueryCacheStep(t)
    \/ NextSecond \/ Restart

QueryCacheSpec == QueryCacheInit /\ [][QueryCacheNext]_queryCacheVars

-----------------------------------------------------------------------------
Levels == {level1, level2, metadata}

\* Whatever is evicted, promoted, expires or comes back from disk after a
\* restart, every level that knows a key holds the result inserted last, whole:
\* get() serves an older or a torn one only if a call on the key overlapped its
\* insertion or the insertion did not reach the disk.
LevelsHoldLatest ==
    \A k \in QueryKeys \ mixed : Upon("insert", k) = {} =>
        /\ \A f \in Levels : k \in DOMAIN f => f[k].data = inserted[k].data
        /\ k \in DOMAIN file => file[k] = inserted[k].data

\* A result past its TTL is served again only if its file was left without its
\* metadata, by a restart or by a removal that failed, whose error get() drops:
\* the next lookup gives such a file an hour of its own.  Whatever is promoted,
\* evicted or looked up otherwise prolongs no life, and an insertion over a file
\* left behind has the life it was given.
ExpiredStaysExpired ==
    \A k \in DOMAIN inserted \ (mixed \cup revived) :
        Upon("insert", k) = {} /\ is_expired(inserted[k]) =>
            \A f \in Levels : k \in DOMAIN f => is_expired(f[k])
=============================================================================
