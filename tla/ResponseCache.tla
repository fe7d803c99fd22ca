---------------------------- MODULE ResponseCache ----------------------------
(***************************************************************************)
(* The two caches of encoded getAccountInfo responses in cache-plane: the  *)
(* L1 hot cache in memory (l1.rs, wrapped by encoded_cache.rs) and the     *)
(* shared one in DragonflyDB (dragonfly.rs).  Readers fill a cache after a *)
(* miss; the thread that changes an account invalidates it in both.        *)
(*                                                                         *)
(* A key is a pubkey and a commitment; the encoding, a third part that is  *)
(* treated like the commitment, is left out, and so are the access tracker *)
(* and the counters, which nothing reads.  A cached response is the        *)
(* version of the account it encodes.  The DragonflyDB server is external: *)
(* it can fail at any command and expires entries by their TTL.            *)
(***************************************************************************)
EXTENDS Integers, FiniteSets, Maps, Jobs, AccountVersions

CONSTANTS Encoded,       \* the accounts clients ask for
          Commitments,   \* commitment levels
          MaxEntries,    \* L1CacheConfig.max_entries
          TtlOf,         \* L1CacheConfig: commitment -> ttl
          DefaultTtl,    \* DragonflyCache.default_ttl_secs
          MaxFaults      \* bound: number of server failures

ASSUME CacheAssumption ==
    /\ Encoded \subseteq Pubkeys
    /\ MaxEntries \in Nat \ {0} /\ DefaultTtl \in Nat \ {0}
    /\ TtlOf \in [Commitments -> Nat]
    /\ MaxFaults \in Nat

Keys == [pubkey : Encoded, commitment : Commitments]
Tiers == {"l1", "l2"}

\* An entry this old is as old as any: past every TTL.
OldAge == 1 + (CHOOSE n \in {TtlOf[c] : c \in Commitments} :
                  \A c \in Commitments : TtlOf[c] <= n)

VARIABLES cache,       \* L1: key -> [version, age]
          l2,          \* DragonflyDB: key -> [version, ttl]
          connection,  \* whether DragonflyCache holds a connection
          server,      \* whether the server answers
          faults,      \* number of server failures
          overlapped,  \* history: <<tier, pubkey>> of fills and changes that met
          lost         \* history: pubkeys whose last invalidation in l2 failed

responseState == <<cache, l2, connection, server, faults, overlapped, lost>>
responseVars == <<responseState, job, jobs, version>>

ResponseTypeOK ==
    /\ DOMAIN cache \subseteq Keys /\ DOMAIN l2 \subseteq Keys
    /\ \A k \in DOMAIN cache : cache[k] \in [version : 0 .. MaxVersion, age : 0 .. OldAge]
    /\ \A k \in DOMAIN l2 : l2[k] \in [version : 0 .. MaxVersion, ttl : 1 .. DefaultTtl]
    /\ connection \in BOOLEAN /\ server \in BOOLEAN
    /\ overlapped \subseteq Tiers \X Encoded /\ lost \subseteq Encoded

ResponseInit ==
    /\ cache = EmptyMap /\ l2 = EmptyMap
    /\ connection = FALSE
    /\ server = TRUE /\ faults = 0
    /\ VersionInit /\ JobsInit
    /\ overlapped = {} /\ lost = {}

Working(op, p) == {t \in Workers : job[t].op = op /\ job[t].pubkey = p}

-----------------------------------------------------------------------------
(***************************************************************************)
(* Fills: get() misses, the response is encoded from the account as it is  *)
(* now and then put into the cache.                                        *)
(***************************************************************************)
\* L1HotCache::get(): an entry is served whatever its age.
GetL1(key) == key \in DOMAIN cache

\* DragonflyCache::get(): without an answer of the server it is a miss.
GetL2(key) == server /\ key \in DOMAIN l2

Get(tier, key) == IF tier = "l1" THEN GetL1(key) ELSE GetL2(key)

Fill(t, tier, key) ==
    /\ ~Get(tier, key)
    /\ Begin(t, [op |-> "fill", tier |-> tier,
                 pc |-> IF tier = "l1" THEN "evict" ELSE "connect",
                 keys |-> {key}, pubkey |-> key.pubkey,
                 version |-> version[key.pubkey]])
    /\ overlapped' = IF Working("invalidate", key.pubkey) # {}
                       THEN overlapped \cup {<<tier, key.pubkey>>} ELSE overlapped
    /\ UNCHANGED <<cache, l2, connection, server, faults, version, lost>>

Expired(k) == cache[k].age > TtlOf[k.commitment]

\* insert(): a full cache first drops what is past its TTL, and nothing else;
\* it may stay full.
EvictStaleEntries(t) ==
    /\ At(t, "fill", "evict")
    /\ cache' = IF Cardinality(DOMAIN cache) >= MaxEntries
                  THEN Without(cache, {k \in DOMAIN cache : Expired(k)})
                  ELSE cache
    /\ Goto(t, "insert")
    /\ UNCHANGED <<l2, connection, server, faults, version, jobs, overlapped, lost>>

\* L1CacheEntry::new()
NewEntry(v) == [version |-> v, age |-> 0]

Insert(t) ==
    /\ At(t, "fill", "insert")
    /\ cache' = [k \in DOMAIN cache \cup job[t].keys |->
                    IF k \in job[t].keys THEN NewEntry(job[t].version) ELSE cache[k]]
    /\ Finish(t)
    /\ UNCHANGED <<l2, connection, server, faults, version, jobs, overlapped, lost>>

(***************************************************************************)
(* DragonflyDB.  Every operation first gets a connection; without one a    *)
(* set is skipped and an invalidation reports success.  ConnectionManager  *)
(* reconnects by itself, so that a held connection is never given up.      *)
(***************************************************************************)
GetConnection(t) ==
    /\ job[t].pc = "connect"
    /\ IF connection \/ server
         THEN /\ connection' = TRUE
              /\ Goto(t, IF job[t].op = "fill" THEN "set" ELSE "scan")
              /\ UNCHANGED lost
         ELSE /\ Finish(t)
              /\ lost' = IF job[t].op = "invalidate" THEN lost \cup {job[t].pubkey} ELSE lost
              /\ UNCHANGED connection
    /\ UNCHANGED <<cache, l2, server, faults, version, jobs, overlapped>>

\* Mutant of Set: the TTL is not sent along.
SetForever(t) ==
    /\ At(t, "fill", "set")
    /\ l2' = [k \in DOMAIN l2 \cup job[t].keys |->
                IF k \in job[t].keys
                  THEN [version |-> job[t].version, ttl |-> 0] ELSE l2[k]]
    /\ Finish(t)
    /\ UNCHANGED <<cache, connection, server, faults, version, jobs, overlapped, lost>>

\* SET key value EX ttl
Set(t) ==
    /\ At(t, "fill", "set")
    /\ l2' = IF server
               THEN [k \in DOMAIN l2 \cup job[t].keys |->
                        IF k \in job[t].keys
                          THEN [version |-> job[t].version, ttl |-> DefaultTtl]
                          ELSE l2[k]]
               ELSE l2
    /\ Finish(t)
    /\ UNCHANGED <<cache, connection, server, faults, version, jobs, overlapped, lost>>

-----------------------------------------------------------------------------
(***************************************************************************)
(* An account changes; the thread that changed it calls invalidate() and   *)
(* then invalidate_pubkey().                                               *)
(***************************************************************************)
ChangeAccount(t, p) ==
    /\ Begin(t, [op |-> "invalidate", pc |-> "collect", keys |-> {}, pubkey |-> p])
    /\ ChangeAccounts({p})
    /\ overlapped' = overlapped \cup {<<job[u].tier, p>> : u \in Working("fill", p)}
    /\ UNCHANGED <<cache, l2, connection, server, faults, lost>>

\* Mutant of CollectKeys: one entry of the account is found.
CollectOne(t) ==
    /\ At(t, "invalidate", "collect")
    /\ LET found == {k \in DOMAIN cache : k.pubkey = job[t].pubkey} IN
       job' = [job EXCEPT ![t].pc = "remove",
                            ![t].keys = IF found = {} THEN {} ELSE {CHOOSE k \in found : TRUE}]
    /\ UNCHANGED <<cache, l2, connection, server, faults, version, jobs, overlapped, lost>>

\* invalidate(): first the keys are collected ...
CollectKeys(t) ==
    /\ At(t, "invalidate", "collect")
    /\ job' = [job EXCEPT ![t].pc = "remove",
                            ![t].keys = {k \in DOMAIN cache : k.pubkey = job[t].pubkey}]
    /\ UNCHANGED <<cache, l2, connection, server, faults, version, jobs, overlapped, lost>>

\* ... and then removed one by one.
RemoveKey(t) ==
    /\ At(t, "invalidate", "remove")
    /\ \/ \E k \in job[t].keys :
            /\ cache' = Without(cache, {k})
            /\ job' = [job EXCEPT ![t].keys = @ \ {k}]
       \/ /\ job[t].keys = {}
          /\ Goto(t, "connect")
          /\ UNCHANGED cache
    /\ UNCHANGED <<l2, connection, server, faults, version, jobs, overlapped, lost>>

\* Mutant of ScanKeys: a failed KEYS counts as no keys found.
ScanIgnoresError(t) ==
    /\ At(t, "invalidate", "scan")
    /\ Finish(t)
    /\ lost' = lost \ {job[t].pubkey}
    /\ UNCHANGED <<cache, l2, connection, server, faults, version, jobs, overlapped>>

\* delete_pattern(): KEYS; nothing to delete, or an error, ends the call ...
ScanKeys(t) ==
    /\ At(t, "invalidate", "scan")
    /\ LET found == {k \in DOMAIN l2 : k.pubkey = job[t].pubkey} IN
       \/ /\ server /\ found # {}
          /\ job' = [job EXCEPT ![t].pc = "del", ![t].keys = found]
          /\ UNCHANGED lost
       \/ /\ server /\ found = {}
          /\ Finish(t)
          /\ lost' = lost \ {job[t].pubkey}
       \/ /\ ~server
          /\ Finish(t)
          /\ lost' = lost \cup {job[t].pubkey}
    /\ UNCHANGED <<cache, l2, connection, server, faults, version, jobs, overlapped>>

\* ... and DEL of the keys that were found.
DelKeys(t) ==
    /\ At(t, "invalidate", "del")
    /\ l2' = IF server THEN Without(l2, job[t].keys) ELSE l2
    /\ lost' = IF server THEN lost \ {job[t].pubkey} ELSE lost \cup {job[t].pubkey}
    /\ Finish(t)
    /\ UNCHANGED <<cache, connection, server, faults, version, jobs, overlapped>>

-----------------------------------------------------------------------------
\* L1HotCache::clear()
Clear ==
    /\ cache' = EmptyMap
    /\ UNCHANGED <<l2, connection, server, faults, version, job, jobs, overlapped, lost>>

\* DragonflyCache::close()
Close ==
    /\ connection' = FALSE
    /\ UNCHANGED <<cache, l2, server, faults, version, job, jobs, overlapped, lost>>

\* Time passes: L1 entries age, DragonflyDB drops what has expired; an entry
\* stored without a TTL (0) would stay.
Tick ==
    /\ cache' = [k \in DOMAIN cache |->
                    [cache[k] EXCEPT !.age = IF @ < OldAge THEN @ + 1 ELSE @]]
    /\ l2' = [k \in {j \in DOMAIN l2 : l2[j].ttl # 1} |->
                [l2[k] EXCEPT !.ttl = IF @ > 1 THEN @ - 1 ELSE @]]
    /\ UNCHANGED <<connection, server, faults, version, job, jobs, overlapped, lost>>

\* The server fails and comes back, with its data.
ServerFails ==
    /\ server /\ faults < MaxFaults
    /\ server' = FALSE /\ faults' = faults + 1
    /\ UNCHANGED <<cache, l2, connection, version, job, jobs, overlapped, lost>>

ServerReturns ==
    /\ ~server /\ server' = TRUE
    /\ UNCHANGED <<cache, l2, connection, faults, version, job, jobs, overlapped, lost>>

ResponseStep(t) ==
    \/ EvictStaleEntries(t) \/ Insert(t) \/ GetConnection(t) \/ Set(t)
    \/ CollectKeys(t) \/ RemoveKey(t) \/ ScanKeys(t) \/ DelKeys(t)

ResponseNext ==
    \/ \E t \in Workers :
         \/ \E tier \in Tiers, key \in Keys : Fill(t, tier, key)
         \/ \E p \in Encoded : ChangeAccount(t, p)
         \/ ResponseStep(t)
    \/ Clear \/ Close \/ Tick \/ ServerFails \/ ServerReturns

ResponseSpec == ResponseInit /\ [][ResponseNext]_responseVars

\* Calls go on and time passes.
ResponseFairness ==
    /\ \A t \in Workers : WF_responseVars(ResponseStep(t))
    /\ WF_responseVars(Tick)

-----------------------------------------------------------------------------
StaleL1(k) == k \in DOMAIN cache /\ cache[k].version # version[k.pubkey]
StaleL2(k) == k \in DOMAIN l2 /\ l2[k].version # version[k.pubkey]

\* The L1 cache serves an old response only while the change of the account
\* is being invalidated, unless a reader filled the entry across a change.
L1FreshUnlessOverlapped ==
    \A k \in Keys : StaleL1(k) =>
        Working("invalidate", k.pubkey) # {} \/ <<"l1", k.pubkey>> \in overlapped

\* For DragonflyDB the same holds if the last invalidation of the account
\* reached the server; a success that delete_pattern() reports without a
\* connection counts as one that did not.
L2FreshUnlessLost ==
    \A k \in Keys : StaleL2(k) =>
        \/ Working("invalidate", k.pubkey) # {}
        \/ <<"l2", k.pubkey>> \in overlapped
        \/ k.pubkey \in lost

\* Whatever was lost or overlapped, an old response leaves DragonflyDB in the
\* end: every entry was stored with a TTL.
L2StaleExpires == \A k \in Keys : StaleL2(k) ~> ~StaleL2(k)
==============================================================================
