------------------------------ MODULE MCParts ------------------------------
(* The parts of the index fabric and of its neighbours that share no state   *)
(* with one another, for TLC.  A behaviour exercises one of them, chosen at  *)
(* the start, with a bound of its own on the number of calls.                *)
EXTENDS IndexFabric, QueryResultCache, TieredDictionary, HotColdIndex, AdaptiveIndex,
        MemcmpAccelerator, SharedMemory, RpcServer, SlotTrackers, Merkle, BitmapEngines,
        NumaFabric, TLC

CONSTANTS Parts,                                \* the parts to exercise
          tok, prog, head, mint, tail, h1, h2   \* what accounts hold

VARIABLE part

\* A token account, the same one transferred to another holder, and a short
\* account of another program: an update can move an account within an index,
\* out of an index and back.
Held(h) == [owner |-> tok, len |-> 80, first8 |-> head, first32 |-> mint, holder |-> h]
Small == [owner |-> prog, len |-> 10, first8 |-> tail, first32 |-> None, holder |-> None]
MCContents == {Held(h1), Held(h2), Small}

\* Data of both lengths, which agree and differ in the bytes at their offsets.
Sample(n, b, c) ==
    [len |-> n, field |-> [f \in Fields |-> IF f \in {"Owner", "Custom"} THEN c ELSE b]]
MCSamples == {Sample(64, head, head), Sample(64, head, tail), Sample(96, tail, head)}
MCOffsetLists == {token_program, metaplex_nft, {"Custom"} \cup default_config}

\* Two data, and one that is the hashes of both joined.
MCLeafData == {<<1>>, <<2>>, <<leaf_hash(<<1>>), leaf_hash(<<2>>)>>}

\* Bounds on the calls of the parts that count them in jobs.
JobsOf == [queries |-> 3, dictionary |-> 6, tiers |-> 4, adaptive |-> 4, regions |-> 6,
           rpc |-> 5, trackers |-> 4, numa |-> 5]

rest == <<fabricVars, queryCacheState, dictState, hotColdState,
          adaptiveState, accelState, shmState, rpcState, trackersState, leaves,
          enginesState, numaState, job, jobs>>

MCInit ==
    /\ part \in Parts
    /\ FabricInit /\ QueryCacheInit /\ DictInit /\ HotColdInit /\ AdaptiveInit /\ AccelInit
    /\ ShmInit /\ RpcInit /\ TrackersInit /\ MerkleInit /\ EnginesInit /\ NumaInit
    /\ part # "numa" => policy = "Preferred" /\ preferred_node = 0

Fabric == part = "fabric" /\ FabricNext
    /\ UNCHANGED <<queryCacheState, dictState, hotColdState, adaptiveState,
                   accelState, shmState, rpcState, trackersState, leaves, enginesState,
                   numaState, job, jobs>>
Queries == part = "queries" /\ QueryCacheNext
    /\ UNCHANGED <<fabricVars, dictState, hotColdState, adaptiveState,
                   accelState, shmState, rpcState, trackersState, leaves, enginesState, numaState>>
Dictionary == part = "dictionary" /\ DictNext
    /\ UNCHANGED <<fabricVars, queryCacheState, hotColdState, adaptiveState,
                   accelState, shmState, rpcState, trackersState, leaves, enginesState, numaState>>
Tiers == part = "tiers" /\ HotColdNext
    /\ UNCHANGED <<fabricVars, queryCacheState, dictState, adaptiveState,
                   accelState, shmState, rpcState, trackersState, leaves, enginesState, numaState>>
Adaptive == part = "adaptive" /\ AdaptiveNext
    /\ UNCHANGED <<fabricVars, queryCacheState, dictState, hotColdState,
                   accelState, shmState, rpcState, trackersState, leaves, enginesState, numaState>>
Accelerator == part = "accelerator" /\ AccelNext
    /\ UNCHANGED <<fabricVars, queryCacheState, dictState, hotColdState,
                   adaptiveState, shmState, rpcState, trackersState, leaves, enginesState,
                   numaState, job, jobs>>
Regions == part = "regions" /\ ShmNext
    /\ UNCHANGED <<fabricVars, queryCacheState, dictState, hotColdState,
                   adaptiveState, accelState, rpcState, trackersState, leaves, enginesState,
                   numaState>>
Rpc == part = "rpc" /\ RpcNext
    /\ UNCHANGED <<fabricVars, queryCacheState, dictState, hotColdState,
                   adaptiveState, accelState, shmState, trackersState, leaves, enginesState,
                   numaState>>
Trackers == part = "trackers" /\ TrackersNext
    /\ UNCHANGED <<fabricVars, queryCacheState, dictState, hotColdState,
                   adaptiveState, accelState, shmState, rpcState, leaves, enginesState, numaState>>
Proofs == part = "merkle" /\ MerkleNext
    /\ UNCHANGED <<fabricVars, queryCacheState, dictState, hotColdState,
                   adaptiveState, accelState, shmState, rpcState, trackersState, enginesState,
                   numaState, job, jobs>>
Engines == part = "engines" /\ EnginesNext
    /\ UNCHANGED <<fabricVars, queryCacheState, dictState, hotColdState,
                   adaptiveState, accelState, shmState, rpcState, trackersState, leaves,
                   numaState, job, jobs>>
Store == part = "store" /\ StoreNext
    /\ UNCHANGED <<fabricVars, queryCacheState, dictState, hotColdState,
                   adaptiveState, accelState, shmState, rpcState, trackersState, leaves,
                   numaState, job, jobs>>
Numa == part = "numa" /\ NumaNext
    /\ UNCHANGED <<fabricVars, queryCacheState, dictState, hotColdState,
                   adaptiveState, accelState, shmState, rpcState, trackersState, leaves,
                   enginesState>>

MCNext ==
    /\ \/ Fabric \/ Queries \/ Dictionary \/ Tiers \/ Adaptive
       \/ Accelerator \/ Regions \/ Rpc \/ Trackers \/ Proofs \/ Engines \/ Store
       \/ Numa
    /\ part \in DOMAIN JobsOf => jobs' <= JobsOf[part]
    /\ UNCHANGED part

MCSpec == MCInit /\ [][MCNext]_<<rest, part>>

Symmetry == Permutations(Workers) \cup Permutations(Accounts)
=============================================================================
