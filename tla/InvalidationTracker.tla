------------------------ MODULE InvalidationTracker ------------------------
(***************************************************************************)
(* cache-plane/src/invalidation.rs: materialized query results and the two *)
(* maps that say which of them a changed account invalidates.  The three   *)
(* maps have a lock each.  register_query() and clear() take them one      *)
(* after the other, invalidate_for_pubkeys() reads the affected queries    *)
(* first and takes all three locks later, so calls interleave in between.  *)
(* No call waits for a lock while another one holds a later one: the three *)
(* locks of an invalidation are one step.                                  *)
(*                                                                         *)
(* A thread materializes a query (it reads the accounts, registers the     *)
(* query and only then caches the result), changes accounts and then       *)
(* invalidates what depends on them, or clears everything.                 *)
(***************************************************************************)
EXTENDS Integers, FiniteSets, Maps, Jobs, AccountVersions

CONSTANTS Hashes        \* query hashes

VARIABLES query_pubkeys,       \* query_hash -> pubkeys
          pubkey_queries,      \* pubkey -> query hashes
          materialized_cache,  \* query_hash -> versions its result was read from
          ever,                \* history: pubkeys a query was ever registered for
          crossed              \* history: queries a call that concerns them ran
                               \* into while they were materialized

trackerState == <<query_pubkeys, pubkey_queries, materialized_cache, ever, crossed>>
trackerVars == <<trackerState, job, jobs, version>>

TrackerTypeOK ==
    /\ query_pubkeys \in UNION {[H -> SUBSET Pubkeys] : H \in SUBSET Hashes}
    /\ pubkey_queries \in
         UNION {[P -> SUBSET Hashes \ {{}}] : P \in SUBSET Pubkeys}
    /\ DOMAIN materialized_cache \subseteq Hashes
    /\ \A t \in Workers : job[t].op \in {"idle", "materialize", "change", "clear"}
    /\ ever \in [Hashes -> SUBSET Pubkeys]
    /\ crossed \in SUBSET Hashes

TrackerInit ==
    /\ query_pubkeys = EmptyMap
    /\ pubkey_queries = EmptyMap
    /\ materialized_cache = EmptyMap
    /\ VersionInit /\ JobsInit
    /\ ever = [h \in Hashes |-> {}]
    /\ crossed = {}

-----------------------------------------------------------------------------
\* A query is answered from the accounts as they are now.
Materialize(t, h, S) ==
    /\ Begin(t, [op |-> "materialize", pc |-> "query", hashes |-> {h},
                 pubkeys |-> S, read |-> [p \in S |-> version[p]]])
    /\ ever' = [ever EXCEPT ![h] = @ \cup S]
    /\ crossed' =
         IF \/ Doing("clear") # {}
            \/ \E u \in Doing("materialize") : h \in job[u].hashes
            \/ \E u \in Doing("change") : job[u].pubkeys \cap (ever[h] \cup S) # {}
           THEN crossed \cup {h} ELSE crossed
    /\ UNCHANGED <<query_pubkeys, pubkey_queries, materialized_cache, version>>

\* register_query(), first map: replaces what the query was registered for.
RegisterQuery(t) ==
    /\ At(t, "materialize", "query")
    /\ query_pubkeys' = [h \in DOMAIN query_pubkeys \cup job[t].hashes |->
                            IF h \in job[t].hashes THEN job[t].pubkeys
                                                    ELSE query_pubkeys[h]]
    /\ Goto(t, "pubkeys")
    /\ UNCHANGED <<pubkey_queries, materialized_cache, version, jobs, ever, crossed>>

QueriesOf(p) == IF p \in DOMAIN pubkey_queries THEN pubkey_queries[p] ELSE {}

\* Mutant of RegisterPubkeys: the query takes the place of the others.
RegisterPubkeysReplaces(t) ==
    /\ At(t, "materialize", "pubkeys")
    /\ pubkey_queries' = [p \in DOMAIN pubkey_queries \cup job[t].pubkeys |->
                            IF p \in job[t].pubkeys THEN job[t].hashes
                                                     ELSE pubkey_queries[p]]
    /\ Goto(t, "cache")
    /\ UNCHANGED <<query_pubkeys, materialized_cache, version, jobs, ever, crossed>>

\* register_query(), second map: adds to what is there.
RegisterPubkeys(t) ==
    /\ At(t, "materialize", "pubkeys")
    /\ pubkey_queries' = [p \in DOMAIN pubkey_queries \cup job[t].pubkeys |->
                            IF p \in job[t].pubkeys
                              THEN QueriesOf(p) \cup job[t].hashes
                              ELSE pubkey_queries[p]]
    /\ Goto(t, "cache")
    /\ UNCHANGED <<query_pubkeys, materialized_cache, version, jobs, ever, crossed>>

\* cache_materialized_result()
CacheMaterializedResult(t) ==
    /\ At(t, "materialize", "cache")
    /\ materialized_cache' =
         [h \in DOMAIN materialized_cache \cup job[t].hashes |->
             IF h \in job[t].hashes THEN job[t].read ELSE materialized_cache[h]]
    /\ Finish(t)
    /\ UNCHANGED <<query_pubkeys, pubkey_queries, version, jobs, ever, crossed>>

-----------------------------------------------------------------------------
\* Accounts change, and the thread that changed them calls
\* invalidate_for_pubkeys().
ChangeAffecting(t, P) ==
    /\ Begin(t, [op |-> "change", pc |-> "affected", hashes |-> {},
                 pubkeys |-> P])
    /\ ChangeAccounts(P)
    /\ crossed' = crossed \cup
         UNION {{h \in job[u].hashes : ever[h] \cap P # {}} : u \in Doing("materialize")}
    /\ UNCHANGED <<query_pubkeys, pubkey_queries, materialized_cache, ever>>

\* Mutant of GetAffectedQueriesBatch: only queries that all of the changed
\* accounts affect.
AffectedByAll(t) ==
    /\ At(t, "change", "affected")
    /\ job' = [job EXCEPT ![t].pc = "invalidate",
                            ![t].hashes = {h \in Hashes :
                                \A p \in job[t].pubkeys : h \in QueriesOf(p)}]
    /\ UNCHANGED <<query_pubkeys, pubkey_queries, materialized_cache, version,
                   jobs, ever, crossed>>

\* get_affected_queries_batch(), under the read lock of one map.
GetAffectedQueriesBatch(t) ==
    /\ At(t, "change", "affected")
    /\ job' = [job EXCEPT ![t].pc = "invalidate",
                            ![t].hashes = UNION {QueriesOf(p) : p \in job[t].pubkeys}]
    /\ UNCHANGED <<query_pubkeys, pubkey_queries, materialized_cache, version,
                   jobs, ever, crossed>>

\* What is left of a pubkey's queries once the hashes in H are invalidated:
\* a query leaves the sets of the pubkeys it is registered for now.
Remaining(p, H) ==
    QueriesOf(p) \ {h \in H \cap DOMAIN query_pubkeys : p \in query_pubkeys[h]}

\* The rest of invalidate_for_pubkeys(), under all three locks.
InvalidateForPubkeys(t) ==
    /\ At(t, "change", "invalidate")
    /\ materialized_cache' = Without(materialized_cache, job[t].hashes)
    /\ query_pubkeys' = Without(query_pubkeys, job[t].hashes)
    /\ pubkey_queries' =
         [p \in {q \in DOMAIN pubkey_queries : Remaining(q, job[t].hashes) # {}} |->
             Remaining(p, job[t].hashes)]
    /\ Finish(t)
    /\ UNCHANGED <<version, jobs, ever, crossed>>

-----------------------------------------------------------------------------
\* clear(): one map after the other.
ClearTracker(t) ==
    /\ Begin(t, [op |-> "clear", pc |-> "query"])
    /\ crossed' = crossed \cup UNION {job[u].hashes : u \in Doing("materialize")}
    /\ UNCHANGED <<query_pubkeys, pubkey_queries, materialized_cache, version, ever>>

ClearQueries(t) ==
    /\ At(t, "clear", "query")
    /\ query_pubkeys' = EmptyMap
    /\ Goto(t, "pubkeys")
    /\ UNCHANGED <<pubkey_queries, materialized_cache, version, jobs, ever, crossed>>

ClearPubkeys(t) ==
    /\ At(t, "clear", "pubkeys")
    /\ pubkey_queries' = EmptyMap
    /\ Goto(t, "cache")
    /\ UNCHANGED <<query_pubkeys, materialized_cache, version, jobs, ever, crossed>>

ClearCache(t) ==
    /\ At(t, "clear", "cache")
    /\ materialized_cache' = EmptyMap
    /\ Finish(t)
    /\ UNCHANGED <<query_pubkeys, pubkey_queries, version, jobs, ever, crossed>>

TrackerStep(t) ==
    \/ RegisterQuery(t) \/ RegisterPubkeys(t) \/ CacheMaterializedResult(t)
    \/ GetAffectedQueriesBatch(t) \/ InvalidateForPubkeys(t)
    \/ ClearQueries(t) \/ ClearPubkeys(t) \/ ClearCache(t)

TrackerNext ==
    \E t \in Workers :
        \/ \E h \in Hashes, S \in SUBSET Pubkeys : Materialize(t, h, S)
        \/ \E P \in SUBSET Pubkeys \ {{}} : ChangeAffecting(t, P)
        \/ ClearTracker(t)
        \/ TrackerStep(t)

TrackerSpec == TrackerInit /\ [][TrackerNext]_trackerVars

-----------------------------------------------------------------------------
\* A call that is at work on the entries of query h.
Busy(h) ==
    \/ Doing("clear") # {}
    \/ \E t \in Doing("materialize") : h \in job[t].hashes
    \/ \E t \in Doing("change") : job[t].pubkeys \cap ever[h] # {}

\* At rest a cached result that was materialized undisturbed is registered for
\* all the accounts it was read from, and a registered query can be found from
\* each of its pubkeys: the next change of any of them reaches the result.
\* Registering it again for other pubkeys and invalidating its neighbours do
\* not break that.
CachedIsTracked ==
    \A h \in Hashes \ crossed : ~Busy(h) =>
        /\ h \in DOMAIN materialized_cache =>
              /\ h \in DOMAIN query_pubkeys
              /\ DOMAIN materialized_cache[h] \subseteq query_pubkeys[h]
        /\ h \in DOMAIN query_pubkeys =>
              \A p \in query_pubkeys[h] : h \in QueriesOf(p)

Stale(h) ==
    /\ h \in DOMAIN materialized_cache
    /\ \E p \in DOMAIN materialized_cache[h] : materialized_cache[h][p] # version[p]

\* A cached result is stale only while a call that will remove it is under
\* way, unless a change or a clear ran into its materialization.
FreshUnlessOverlapped ==
    \A h \in Hashes \ crossed : Stale(h) => Busy(h)
=============================================================================
