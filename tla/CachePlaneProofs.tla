-------------------------- MODULE CachePlaneProofs --------------------------
(* The two parts of cache-plane, for any accounts, queries, keys, TTLs and    *)
(* number of threads: what an invalidation reaches.  And the limiter of the   *)
(* RPC server in front of them, for any clients, limit and clock.  Last, the  *)
(* bitmap that keeps the account ids of an index, for any set of ids, readers *)
(* and compaction threads.                                                    *)
EXTENDS ResponseCache, InvalidationTracker, RpcServer, LsmBitmap, FiniteSetTheorems, TLAPS

----------------------------------------------------------------------------
(* The invalidation tracker. *)

Readings == UNION {[S -> Int] : S \in SUBSET Pubkeys}
MaterializeJobs ==
    [op : {"materialize"}, pc : {"query", "pubkeys", "cache"}, hashes : SUBSET Hashes,
     pubkeys : SUBSET Pubkeys, read : Readings]
ChangeJobs ==
    [op : {"change"}, pc : {"affected", "invalidate"}, hashes : SUBSET Hashes,
     pubkeys : SUBSET Pubkeys]
ClearJobs == [op : {"clear"}, pc : {"query", "pubkeys", "cache"}]
TrackerJobs == {NoJob} \cup MaterializeJobs \cup ChangeJobs \cup ClearJobs

Materializing(t, h) == job[t].op = "materialize" /\ h \in job[t].hashes
Changing(t) == job[t].op = "change"
Clearing(t) == job[t].op = "clear"

\* What the maps and the calls hold for a query are accounts it was registered for.
EverInv ==
    /\ job \in [Workers -> TrackerJobs]
    /\ version \in [Pubkeys -> Int]
    /\ ever \in [Hashes -> SUBSET Pubkeys]
    /\ \A p \in DOMAIN pubkey_queries : pubkey_queries[p] \subseteq Hashes
    /\ \A h \in Hashes :
         /\ \A p \in DOMAIN pubkey_queries : h \in pubkey_queries[p] => p \in ever[h]
         /\ h \in DOMAIN query_pubkeys => query_pubkeys[h] \subseteq ever[h]
         /\ h \in DOMAIN materialized_cache => DOMAIN materialized_cache[h] \subseteq ever[h]
         /\ \A t \in Workers :
              /\ Materializing(t, h) => /\ job[t].hashes = {h}
                                        /\ job[t].pubkeys \subseteq ever[h]
                                        /\ DOMAIN job[t].read = job[t].pubkeys
              /\ Changing(t) /\ h \in job[t].hashes => job[t].pubkeys \cap ever[h] # {}

\* Nothing that concerns h runs beside its materialization.
Alone(h) ==
    \A t \in Workers : Materializing(t, h) =>
        \A u \in Workers : u # t =>
            /\ ~Materializing(u, h) /\ ~Clearing(u)
            /\ Changing(u) => job[u].pubkeys \cap ever[h] = {}

\* The result's accounts are registered, but while the query is materialized again
\* and between the first and the last map of clear() ...
Covered(h) ==
    \/ h \notin DOMAIN materialized_cache
    \/ h \in DOMAIN query_pubkeys /\ DOMAIN materialized_cache[h] \subseteq query_pubkeys[h]
    \/ \E t \in Workers : Materializing(t, h)
    \/ \E t \in Workers : Clearing(t) /\ job[t].pc # "query"

\* ... and lead back to the query, but between the two maps of register_query().
Reached(h) ==
    \/ h \notin DOMAIN query_pubkeys
    \/ \A p \in query_pubkeys[h] : h \in QueriesOf(p)
    \/ \E t \in Workers : Materializing(t, h) /\ job[t].pc = "pubkeys"

\* A call that will remove a result read from an older version of p is under way.
Due(h, p) ==
    \/ \E t \in Workers : Clearing(t) \/ Materializing(t, h)
    \/ \E t \in Workers : /\ Changing(t) /\ p \in job[t].pubkeys
                          /\ job[t].pc = "affected" \/ h \in job[t].hashes

CallsOf(h) ==
    \A t \in Workers :
        /\ Clearing(t) /\ job[t].pc # "query" => h \notin DOMAIN query_pubkeys
        /\ Materializing(t, h) /\ job[t].pc # "query" =>
              h \in DOMAIN query_pubkeys /\ query_pubkeys[h] = job[t].pubkeys
        /\ Materializing(t, h) => \A p \in job[t].pubkeys : job[t].read[p] = version[p]

FreshOrDue(h) ==
    h \in DOMAIN materialized_cache =>
        \A p \in DOMAIN materialized_cache[h] :
            materialized_cache[h][p] = version[p] \/ Due(h, p)

FreshInv ==
    \A h \in Hashes \ crossed :
        Alone(h) /\ CallsOf(h) /\ Covered(h) /\ Reached(h) /\ FreshOrDue(h)

\* A call in progress has the fields of its method.
LEMMA JobFields ==
  ASSUME job \in [Workers -> TrackerJobs], NEW t \in Workers
  PROVE  /\ job[t].op = "materialize" => job[t] \in MaterializeJobs
         /\ job[t].op = "change" => job[t] \in ChangeJobs
         /\ job[t].op = "clear" => job[t] \in ClearJobs
         /\ NoJob.op = "idle"
<1>1. job[t] \in TrackerJobs /\ NoJob.op = "idle"
  BY DEF NoJob
<1>2. \A j \in MaterializeJobs : j.op = "materialize"
  BY DEF MaterializeJobs
<1>3. \A j \in ChangeJobs : j.op = "change"
  BY DEF ChangeJobs
<1>4. \A j \in ClearJobs : j.op = "clear"
  BY DEF ClearJobs
<1>5. QED
  BY <1>1, <1>2, <1>3, <1>4 DEF TrackerJobs

\* A call goes on to its next step.
LEMMA GotoFields ==
  ASSUME job \in [Workers -> TrackerJobs], NEW t \in Workers,
         NEW x \in {"query", "pubkeys", "cache"}, Goto(t, x)
  PROVE  /\ \A u \in Workers : u # t => job'[u] = job[u]
         /\ job[t].op = "materialize" =>
              /\ job'[t] \in MaterializeJobs /\ job'[t].op = "materialize"
              /\ job'[t].pc = x /\ job'[t].hashes = job[t].hashes
              /\ job'[t].pubkeys = job[t].pubkeys /\ job'[t].read = job[t].read
         /\ job[t].op = "clear" =>
              job'[t] \in ClearJobs /\ job'[t].op = "clear" /\ job'[t].pc = x
<1>1. job' = [job EXCEPT ![t] = [job[t] EXCEPT !.pc = x]]
  BY DEF Goto
<1>2. job'[t] = [job[t] EXCEPT !.pc = x] /\ \A u \in Workers : u # t => job'[u] = job[u]
  BY <1>1
<1>3. CASE job[t].op = "materialize"
  BY <1>2, <1>3, JobFields DEF MaterializeJobs
<1>4. CASE job[t].op = "clear"
  BY <1>2, <1>4, JobFields DEF ClearJobs
<1>5. QED
  BY <1>2, <1>3, <1>4

\* The changed job of one thread leaves the jobs typed.
LEMMA JobsTyped ==
  ASSUME job \in [Workers -> TrackerJobs], NEW t \in Workers, NEW j,
         job' = [job EXCEPT ![t] = j], j \in TrackerJobs
  PROVE  job' \in [Workers -> TrackerJobs]
  OBVIOUS

LEMMA EverStep ==
  ASSUME EverInv, [TrackerNext]_trackerVars
  PROVE  EverInv'
<1> USE DEF Materializing, Changing, Clearing
<1>1. job \in [Workers -> TrackerJobs]
  BY DEF EverInv
<1>2. ASSUME NEW t \in Workers, NEW h \in Hashes, NEW S \in SUBSET Pubkeys, Materialize(t, h, S)
      PROVE  EverInv'
  <2> DEFINE r == [p \in S |-> version[p]]
             j == [op |-> "materialize", pc |-> "query", hashes |-> {h},
                   pubkeys |-> S, read |-> r]
  <2>1. r \in [S -> Int]
    BY DEF EverInv
  <2>2. r \in Readings /\ DOMAIN r = S
    BY <2>1 DEF Readings
  <2>3. job' = [job EXCEPT ![t] = j] /\ ever' = [ever EXCEPT ![h] = @ \cup S]
    BY <1>2 DEF Materialize, Begin
  <2> HIDE DEF r
  <2>4. j \in MaterializeJobs
    BY <2>2 DEF MaterializeJobs
  <2>5. job' \in [Workers -> TrackerJobs]
    BY <1>1, <2>3, <2>4, JobsTyped DEF TrackerJobs
  <2>6. job'[t] = j /\ \A u \in Workers : u # t => job'[u] = job[u]
    BY <1>1, <2>3
  <2>7. \A k \in Hashes : ever[k] \subseteq ever'[k] /\ S \subseteq ever'[h]
    BY <2>3 DEF EverInv
  <2>8. ever' \in [Hashes -> SUBSET Pubkeys]
    BY <2>3 DEF EverInv
  <2>9. UNCHANGED <<query_pubkeys, pubkey_queries, materialized_cache, version>>
    BY <1>2 DEF Materialize
  <2>10. QED
    BY <2>2, <2>5, <2>6, <2>7, <2>8, <2>9 DEF EverInv
<1>3. ASSUME NEW t \in Workers, NEW P \in SUBSET Pubkeys, ChangeAffecting(t, P)
      PROVE  EverInv'
  <2> DEFINE j == [op |-> "change", pc |-> "affected", hashes |-> {}, pubkeys |-> P]
  <2>1. job' = [job EXCEPT ![t] = j]
    BY <1>3 DEF ChangeAffecting, Begin
  <2>2. j \in ChangeJobs
    BY DEF ChangeJobs
  <2>3. job' \in [Workers -> TrackerJobs]
    BY <1>1, <2>1, <2>2, JobsTyped DEF TrackerJobs
  <2>4. job'[t] = j /\ \A u \in Workers : u # t => job'[u] = job[u]
    BY <1>1, <2>1
  <2>5. version' \in [Pubkeys -> Int]
    BY <1>3 DEF ChangeAffecting, ChangeAccounts, EverInv
  <2>6. UNCHANGED <<query_pubkeys, pubkey_queries, materialized_cache, ever>>
    BY <1>3 DEF ChangeAffecting
  <2>7. QED
    BY <2>3, <2>4, <2>5, <2>6 DEF EverInv
<1>4. ASSUME NEW t \in Workers, ClearTracker(t)
      PROVE  EverInv'
  <2> DEFINE j == [op |-> "clear", pc |-> "query"]
  <2>1. job' = [job EXCEPT ![t] = j]
    BY <1>4 DEF ClearTracker, Begin
  <2>2. j \in ClearJobs
    BY DEF ClearJobs
  <2>3. job' \in [Workers -> TrackerJobs]
    BY <1>1, <2>1, <2>2, JobsTyped DEF TrackerJobs
  <2>4. job'[t] = j /\ \A u \in Workers : u # t => job'[u] = job[u]
    BY <1>1, <2>1
  <2>5. QED
    BY <1>4, <2>3, <2>4 DEF EverInv, ClearTracker
<1>5. ASSUME NEW t \in Workers, RegisterQuery(t)
      PROVE  EverInv'
  <2>1. job[t].op = "materialize" /\ Goto(t, "pubkeys")
    BY <1>5 DEF RegisterQuery, At
  <2>2. /\ \A u \in Workers : u # t => job'[u] = job[u]
        /\ job'[t] \in MaterializeJobs /\ job'[t].op = "materialize"
        /\ job'[t].hashes = job[t].hashes
        /\ job'[t].pubkeys = job[t].pubkeys /\ job'[t].read = job[t].read
    BY <1>1, <2>1, GotoFields
  <2>3. job' \in [Workers -> TrackerJobs]
    BY <1>1, <2>1, <2>2 DEF Goto, TrackerJobs
  <2>4. \A h \in Hashes : h \in DOMAIN query_pubkeys' =>
           \/ h \in job[t].hashes /\ query_pubkeys'[h] = job[t].pubkeys
           \/ h \in DOMAIN query_pubkeys /\ query_pubkeys'[h] = query_pubkeys[h]
    BY <1>5 DEF RegisterQuery
  <2>5. UNCHANGED <<pubkey_queries, materialized_cache, version, ever>>
    BY <1>5 DEF RegisterQuery
  <2>6. QED
    BY <2>1, <2>2, <2>3, <2>4, <2>5 DEF EverInv
<1>6. ASSUME NEW t \in Workers, RegisterPubkeys(t)
      PROVE  EverInv'
  <2>1. job[t].op = "materialize" /\ Goto(t, "cache")
    BY <1>6 DEF RegisterPubkeys, At
  <2>2. /\ \A u \in Workers : u # t => job'[u] = job[u]
        /\ job'[t] \in MaterializeJobs /\ job'[t].op = "materialize"
        /\ job'[t].hashes = job[t].hashes
        /\ job'[t].pubkeys = job[t].pubkeys /\ job'[t].read = job[t].read
    BY <1>1, <2>1, GotoFields
  <2>3. job' \in [Workers -> TrackerJobs]
    BY <1>1, <2>1, <2>2 DEF Goto, TrackerJobs
  <2>4. \A h \in Hashes : \A p \in DOMAIN pubkey_queries' : h \in pubkey_queries'[p] =>
           \/ h \in job[t].hashes /\ p \in job[t].pubkeys
           \/ p \in DOMAIN pubkey_queries /\ h \in pubkey_queries[p]
    BY <1>6 DEF RegisterPubkeys, QueriesOf
  <2>5. UNCHANGED <<query_pubkeys, materialized_cache, version, ever>>
    BY <1>6 DEF RegisterPubkeys
  <2>6. \A p \in DOMAIN pubkey_queries' : pubkey_queries'[p] \subseteq Hashes
    <3>1. job[t].hashes \subseteq Hashes
      BY <1>1, <2>1, JobFields DEF MaterializeJobs
    <3>2. QED
      BY <1>6, <3>1 DEF RegisterPubkeys, QueriesOf, EverInv
  <2>7. QED
    BY <2>1, <2>2, <2>3, <2>4, <2>5, <2>6 DEF EverInv
<1>7. ASSUME NEW t \in Workers, Finish(t)
      PROVE  /\ job' \in [Workers -> TrackerJobs] /\ job'[t].op = "idle"
             /\ \A u \in Workers : u # t => job'[u] = job[u]
  BY <1>1, <1>7, JobsTyped DEF Finish, TrackerJobs, NoJob
<1>8. ASSUME NEW t \in Workers, CacheMaterializedResult(t)
      PROVE  EverInv'
  <2>1. Finish(t) /\ job[t].op = "materialize"
    BY <1>8 DEF CacheMaterializedResult, At
  <2>2. \A h \in Hashes : h \in DOMAIN materialized_cache' =>
           \/ h \in job[t].hashes /\ materialized_cache'[h] = job[t].read
           \/ h \in DOMAIN materialized_cache /\ materialized_cache'[h] = materialized_cache[h]
    BY <1>8 DEF CacheMaterializedResult
  <2>3. UNCHANGED <<query_pubkeys, pubkey_queries, version, ever>>
    BY <1>8 DEF CacheMaterializedResult
  <2>4. QED
    BY <1>7, <2>1, <2>2, <2>3 DEF EverInv
<1>9. ASSUME NEW t \in Workers, GetAffectedQueriesBatch(t)
      PROVE  EverInv'
  <2> DEFINE H == UNION {QueriesOf(p) : p \in job[t].pubkeys}
             j == [job[t] EXCEPT !.pc = "invalidate", !.hashes = H]
  <2>1. job[t].op = "change" /\ job[t] \in ChangeJobs
    BY <1>1, <1>9, JobFields DEF GetAffectedQueriesBatch, At
  <2>2. H \subseteq Hashes /\ \A h \in H : \E p \in job[t].pubkeys : h \in QueriesOf(p)
    BY DEF EverInv, QueriesOf
  <2>3. job' = [job EXCEPT ![t] = j]
    BY <1>9 DEF GetAffectedQueriesBatch
  <2> HIDE DEF H
  <2>4. /\ j \in ChangeJobs /\ j.op = "change"
        /\ j.hashes = H /\ j.pubkeys = job[t].pubkeys
    BY <2>1, <2>2 DEF ChangeJobs
  <2> HIDE DEF j
  <2>5. job' \in [Workers -> TrackerJobs]
    BY <1>1, <2>3, <2>4, JobsTyped DEF TrackerJobs
  <2>6. job'[t] = j /\ \A u \in Workers : u # t => job'[u] = job[u]
    BY <1>1, <2>3
  <2>7. \A h \in H : job[t].pubkeys \cap ever[h] # {}
    BY <2>2 DEF EverInv, QueriesOf
  <2>8. UNCHANGED <<query_pubkeys, pubkey_queries, materialized_cache, version, ever>>
    BY <1>9 DEF GetAffectedQueriesBatch
  <2>9. QED
    BY <2>4, <2>5, <2>6, <2>7, <2>8 DEF EverInv
<1>10. ASSUME NEW t \in Workers, InvalidateForPubkeys(t)
      PROVE  EverInv'
  <2>1. Finish(t)
    BY <1>10 DEF InvalidateForPubkeys
  <2>2. \A h \in DOMAIN materialized_cache' :
           h \in DOMAIN materialized_cache /\ materialized_cache'[h] = materialized_cache[h]
    BY <1>10 DEF InvalidateForPubkeys, Without
  <2>3. \A h \in DOMAIN query_pubkeys' :
           h \in DOMAIN query_pubkeys /\ query_pubkeys'[h] = query_pubkeys[h]
    BY <1>10 DEF InvalidateForPubkeys, Without
  <2>4. \A p \in DOMAIN pubkey_queries' :
           p \in DOMAIN pubkey_queries /\ pubkey_queries'[p] \subseteq pubkey_queries[p]
    BY <1>10 DEF InvalidateForPubkeys, Remaining, QueriesOf
  <2>5. UNCHANGED <<version, ever>>
    BY <1>10 DEF InvalidateForPubkeys
  <2>6. QED
    BY <1>7, <2>1, <2>2, <2>3, <2>4, <2>5 DEF EverInv
<1>11. ASSUME NEW t \in Workers, NEW x \in {"pubkeys", "cache"}, Goto(t, x), job[t].op = "clear"
       PROVE  /\ job' \in [Workers -> TrackerJobs] /\ job'[t].op = "clear"
              /\ \A u \in Workers : u # t => job'[u] = job[u]
  <2>1. /\ job'[t] \in ClearJobs /\ job'[t].op = "clear"
        /\ \A u \in Workers : u # t => job'[u] = job[u]
    BY <1>1, <1>11, GotoFields
  <2>2. QED
    BY <1>1, <1>11, <2>1 DEF Goto, TrackerJobs
<1>12. ASSUME NEW t \in Workers, ClearQueries(t)
       PROVE  EverInv'
  <2>1. Goto(t, "pubkeys") /\ job[t].op = "clear"
    BY <1>12 DEF ClearQueries, At
  <2>2. QED
    BY <1>11, <1>12, <2>1 DEF ClearQueries, EmptyMap, EverInv
<1>13. ASSUME NEW t \in Workers, ClearPubkeys(t)
       PROVE  EverInv'
  <2>1. Goto(t, "cache") /\ job[t].op = "clear"
    BY <1>13 DEF ClearPubkeys, At
  <2>2. QED
    BY <1>11, <1>13, <2>1 DEF ClearPubkeys, EmptyMap, EverInv
<1>14. ASSUME NEW t \in Workers, ClearCache(t)
       PROVE  EverInv'
  <2>1. Finish(t)
    BY <1>14 DEF ClearCache
  <2>2. QED
    BY <1>7, <1>14, <2>1 DEF ClearCache, EmptyMap, EverInv
<1>15. CASE UNCHANGED trackerVars
  BY <1>15 DEF trackerVars, trackerState, EverInv
<1>16. QED
  BY <1>2, <1>3, <1>4, <1>5, <1>6, <1>8, <1>9, <1>10, <1>12, <1>13, <1>14, <1>15
     DEF TrackerNext, TrackerStep

\* A call that concerns other queries leaves h as it was.
LEMMA OtherQuery ==
  ASSUME EverInv, NEW h \in Hashes, NEW t \in Workers,
         Alone(h), CallsOf(h), Covered(h), Reached(h), FreshOrDue(h),
         \A u \in Workers : u # t => job'[u] = job[u],
         ~Materializing(t, h), ~Materializing(t, h)',
         ~Changing(t), ~Changing(t)', ~Clearing(t), ~Clearing(t)',
         ever'[h] = ever[h], version' = version,
         h \in DOMAIN query_pubkeys' <=> h \in DOMAIN query_pubkeys,
         h \in DOMAIN query_pubkeys => query_pubkeys'[h] = query_pubkeys[h],
         h \in DOMAIN materialized_cache' <=> h \in DOMAIN materialized_cache,
         h \in DOMAIN materialized_cache =>
            materialized_cache'[h] = materialized_cache[h],
         \A p : h \in QueriesOf(p) => h \in QueriesOf(p)'
  PROVE  (Alone(h) /\ CallsOf(h) /\ Covered(h) /\ Reached(h) /\ FreshOrDue(h))'
<1>1. Alone(h)' /\ CallsOf(h)'
  BY DEF Alone, CallsOf, Materializing, Changing, Clearing
<1>2. Covered(h)'
  BY DEF Covered, Materializing, Clearing
<1>3. Reached(h)'
  BY DEF Reached, Materializing
<1>4. \A p : Due(h, p) => Due(h, p)'
  BY DEF Due, Materializing, Changing, Clearing
<1>5. FreshOrDue(h)'
  BY <1>4 DEF FreshOrDue
<1>6. QED
  BY <1>1, <1>2, <1>3, <1>5

LEMMA FreshStep ==
  ASSUME EverInv, FreshInv, [TrackerNext]_trackerVars
  PROVE  FreshInv'
<1>1. job \in [Workers -> TrackerJobs] /\ version \in [Pubkeys -> Int]
  BY DEF EverInv
<1>2. CASE UNCHANGED trackerVars
  BY <1>2 DEF trackerVars, trackerState, FreshInv, Alone, CallsOf, Covered, Reached,
     FreshOrDue, Due, QueriesOf, Materializing, Changing, Clearing
<1>3. ASSUME NEW t \in Workers, NEW k \in Hashes, NEW S \in SUBSET Pubkeys,
             Materialize(t, k, S), NEW h \in Hashes \ crossed'
      PROVE  (Alone(h) /\ CallsOf(h) /\ Covered(h) /\ Reached(h) /\ FreshOrDue(h))'
  <2>1. /\ job' = [job EXCEPT ![t] = [op |-> "materialize", pc |-> "query", hashes |-> {k},
                                      pubkeys |-> S, read |-> [p \in S |-> version[p]]]]
        /\ job[t].op = "idle"
        /\ ever' = [ever EXCEPT ![k] = @ \cup S]
        /\ UNCHANGED <<query_pubkeys, pubkey_queries, materialized_cache, version>>
    BY <1>3 DEF Materialize, Begin
  <2>2. h \notin crossed
    BY <1>3 DEF Materialize
  <2>3. Alone(h) /\ CallsOf(h) /\ Covered(h) /\ Reached(h) /\ FreshOrDue(h)
    BY <2>2 DEF FreshInv
  <2>4. /\ \A u \in Workers : u # t => job'[u] = job[u]
        /\ job'[t].op = "materialize" /\ job'[t].pc = "query" /\ job'[t].hashes = {k}
        /\ job'[t].pubkeys = S /\ job'[t].read = [p \in S |-> version[p]]
    BY <1>1, <2>1
  <2>5. ~Materializing(t, h) /\ ~Changing(t) /\ ~Clearing(t)
    BY <2>1 DEF Materializing, Changing, Clearing
  <2>6. CASE k # h
    <3>1. ever'[h] = ever[h]
      BY <2>1, <2>6 DEF EverInv
    <3>2. ~Materializing(t, h)' /\ ~Changing(t)' /\ ~Clearing(t)'
      BY <2>4, <2>6 DEF Materializing, Changing, Clearing
    <3>3. \A p : h \in QueriesOf(p) => h \in QueriesOf(p)'
      BY <2>1 DEF QueriesOf
    <3>4. QED
      BY <2>1, <2>3, <2>4, <2>5, <3>1, <3>2, <3>3, OtherQuery
  <2>7. CASE k = h
    <3>1. /\ Doing("clear") = {}
          /\ ~ \E u \in Doing("materialize") : h \in job[u].hashes
          /\ ~ \E u \in Doing("change") : job[u].pubkeys \cap (ever[h] \cup S) # {}
      BY <1>3, <2>7 DEF Materialize
    <3>2. \A u \in Workers : /\ ~Clearing(u) /\ ~Materializing(u, h)
                             /\ Changing(u) => job[u].pubkeys \cap (ever[h] \cup S) = {}
      BY <3>1 DEF Doing, Clearing, Materializing, Changing
    <3>3. ever'[h] = ever[h] \cup S
      BY <2>1, <2>7 DEF EverInv
    <3>4. Materializing(t, h)'
      BY <2>4, <2>7 DEF Materializing
    <3>5. Alone(h)'
      BY <2>4, <3>2, <3>3 DEF Alone, Clearing, Materializing, Changing
    <3>6. CallsOf(h)'
      BY <2>1, <2>4, <3>2 DEF CallsOf, Clearing, Materializing
    <3>7. Covered(h)'
      BY <3>4 DEF Covered
    <3>8. Reached(h)'
      BY <2>1, <2>3, <3>2 DEF Reached, QueriesOf
    <3>9. FreshOrDue(h)'
      BY <3>4 DEF FreshOrDue, Due
    <3>10. QED
      BY <3>5, <3>6, <3>7, <3>8, <3>9
  <2>8. QED
    BY <2>6, <2>7
<1>4. ASSUME NEW t \in Workers, NEW P \in SUBSET Pubkeys, ChangeAffecting(t, P),
             NEW h \in Hashes \ crossed'
      PROVE  (Alone(h) /\ CallsOf(h) /\ Covered(h) /\ Reached(h) /\ FreshOrDue(h))'
  <2>1. /\ job' = [job EXCEPT ![t] = [op |-> "change", pc |-> "affected", hashes |-> {},
                                      pubkeys |-> P]]
        /\ job[t].op = "idle"
        /\ version' = [p \in Pubkeys |-> IF p \in P THEN version[p] + 1 ELSE version[p]]
        /\ UNCHANGED <<query_pubkeys, pubkey_queries, materialized_cache, ever>>
    BY <1>4 DEF ChangeAffecting, Begin, ChangeAccounts
  <2>2. h \notin crossed /\ \A u \in Workers : Materializing(u, h) => ever[h] \cap P = {}
    BY <1>4 DEF ChangeAffecting, Doing, Materializing
  <2>3. Alone(h) /\ CallsOf(h) /\ Covered(h) /\ Reached(h) /\ FreshOrDue(h)
    BY <2>2 DEF FreshInv
  <2>4. /\ \A u \in Workers : u # t => job'[u] = job[u]
        /\ job'[t].op = "change" /\ job'[t].pc = "affected" /\ job'[t].pubkeys = P
    BY <1>1, <2>1
  <2>5. ~Materializing(t, h) /\ ~Changing(t) /\ ~Clearing(t)
    BY <2>1 DEF Materializing, Changing, Clearing
  <2>6. Changing(t)' /\ ~Materializing(t, h)' /\ ~Clearing(t)'
    BY <2>4 DEF Materializing, Changing, Clearing
  <2>7. Alone(h)'
    BY <2>1, <2>2, <2>3, <2>4, <2>5, <2>6 DEF Alone, Materializing, Changing, Clearing
  <2>8. \A p \in ever[h] : p \notin P => version'[p] = version[p]
    BY <2>1 DEF EverInv
  <2>9. CallsOf(h)'
    <3>1. \A u \in Workers : Materializing(u, h) =>
             \A p \in job[u].pubkeys : version'[p] = version[p]
      BY <2>2, <2>8 DEF EverInv
    <3>2. QED
      BY <2>1, <2>3, <2>4, <2>6, <3>1 DEF CallsOf, Materializing, Clearing
  <2>10. Covered(h)'
    BY <2>1, <2>3, <2>4, <2>5 DEF Covered, Materializing, Clearing
  <2>11. Reached(h)'
    BY <2>1, <2>3, <2>4, <2>5 DEF Reached, QueriesOf, Materializing
  <2>12. FreshOrDue(h)'
    <3> SUFFICES ASSUME h \in DOMAIN materialized_cache, NEW p \in DOMAIN materialized_cache[h]
                 PROVE  materialized_cache[h][p] = version'[p] \/ Due(h, p)'
      BY <2>1 DEF FreshOrDue
    <3>1. CASE p \in P
      BY <2>4, <2>6, <3>1 DEF Due
    <3>2. CASE p \notin P
      <4>1. version'[p] = version[p]
        BY <2>8, <3>2 DEF EverInv
      <4>2. Due(h, p) => Due(h, p)'
        BY <2>4, <2>5 DEF Due, Materializing, Changing, Clearing
      <4>3. QED
        BY <2>3, <4>1, <4>2 DEF FreshOrDue
    <3>3. QED
      BY <3>1, <3>2
  <2>13. QED
    BY <2>7, <2>9, <2>10, <2>11, <2>12
<1>5. ASSUME NEW t \in Workers, ClearTracker(t), NEW h \in Hashes \ crossed'
      PROVE  (Alone(h) /\ CallsOf(h) /\ Covered(h) /\ Reached(h) /\ FreshOrDue(h))'
  <2>1. /\ job' = [job EXCEPT ![t] = [op |-> "clear", pc |-> "query"]]
        /\ job[t].op = "idle"
        /\ UNCHANGED <<query_pubkeys, pubkey_queries, materialized_cache, version, ever>>
    BY <1>5 DEF ClearTracker, Begin
  <2>2. h \notin crossed /\ \A u \in Workers : ~Materializing(u, h)
    BY <1>5 DEF ClearTracker, Doing, Materializing
  <2>3. CallsOf(h) /\ Covered(h) /\ Reached(h)
    BY <2>2 DEF FreshInv
  <2>4. /\ \A u \in Workers : u # t => job'[u] = job[u]
        /\ job'[t].op = "clear" /\ job'[t].pc = "query"
    BY <1>1, <2>1
  <2>5. \A u \in Workers : ~Materializing(u, h)'
    BY <2>2, <2>4 DEF Materializing
  <2>6. ~Clearing(t) /\ Clearing(t)'
    BY <2>1, <2>4 DEF Clearing
  <2>7. Alone(h)' /\ CallsOf(h)'
    BY <2>1, <2>3, <2>4, <2>5 DEF Alone, CallsOf, Clearing
  <2>8. Covered(h)' /\ Reached(h)'
    BY <2>1, <2>2, <2>3, <2>4, <2>6 DEF Covered, Reached, QueriesOf, Clearing
  <2>9. FreshOrDue(h)'
    BY <2>6 DEF FreshOrDue, Due
  <2>10. QED
    BY <2>7, <2>8, <2>9
<1>6. ASSUME NEW t \in Workers, RegisterQuery(t), NEW h \in Hashes \ crossed'
      PROVE  (Alone(h) /\ CallsOf(h) /\ Covered(h) /\ Reached(h) /\ FreshOrDue(h))'
  <2>1. /\ job[t].op = "materialize" /\ job[t].pc = "query" /\ Goto(t, "pubkeys")
        /\ query_pubkeys' = [k \in DOMAIN query_pubkeys \cup job[t].hashes |->
                               IF k \in job[t].hashes THEN job[t].pubkeys
                                                       ELSE query_pubkeys[k]]
        /\ UNCHANGED <<pubkey_queries, materialized_cache, version, ever, crossed>>
    BY <1>6 DEF RegisterQuery, At
  <2>2. Alone(h) /\ CallsOf(h) /\ Covered(h) /\ Reached(h) /\ FreshOrDue(h)
    BY <2>1 DEF FreshInv
  <2>3. /\ \A u \in Workers : u # t => job'[u] = job[u]
        /\ job'[t].op = "materialize" /\ job'[t].pc = "pubkeys"
        /\ job'[t].hashes = job[t].hashes
        /\ job'[t].pubkeys = job[t].pubkeys /\ job'[t].read = job[t].read
    BY <1>1, <2>1, GotoFields
  <2>4. CASE h \notin job[t].hashes
    <3>1. /\ h \in DOMAIN query_pubkeys' <=> h \in DOMAIN query_pubkeys
          /\ h \in DOMAIN query_pubkeys => query_pubkeys'[h] = query_pubkeys[h]
      BY <2>1, <2>4
    <3>2. \A p : h \in QueriesOf(p) => h \in QueriesOf(p)'
      BY <2>1 DEF QueriesOf
    <3>3. /\ ~Materializing(t, h) /\ ~Changing(t) /\ ~Clearing(t)
          /\ ~Materializing(t, h)' /\ ~Changing(t)' /\ ~Clearing(t)'
      BY <2>1, <2>3, <2>4 DEF Materializing, Changing, Clearing
    <3>4. QED
      BY <2>1, <2>2, <2>3, <3>1, <3>2, <3>3, OtherQuery
  <2>5. CASE h \in job[t].hashes
    <3>1. Materializing(t, h) /\ Materializing(t, h)' /\ \A u \in Workers : u # t => ~Clearing(u)
      BY <2>1, <2>2, <2>3, <2>5 DEF Materializing, Alone
    <3>2. h \in DOMAIN query_pubkeys' /\ query_pubkeys'[h] = job[t].pubkeys
      BY <2>1, <2>5
    <3>3. Alone(h)'
      BY <2>1, <2>2, <2>3 DEF Alone, Materializing, Changing, Clearing
    <3>4. CallsOf(h)'
      BY <2>1, <2>2, <2>3, <3>1, <3>2, <3>3 DEF CallsOf, Alone, Materializing, Clearing
    <3>5. Covered(h)' /\ Reached(h)' /\ FreshOrDue(h)'
      BY <2>3, <3>1 DEF Covered, Reached, FreshOrDue, Due
    <3>6. QED
      BY <3>3, <3>4, <3>5
  <2>6. QED
    BY <2>4, <2>5
<1>7. ASSUME NEW t \in Workers, RegisterPubkeys(t), NEW h \in Hashes \ crossed'
      PROVE  (Alone(h) /\ CallsOf(h) /\ Covered(h) /\ Reached(h) /\ FreshOrDue(h))'
  <2>1. /\ job[t].op = "materialize" /\ job[t].pc = "pubkeys" /\ Goto(t, "cache")
        /\ pubkey_queries' = [p \in DOMAIN pubkey_queries \cup job[t].pubkeys |->
                                IF p \in job[t].pubkeys
                                  THEN QueriesOf(p) \cup job[t].hashes
                                  ELSE pubkey_queries[p]]
        /\ UNCHANGED <<query_pubkeys, materialized_cache, version, ever, crossed>>
    BY <1>7 DEF RegisterPubkeys, At
  <2>2. Alone(h) /\ CallsOf(h) /\ Covered(h) /\ Reached(h) /\ FreshOrDue(h)
    BY <2>1 DEF FreshInv
  <2>3. /\ \A u \in Workers : u # t => job'[u] = job[u]
        /\ job'[t].op = "materialize" /\ job'[t].pc = "cache"
        /\ job'[t].hashes = job[t].hashes
        /\ job'[t].pubkeys = job[t].pubkeys /\ job'[t].read = job[t].read
    BY <1>1, <2>1, GotoFields
  <2>4. \A p : h \in QueriesOf(p) => h \in QueriesOf(p)'
    BY <2>1 DEF QueriesOf
  <2>5. CASE h \notin job[t].hashes
    <3>1. /\ ~Materializing(t, h) /\ ~Changing(t) /\ ~Clearing(t)
          /\ ~Materializing(t, h)' /\ ~Changing(t)' /\ ~Clearing(t)'
      BY <2>1, <2>3, <2>5 DEF Materializing, Changing, Clearing
    <3>2. QED
      BY <2>1, <2>2, <2>3, <2>4, <3>1, OtherQuery
  <2>6. CASE h \in job[t].hashes
    <3>1. Materializing(t, h) /\ Materializing(t, h)'
      BY <2>1, <2>3, <2>6 DEF Materializing
    <3>2. Alone(h)'
      BY <2>1, <2>2, <2>3 DEF Alone, Materializing, Changing, Clearing
    <3>3. CallsOf(h)'
      BY <2>1, <2>2, <2>3, <3>1 DEF CallsOf, Materializing, Clearing
    <3>4. h \in DOMAIN query_pubkeys /\ query_pubkeys[h] = job[t].pubkeys
      BY <2>1, <2>2, <3>1 DEF CallsOf
    <3>5. \A p \in job[t].pubkeys : h \in QueriesOf(p)'
      BY <2>1, <2>6 DEF QueriesOf
    <3>6. Covered(h)' /\ Reached(h)' /\ FreshOrDue(h)'
      BY <2>1, <3>1, <3>4, <3>5 DEF Covered, Reached, FreshOrDue, Due
    <3>7. QED
      BY <3>2, <3>3, <3>6
  <2>7. QED
    BY <2>5, <2>6
<1>8. ASSUME NEW t \in Workers, Finish(t)
      PROVE  job'[t].op = "idle" /\ \A u \in Workers : u # t => job'[u] = job[u]
  BY <1>1, <1>8 DEF Finish, NoJob
<1>9. ASSUME NEW t \in Workers, CacheMaterializedResult(t), NEW h \in Hashes \ crossed'
      PROVE  (Alone(h) /\ CallsOf(h) /\ Covered(h) /\ Reached(h) /\ FreshOrDue(h))'
  <2>1. /\ job[t].op = "materialize" /\ job[t].pc = "cache" /\ Finish(t)
        /\ materialized_cache' =
             [k \in DOMAIN materialized_cache \cup job[t].hashes |->
                 IF k \in job[t].hashes THEN job[t].read ELSE materialized_cache[k]]
        /\ UNCHANGED <<query_pubkeys, pubkey_queries, version, ever, crossed>>
    BY <1>9 DEF CacheMaterializedResult, At
  <2>2. Alone(h) /\ CallsOf(h) /\ Covered(h) /\ Reached(h) /\ FreshOrDue(h)
    BY <2>1 DEF FreshInv
  <2>3. job'[t].op = "idle" /\ \A u \in Workers : u # t => job'[u] = job[u]
    BY <1>8, <2>1
  <2>4. ~Materializing(t, h)' /\ ~Changing(t)' /\ ~Clearing(t)' /\ ~Changing(t) /\ ~Clearing(t)
    BY <2>1, <2>3 DEF Materializing, Changing, Clearing
  <2>5. \A p : h \in QueriesOf(p) => h \in QueriesOf(p)'
    BY <2>1 DEF QueriesOf
  <2>6. CASE h \notin job[t].hashes
    <3>1. ~Materializing(t, h)
      BY <2>6 DEF Materializing
    <3>2. /\ h \in DOMAIN materialized_cache' <=> h \in DOMAIN materialized_cache
          /\ h \in DOMAIN materialized_cache => materialized_cache'[h] = materialized_cache[h]
      BY <2>1, <2>6
    <3>3. QED
      BY <2>1, <2>2, <2>3, <2>4, <2>5, <3>1, <3>2, OtherQuery
  <2>7. CASE h \in job[t].hashes
    <3>1. Materializing(t, h)
      BY <2>1, <2>7 DEF Materializing
    <3>2. /\ h \in DOMAIN query_pubkeys /\ query_pubkeys[h] = job[t].pubkeys
          /\ \A p \in job[t].pubkeys : job[t].read[p] = version[p]
      BY <2>1, <2>2, <3>1 DEF CallsOf
    <3>3. DOMAIN job[t].read = job[t].pubkeys
      BY <3>1 DEF EverInv
    <3>4. h \in DOMAIN materialized_cache' /\ materialized_cache'[h] = job[t].read
      BY <2>1, <2>7
    <3>5. \A u \in Workers : ~Materializing(u, h)' /\ ~Clearing(u)'
      BY <2>2, <2>3, <2>4, <3>1 DEF Alone, Materializing, Clearing
    <3>6. Alone(h)' /\ CallsOf(h)'
      BY <3>5 DEF Alone, CallsOf
    <3>7. Covered(h)'
      BY <2>1, <3>2, <3>3, <3>4 DEF Covered
    <3>8. ~ \E u \in Workers : Materializing(u, h) /\ job[u].pc = "pubkeys"
      BY <2>1, <2>2, <3>1 DEF Alone
    <3>9. Reached(h)'
      BY <2>1, <2>2, <2>5, <3>8 DEF Reached
    <3>10. FreshOrDue(h)'
      BY <2>1, <3>2, <3>3, <3>4 DEF FreshOrDue
    <3>11. QED
      BY <3>6, <3>7, <3>9, <3>10
  <2>8. QED
    BY <2>6, <2>7
<1>10. ASSUME NEW t \in Workers, GetAffectedQueriesBatch(t), NEW h \in Hashes \ crossed'
       PROVE  (Alone(h) /\ CallsOf(h) /\ Covered(h) /\ Reached(h) /\ FreshOrDue(h))'
  <2> DEFINE H == UNION {QueriesOf(p) : p \in job[t].pubkeys}
  <2>1. /\ job[t].op = "change" /\ job[t].pc = "affected"
        /\ job' = [job EXCEPT ![t] = [job[t] EXCEPT !.pc = "invalidate", !.hashes = H]]
        /\ UNCHANGED <<query_pubkeys, pubkey_queries, materialized_cache, version, ever, crossed>>
    BY <1>10 DEF GetAffectedQueriesBatch, At
  <2>2. Alone(h) /\ CallsOf(h) /\ Covered(h) /\ Reached(h) /\ FreshOrDue(h)
    BY <2>1 DEF FreshInv
  <2>3. job[t] \in ChangeJobs
    BY <1>1, <2>1, JobFields
  <2> HIDE DEF H
  <2>4. /\ \A u \in Workers : u # t => job'[u] = job[u]
        /\ job'[t].op = "change" /\ job'[t].pubkeys = job[t].pubkeys /\ job'[t].hashes = H
    BY <1>1, <2>1, <2>3 DEF ChangeJobs
  <2>5. /\ ~Materializing(t, h) /\ Changing(t) /\ ~Clearing(t)
        /\ ~Materializing(t, h)' /\ Changing(t)' /\ ~Clearing(t)'
    BY <2>1, <2>4 DEF Materializing, Changing, Clearing
  <2>6. Alone(h)'
    BY <2>1, <2>2, <2>4, <2>5 DEF Alone, Materializing, Changing, Clearing
  <2>7. CallsOf(h)'
    BY <2>1, <2>2, <2>4, <2>5 DEF CallsOf, Materializing, Clearing
  <2>8. Covered(h)' /\ Reached(h)'
    BY <2>1, <2>2, <2>4, <2>5 DEF Covered, Reached, QueriesOf, Materializing, Clearing
  <2>9. FreshOrDue(h)'
    <3> SUFFICES ASSUME h \in DOMAIN materialized_cache, NEW p \in DOMAIN materialized_cache[h],
                        materialized_cache[h][p] # version[p], ~Due(h, p)'
                 PROVE  FALSE
      BY <2>1 DEF FreshOrDue
    <3>1. Due(h, p)
      BY <2>2 DEF FreshOrDue
    <3>2. \A u \in Workers : ~Clearing(u) /\ ~Materializing(u, h)
      BY <2>4, <2>5 DEF Due, Materializing, Clearing
    <3>3. PICK u \in Workers : /\ Changing(u) /\ p \in job[u].pubkeys
                               /\ job[u].pc = "affected" \/ h \in job[u].hashes
      BY <3>1, <3>2 DEF Due
    <3>4. u = t
      BY <2>4, <3>3 DEF Due, Changing
    <3>5. h \in DOMAIN query_pubkeys /\ p \in query_pubkeys[h]
      BY <2>2, <3>2 DEF Covered
    <3>6. h \in QueriesOf(p)
      BY <2>2, <3>2, <3>5 DEF Reached
    <3>7. h \in H
      BY <3>3, <3>4, <3>6 DEF H
    <3>8. QED
      BY <2>4, <2>5, <3>3, <3>4, <3>7 DEF Due
  <2>10. QED
    BY <2>6, <2>7, <2>8, <2>9
<1>11. ASSUME NEW t \in Workers, InvalidateForPubkeys(t), NEW h \in Hashes \ crossed'
       PROVE  (Alone(h) /\ CallsOf(h) /\ Covered(h) /\ Reached(h) /\ FreshOrDue(h))'
  <2>1. /\ job[t].op = "change" /\ job[t].pc = "invalidate" /\ Finish(t)
        /\ materialized_cache' = Without(materialized_cache, job[t].hashes)
        /\ query_pubkeys' = Without(query_pubkeys, job[t].hashes)
        /\ pubkey_queries' =
             [p \in {q \in DOMAIN pubkey_queries : Remaining(q, job[t].hashes) # {}} |->
                 Remaining(p, job[t].hashes)]
        /\ UNCHANGED <<version, ever, crossed>>
    BY <1>11 DEF InvalidateForPubkeys, At
  <2>2. Alone(h) /\ CallsOf(h) /\ Covered(h) /\ Reached(h) /\ FreshOrDue(h)
    BY <2>1 DEF FreshInv
  <2>3. job'[t].op = "idle" /\ \A u \in Workers : u # t => job'[u] = job[u]
    BY <1>8, <2>1
  <2>4. /\ ~Materializing(t, h) /\ Changing(t) /\ ~Clearing(t)
        /\ ~Materializing(t, h)' /\ ~Changing(t)' /\ ~Clearing(t)'
    BY <2>1, <2>3 DEF Materializing, Changing, Clearing
  <2>5. Alone(h)'
    BY <2>1, <2>2, <2>3, <2>4 DEF Alone, Materializing, Changing, Clearing
  <2>6. CASE h \in job[t].hashes
    <3>1. h \notin DOMAIN materialized_cache' /\ h \notin DOMAIN query_pubkeys'
      BY <2>1, <2>6 DEF Without
    <3>2. \A u \in Workers : ~Materializing(u, h)
      BY <2>2, <2>4, <2>6 DEF Alone, EverInv
    <3>3. CallsOf(h)'
      BY <2>3, <2>4, <3>1, <3>2 DEF CallsOf, Materializing
    <3>4. QED
      BY <2>5, <3>1, <3>3 DEF Covered, Reached, FreshOrDue
  <2>7. CASE h \notin job[t].hashes
    <3>1. /\ h \in DOMAIN materialized_cache' <=> h \in DOMAIN materialized_cache
          /\ h \in DOMAIN materialized_cache => materialized_cache'[h] = materialized_cache[h]
          /\ h \in DOMAIN query_pubkeys' <=> h \in DOMAIN query_pubkeys
          /\ h \in DOMAIN query_pubkeys => query_pubkeys'[h] = query_pubkeys[h]
      BY <2>1, <2>7 DEF Without
    <3>2. \A p : h \in QueriesOf(p) => h \in QueriesOf(p)'
      BY <2>1, <2>7 DEF QueriesOf, Remaining
    <3>3. CallsOf(h)'
      BY <2>1, <2>2, <2>3, <2>4, <3>1 DEF CallsOf, Materializing, Clearing
    <3>4. Covered(h)'
      BY <2>2, <2>3, <2>4, <3>1 DEF Covered, Materializing, Clearing
    <3>5. Reached(h)'
      BY <2>2, <2>3, <2>4, <3>1, <3>2 DEF Reached, Materializing
    <3>6. \A p : Due(h, p) => Due(h, p)'
      BY <2>1, <2>3, <2>4, <2>7 DEF Due, Materializing, Changing, Clearing
    <3>7. FreshOrDue(h)'
      BY <2>1, <2>2, <3>1, <3>6 DEF FreshOrDue
    <3>8. QED
      BY <2>5, <3>3, <3>4, <3>5, <3>7
  <2>8. QED
    BY <2>6, <2>7
<1>12. ASSUME NEW t \in Workers, Clearing(t), NEW h \in Hashes \ crossed
       PROVE  \A u \in Workers : ~Materializing(u, h)
  BY <1>12 DEF FreshInv, Alone, Materializing, Clearing
<1>13. ASSUME NEW t \in Workers, ClearQueries(t), NEW h \in Hashes \ crossed'
       PROVE  (Alone(h) /\ CallsOf(h) /\ Covered(h) /\ Reached(h) /\ FreshOrDue(h))'
  <2>1. /\ job[t].op = "clear" /\ job[t].pc = "query" /\ Goto(t, "pubkeys")
        /\ h \notin DOMAIN query_pubkeys' /\ crossed' = crossed
    BY <1>13 DEF ClearQueries, At, EmptyMap
  <2>2. /\ \A u \in Workers : u # t => job'[u] = job[u]
        /\ job'[t].op = "clear" /\ job'[t].pc = "pubkeys"
    BY <1>1, <2>1, GotoFields
  <2>3. Clearing(t) /\ Clearing(t)' /\ \A u \in Workers : ~Materializing(u, h)'
    BY <1>12, <2>1, <2>2 DEF Clearing, Materializing
  <2>4. QED
    BY <2>1, <2>2, <2>3 DEF Alone, CallsOf, Covered, Reached, FreshOrDue, Due
<1>14. ASSUME NEW t \in Workers, ClearPubkeys(t), NEW h \in Hashes \ crossed'
       PROVE  (Alone(h) /\ CallsOf(h) /\ Covered(h) /\ Reached(h) /\ FreshOrDue(h))'
  <2>1. /\ job[t].op = "clear" /\ job[t].pc = "pubkeys" /\ Goto(t, "cache")
        /\ query_pubkeys' = query_pubkeys /\ crossed' = crossed
    BY <1>14 DEF ClearPubkeys, At
  <2>2. /\ \A u \in Workers : u # t => job'[u] = job[u]
        /\ job'[t].op = "clear" /\ job'[t].pc = "cache"
    BY <1>1, <2>1, GotoFields
  <2>3. Clearing(t) /\ Clearing(t)' /\ \A u \in Workers : ~Materializing(u, h)'
    BY <1>12, <2>1, <2>2 DEF Clearing, Materializing
  <2>4. h \notin DOMAIN query_pubkeys'
    BY <2>1, <2>3 DEF FreshInv, CallsOf
  <2>5. QED
    BY <2>2, <2>3, <2>4 DEF Alone, CallsOf, Covered, Reached, FreshOrDue, Due
<1>15. ASSUME NEW t \in Workers, ClearCache(t), NEW h \in Hashes \ crossed'
       PROVE  (Alone(h) /\ CallsOf(h) /\ Covered(h) /\ Reached(h) /\ FreshOrDue(h))'
  <2>1. /\ job[t].op = "clear" /\ job[t].pc = "cache" /\ Finish(t)
        /\ h \notin DOMAIN materialized_cache'
        /\ UNCHANGED <<query_pubkeys, pubkey_queries, version, ever, crossed>>
    BY <1>15 DEF ClearCache, At, EmptyMap
  <2>2. job'[t].op = "idle" /\ \A u \in Workers : u # t => job'[u] = job[u]
    BY <1>8, <2>1
  <2>3. \A u \in Workers : ~Materializing(u, h)'
    BY <1>12, <2>1, <2>2 DEF Clearing, Materializing
  <2>4. h \notin DOMAIN query_pubkeys'
    BY <2>1 DEF FreshInv, CallsOf, Clearing
  <2>5. QED
    BY <2>1, <2>3, <2>4 DEF Alone, CallsOf, Covered, Reached, FreshOrDue
<1>16. QED
  <2> SUFFICES ASSUME NEW h \in Hashes \ crossed', ~UNCHANGED trackerVars
               PROVE  (Alone(h) /\ CallsOf(h) /\ Covered(h) /\ Reached(h) /\ FreshOrDue(h))'
    BY <1>2 DEF FreshInv
  <2>1. PICK t \in Workers :
           \/ \E k \in Hashes, S \in SUBSET Pubkeys : Materialize(t, k, S)
           \/ \E P \in SUBSET Pubkeys : ChangeAffecting(t, P)
           \/ ClearTracker(t) \/ TrackerStep(t)
    BY DEF TrackerNext
  <2>2. QED
    BY <1>3, <1>4, <1>5, <1>6, <1>7, <1>9, <1>10, <1>11, <1>13, <1>14, <1>15, <2>1
       DEF TrackerStep

\* The tracker's invariant holds throughout.
LEMMA TrackerInvariant == TrackerSpec => [](EverInv /\ FreshInv)
<1>1. TrackerInit => EverInv /\ FreshInv
  <2> SUFFICES ASSUME TrackerInit PROVE EverInv /\ FreshInv
    OBVIOUS
  <2>1. /\ job \in [Workers -> TrackerJobs] /\ \A t \in Workers : job[t].op = "idle"
        /\ version \in [Pubkeys -> Int]
        /\ DOMAIN query_pubkeys = {} /\ DOMAIN pubkey_queries = {}
        /\ DOMAIN materialized_cache = {} /\ ever \in [Hashes -> SUBSET Pubkeys]
    BY DEF TrackerInit, JobsInit, VersionInit, TrackerJobs, NoJob, EmptyMap
  <2>2. EverInv
    BY <2>1 DEF EverInv, Materializing, Changing
  <2>3. FreshInv
    BY <2>1 DEF FreshInv, Alone, CallsOf, Covered, Reached, FreshOrDue, Materializing, Clearing
  <2>4. QED
    BY <2>2, <2>3
<1>2. EverInv /\ FreshInv /\ [TrackerNext]_trackerVars => EverInv' /\ FreshInv'
  BY EverStep, FreshStep
<1>3. QED
  BY <1>1, <1>2, PTL DEF TrackerSpec

\* For any accounts, queries and number of threads: a materialized result is stale only
\* while a call that will remove it is under way, unless a change or a clear ran into
\* its materialization.
THEOREM TrackerFresh == TrackerSpec => []FreshUnlessOverlapped
<1>1. EverInv /\ FreshInv => FreshUnlessOverlapped
  <2> SUFFICES ASSUME EverInv, FreshInv, NEW h \in Hashes \ crossed, Stale(h)
               PROVE  Busy(h)
    BY DEF FreshUnlessOverlapped
  <2>1. PICK p \in DOMAIN materialized_cache[h] : materialized_cache[h][p] # version[p]
    BY DEF Stale
  <2>2. Due(h, p) /\ p \in ever[h]
    BY <2>1 DEF FreshInv, FreshOrDue, Stale, EverInv
  <2>3. QED
    BY <2>2 DEF Due, Busy, Doing, Clearing, Materializing, Changing
<1>2. QED
  BY <1>1, TrackerInvariant, PTL

\* For any accounts, queries and number of threads: at rest a result is registered for
\* all the accounts it was read from, and a registered query is found from each of its
\* accounts, unless a change or a clear ran into its materialization.
THEOREM TrackerReaches == TrackerSpec => []CachedIsTracked
<1>1. EverInv /\ FreshInv => CachedIsTracked
  <2> SUFFICES ASSUME EverInv, FreshInv, NEW h \in Hashes \ crossed, ~Busy(h)
               PROVE  /\ h \in DOMAIN materialized_cache =>
                           /\ h \in DOMAIN query_pubkeys
                           /\ DOMAIN materialized_cache[h] \subseteq query_pubkeys[h]
                      /\ h \in DOMAIN query_pubkeys =>
                           \A p \in query_pubkeys[h] : h \in QueriesOf(p)
    BY DEF CachedIsTracked
  <2>1. \A t \in Workers : ~Clearing(t) /\ ~Materializing(t, h)
    BY DEF Busy, Doing, Clearing, Materializing
  <2>2. QED
    BY <2>1 DEF FreshInv, Covered, Reached
<1>2. QED
  BY <1>1, TrackerInvariant, PTL

----------------------------------------------------------------------------
(* The response caches. *)

L1Fills ==
    [op : {"fill"}, tier : {"l1"}, pc : {"evict", "insert"}, keys : SUBSET Keys,
     pubkey : Encoded, version : Int]
L2Fills ==
    [op : {"fill"}, tier : {"l2"}, pc : {"connect", "set"}, keys : SUBSET Keys,
     pubkey : Encoded, version : Int]
Invalidations ==
    [op : {"invalidate"}, pc : {"collect", "remove", "connect", "scan", "del"},
     keys : SUBSET Keys, pubkey : Encoded]
ResponseJobs == {NoJob} \cup L1Fills \cup L2Fills \cup Invalidations

Filling(t) == job[t].op = "fill"
Invalidating(t, p) == job[t].op = "invalidate" /\ job[t].pubkey = p

\* What the caches and the calls hold.
ResponseShape ==
    /\ job \in [Workers -> ResponseJobs]
    /\ version \in [Pubkeys -> Int]
    /\ \A k \in DOMAIN cache : k \in Keys /\ cache[k] \in [version : Int, age : Int]
    /\ \A k \in DOMAIN l2 : k \in Keys /\ l2[k] \in [version : Int, ttl : Int]
    /\ \A t \in Workers : Filling(t) => \A k \in job[t].keys : k.pubkey = job[t].pubkey

\* A fill that met no change has encoded the account as it is now.
FillsInv ==
    \A t \in Workers : Filling(t) =>
        \/ <<job[t].tier, job[t].pubkey>> \in overlapped
        \/ /\ job[t].version = version[job[t].pubkey]
           /\ \A u \in Workers : ~Invalidating(u, job[t].pubkey)

\* An invalidation that will remove the entry k of L1.
Removes(t, k) ==
    /\ Invalidating(t, k.pubkey)
    /\ \/ job[t].pc = "collect"
       \/ job[t].pc = "remove" /\ k \in job[t].keys

\* A stale entry of L1 is yet to be collected, or collected and yet to be removed.
L1Inv ==
    \A k \in DOMAIN cache :
        \/ <<"l1", k.pubkey>> \in overlapped
        \/ cache[k].version = version[k.pubkey]
        \/ \E t \in Workers : Removes(t, k)

\* A stale entry of DragonflyDB has an invalidation before its DEL, which has found
\* every key of the account.
L2Inv ==
    /\ \A k \in DOMAIN l2 :
          \/ <<"l2", k.pubkey>> \in overlapped \/ k.pubkey \in lost
          \/ l2[k].version = version[k.pubkey]
          \/ \E t \in Workers : Invalidating(t, k.pubkey)
    /\ \A t \in Workers : job[t].op = "invalidate" /\ job[t].pc = "del" =>
          \/ <<"l2", job[t].pubkey>> \in overlapped
          \/ \A k \in DOMAIN l2 : k.pubkey = job[t].pubkey => k \in job[t].keys

LEMMA ResponseFields ==
  ASSUME job \in [Workers -> ResponseJobs], NEW t \in Workers
  PROVE  /\ job[t].op = "fill" => job[t] \in L1Fills \/ job[t] \in L2Fills
         /\ job[t].op = "invalidate" => job[t] \in Invalidations
<1>1. job[t] \in ResponseJobs /\ NoJob.op = "idle"
  BY DEF NoJob
<1>2. /\ \A j \in L1Fills : j.op = "fill"
      /\ \A j \in L2Fills : j.op = "fill"
      /\ \A j \in Invalidations : j.op = "invalidate"
  BY DEF L1Fills, L2Fills, Invalidations
<1>3. QED
  BY <1>1, <1>2 DEF ResponseJobs

LEMMA ResponseGoto ==
  ASSUME job \in [Workers -> ResponseJobs], NEW t \in Workers, NEW x, Goto(t, x),
         \/ job[t] \in L1Fills /\ x = "insert"
         \/ job[t] \in L2Fills /\ x = "set"
         \/ job[t] \in Invalidations /\ x \in {"connect", "scan"}
  PROVE  /\ \A u \in Workers : u # t => job'[u] = job[u]
         /\ job'[t].op = job[t].op /\ job'[t].pc = x /\ job'[t].keys = job[t].keys
         /\ job'[t].pubkey = job[t].pubkey
         /\ job[t].op = "fill" =>
               job'[t].tier = job[t].tier /\ job'[t].version = job[t].version
         /\ job' \in [Workers -> ResponseJobs]
<1>1. job' = [job EXCEPT ![t] = [job[t] EXCEPT !.pc = x]]
  BY DEF Goto
<1>2. job'[t] = [job[t] EXCEPT !.pc = x] /\ \A u \in Workers : u # t => job'[u] = job[u]
  BY <1>1
<1>3. CASE job[t] \in L1Fills /\ x = "insert"
  <2>1. /\ job'[t] \in L1Fills
        /\ job'[t].op = job[t].op /\ job'[t].pc = x /\ job'[t].keys = job[t].keys
        /\ job'[t].pubkey = job[t].pubkey
        /\ job'[t].tier = job[t].tier /\ job'[t].version = job[t].version
    BY <1>2, <1>3 DEF L1Fills
  <2>2. QED
    BY <1>1, <1>2, <2>1 DEF ResponseJobs
<1>4. CASE job[t] \in L2Fills /\ x = "set"
  <2>1. /\ job'[t] \in L2Fills
        /\ job'[t].op = job[t].op /\ job'[t].pc = x /\ job'[t].keys = job[t].keys
        /\ job'[t].pubkey = job[t].pubkey
        /\ job'[t].tier = job[t].tier /\ job'[t].version = job[t].version
    BY <1>2, <1>4 DEF L2Fills
  <2>2. QED
    BY <1>1, <1>2, <2>1 DEF ResponseJobs
<1>5. CASE job[t] \in Invalidations /\ x \in {"connect", "scan"}
  <2>1. /\ job'[t] \in Invalidations
        /\ job'[t].op = job[t].op /\ job'[t].pc = x /\ job'[t].keys = job[t].keys
        /\ job'[t].pubkey = job[t].pubkey
        /\ job[t].op = "invalidate"
    BY <1>2, <1>5 DEF Invalidations
  <2>2. QED
    BY <1>1, <1>2, <2>1 DEF ResponseJobs
<1>6. QED
  BY <1>3, <1>4, <1>5

LEMMA ResponseFinish ==
  ASSUME job \in [Workers -> ResponseJobs], NEW t \in Workers, Finish(t)
  PROVE  /\ \A u \in Workers : u # t => job'[u] = job[u]
         /\ job'[t].op = "idle" /\ job' \in [Workers -> ResponseJobs]
  BY DEF Finish, NoJob, ResponseJobs

\* An invalidation that has found keys.
LEMMA ResponseFound ==
  ASSUME job \in [Workers -> ResponseJobs], NEW t \in Workers, job[t].op = "invalidate",
         NEW x \in {"remove", "del"}, NEW F \in SUBSET Keys,
         job' = [job EXCEPT ![t] = [job[t] EXCEPT !.pc = x, !.keys = F]]
  PROVE  /\ \A u \in Workers : u # t => job'[u] = job[u]
         /\ job'[t].op = "invalidate" /\ job'[t].pc = x /\ job'[t].keys = F
         /\ job'[t].pubkey = job[t].pubkey
         /\ job' \in [Workers -> ResponseJobs]
<1>1. job[t] \in Invalidations
  BY ResponseFields
<1>2. job'[t] = [job[t] EXCEPT !.pc = x, !.keys = F] /\ \A u \in Workers : u # t => job'[u] = job[u]
  OBVIOUS
<1>3. /\ job'[t] \in Invalidations /\ job'[t].op = "invalidate"
      /\ job'[t].pc = x /\ job'[t].keys = F
      /\ job'[t].pubkey = job[t].pubkey
  BY <1>1, <1>2 DEF Invalidations
<1>4. QED
  BY <1>2, <1>3 DEF ResponseJobs

ResponseInv == ResponseShape /\ FillsInv /\ L1Inv /\ L2Inv

\* The inductive step, one case per action.
LEMMA ResponseStepInv ==
  ASSUME ResponseInv, [ResponseNext]_responseVars
  PROVE  ResponseInv'
<1> USE DEF Filling, Invalidating
<1>1. job \in [Workers -> ResponseJobs] /\ version \in [Pubkeys -> Int]
  BY DEF ResponseInv, ResponseShape
<1>2. Encoded \subseteq Pubkeys /\ \A k \in Keys : k.pubkey \in Encoded
  BY CacheAssumption DEF Keys
<1>3. ASSUME NEW t \in Workers, NEW tier \in Tiers, NEW key \in Keys, Fill(t, tier, key)
      PROVE  ResponseInv'
  <2> DEFINE x == IF tier = "l1" THEN "evict" ELSE "connect"
             j == [op |-> "fill", tier |-> tier, pc |-> x, keys |-> {key},
                   pubkey |-> key.pubkey, version |-> version[key.pubkey]]
  <2>1. /\ job[t].op = "idle" /\ job' = [job EXCEPT ![t] = j]
        /\ overlapped' = IF Working("invalidate", key.pubkey) # {}
                           THEN overlapped \cup {<<tier, key.pubkey>>} ELSE overlapped
        /\ UNCHANGED <<cache, l2, version, lost>>
    BY <1>3 DEF Fill, Begin
  <2>2. version[key.pubkey] \in Int /\ key.pubkey \in Encoded
    BY <1>1, <1>2
  <2>3. j \in L1Fills \/ j \in L2Fills
    BY <2>2 DEF L1Fills, L2Fills, Tiers
  <2>4. /\ job'[t].op = "fill" /\ job'[t].tier = tier /\ job'[t].keys = {key}
        /\ job'[t].pubkey = key.pubkey /\ job'[t].version = version[key.pubkey]
        /\ \A u \in Workers : u # t => job'[u] = job[u]
    BY <1>1, <2>1
  <2>5. job' \in [Workers -> ResponseJobs]
    BY <1>1, <2>1, <2>3 DEF ResponseJobs
  <2> HIDE DEF j
  <2>6. ResponseShape'
    BY <2>1, <2>4, <2>5 DEF ResponseInv, ResponseShape
  <2>7. FillsInv'
    BY <2>1, <2>4 DEF ResponseInv, FillsInv, Working
  <2>8. L1Inv'
    <3>1. \A u \in Workers : \A k : Removes(u, k) => Removes(u, k)'
      BY <2>1, <2>4 DEF Removes
    <3>2. QED
      BY <2>1, <3>1 DEF ResponseInv, L1Inv
  <2>9. L2Inv'
    BY <2>1, <2>4 DEF ResponseInv, L2Inv
  <2>10. QED
    BY <2>6, <2>7, <2>8, <2>9 DEF ResponseInv
<1>4. ASSUME NEW t \in Workers, NEW p \in Encoded, ChangeAccount(t, p)
      PROVE  ResponseInv'
  <2> DEFINE j == [op |-> "invalidate", pc |-> "collect", keys |-> {}, pubkey |-> p]
  <2>1. /\ job[t].op = "idle" /\ job' = [job EXCEPT ![t] = j]
        /\ version' = [q \in Pubkeys |-> IF q \in {p} THEN version[q] + 1 ELSE version[q]]
        /\ overlapped' = overlapped \cup {<<job[u].tier, p>> : u \in Working("fill", p)}
        /\ UNCHANGED <<cache, l2, lost>>
    BY <1>4 DEF ChangeAccount, Begin, ChangeAccounts
  <2>2. j \in Invalidations
    BY DEF Invalidations
  <2>3. /\ job'[t].op = "invalidate" /\ job'[t].pc = "collect" /\ job'[t].pubkey = p
        /\ \A u \in Workers : u # t => job'[u] = job[u]
    BY <1>1, <2>1
  <2>4. job' \in [Workers -> ResponseJobs]
    BY <1>1, <2>1, <2>2 DEF ResponseJobs
  <2>5. /\ version' \in [Pubkeys -> Int]
        /\ \A q \in Encoded : q # p => version'[q] = version[q]
    BY <1>1, <1>2, <2>1
  <2> HIDE DEF j
  <2>6. ResponseShape'
    BY <2>1, <2>3, <2>4, <2>5 DEF ResponseInv, ResponseShape
  <2>7. FillsInv'
    <3> SUFFICES ASSUME NEW u \in Workers, Filling(u)',
                        <<job'[u].tier, job'[u].pubkey>> \notin overlapped'
                 PROVE  /\ job'[u].version = version'[job'[u].pubkey]
                        /\ \A v \in Workers : ~Invalidating(v, job[u].pubkey)'
      BY DEF FillsInv
    <3>1. u # t /\ job'[u] = job[u] /\ job[u].op = "fill"
      BY <2>3
    <3>2. job[u].pubkey # p
      BY <2>1, <3>1 DEF Working
    <3>3. job[u].pubkey \in Encoded
      BY <1>1, <3>1, ResponseFields DEF L1Fills, L2Fills
    <3>4. QED
      BY <2>1, <2>3, <2>5, <3>1, <3>2, <3>3 DEF ResponseInv, FillsInv
  <2>8. L1Inv'
    <3> SUFFICES ASSUME NEW k \in DOMAIN cache
                 PROVE  \/ <<"l1", k.pubkey>> \in overlapped'
                        \/ cache[k].version = version'[k.pubkey]
                        \/ \E u \in Workers : Removes(u, k)'
      BY <2>1 DEF L1Inv
    <3>1. CASE k.pubkey = p
      BY <2>3, <3>1 DEF Removes
    <3>2. CASE k.pubkey # p
      <4>1. k.pubkey \in Encoded
        BY <1>2 DEF ResponseInv, ResponseShape
      <4>2. \A u \in Workers : Removes(u, k) => Removes(u, k)'
        BY <2>1, <2>3 DEF Removes
      <4>3. QED
        BY <2>1, <2>5, <3>2, <4>1, <4>2 DEF ResponseInv, L1Inv
    <3>3. QED
      BY <3>1, <3>2
  <2>9. L2Inv'
    <3>1. ASSUME NEW k \in DOMAIN l2
          PROVE  \/ <<"l2", k.pubkey>> \in overlapped' \/ k.pubkey \in lost
                 \/ l2[k].version = version'[k.pubkey]
                 \/ \E u \in Workers : Invalidating(u, k.pubkey)'
      <4>1. CASE k.pubkey = p
        BY <2>3, <4>1
      <4>2. CASE k.pubkey # p
        <5>1. k.pubkey \in Encoded
          BY <1>2 DEF ResponseInv, ResponseShape
        <5>2. QED
          BY <2>1, <2>3, <2>5, <4>2, <5>1 DEF ResponseInv, L2Inv
      <4>3. QED
        BY <4>1, <4>2
    <3>2. QED
      BY <2>1, <2>3, <3>1 DEF ResponseInv, L2Inv
  <2>10. QED
    BY <2>6, <2>7, <2>8, <2>9 DEF ResponseInv
<1>5. ASSUME NEW t \in Workers, EvictStaleEntries(t)
      PROVE  ResponseInv'
  <2>1. /\ job[t].op = "fill" /\ job[t].pc = "evict" /\ Goto(t, "insert")
        /\ UNCHANGED <<l2, version, overlapped, lost>>
        /\ \A k \in DOMAIN cache' : k \in DOMAIN cache /\ cache'[k] = cache[k]
    BY <1>5 DEF EvictStaleEntries, At, Without
  <2>2. job[t] \in L1Fills
    BY <1>1, <2>1, ResponseFields DEF L2Fills
  <2>3. /\ \A u \in Workers : u # t => job'[u] = job[u]
        /\ job'[t].op = "fill" /\ job'[t].keys = job[t].keys
        /\ job'[t].pubkey = job[t].pubkey
        /\ job'[t].tier = job[t].tier /\ job'[t].version = job[t].version
        /\ job' \in [Workers -> ResponseJobs]
    BY <1>1, <2>1, <2>2, ResponseGoto
  <2>4. ResponseShape' /\ FillsInv'
    BY <2>1, <2>3 DEF ResponseInv, ResponseShape, FillsInv
  <2>5. L1Inv'
    <3>1. \A u \in Workers : \A k : Removes(u, k) => Removes(u, k)'
      BY <2>1, <2>3 DEF Removes
    <3>2. QED
      BY <2>1, <3>1 DEF ResponseInv, L1Inv
  <2>6. L2Inv'
    BY <2>1, <2>3 DEF ResponseInv, L2Inv
  <2>7. QED
    BY <2>4, <2>5, <2>6 DEF ResponseInv
<1>6. ASSUME NEW t \in Workers, Insert(t)
      PROVE  ResponseInv'
  <2>1. /\ job[t].op = "fill" /\ job[t].pc = "insert" /\ Finish(t)
        /\ UNCHANGED <<l2, version, overlapped, lost>>
        /\ \A k \in DOMAIN cache' :
              \/ k \in job[t].keys /\ cache'[k] = NewEntry(job[t].version)
              \/ k \in DOMAIN cache /\ cache'[k] = cache[k]
    BY <1>6 DEF Insert, At
  <2>2. job[t] \in L1Fills
    BY <1>1, <2>1, ResponseFields DEF L2Fills
  <2>3. /\ job[t].version \in Int /\ job[t].keys \subseteq Keys /\ job[t].tier = "l1"
        /\ \A k \in job[t].keys : k.pubkey = job[t].pubkey
    BY <2>1, <2>2 DEF L1Fills, ResponseInv, ResponseShape
  <2>4. /\ NewEntry(job[t].version) \in [version : Int, age : Int]
        /\ NewEntry(job[t].version).version = job[t].version
    BY <2>3 DEF NewEntry
  <2>5. /\ \A u \in Workers : u # t => job'[u] = job[u]
        /\ job'[t].op = "idle" /\ job' \in [Workers -> ResponseJobs]
    BY <1>1, <2>1, ResponseFinish
  <2>6. ResponseShape'
    BY <2>1, <2>3, <2>4, <2>5 DEF ResponseInv, ResponseShape
  <2>7. FillsInv'
    BY <2>1, <2>5 DEF ResponseInv, FillsInv
  <2>8. L1Inv'
    <3>1. \A u \in Workers : \A k : Removes(u, k) => Removes(u, k)'
      BY <2>1, <2>5 DEF Removes
    <3>2. \A k \in job[t].keys : <<"l1", k.pubkey>> \in overlapped
                                \/ job[t].version = version[k.pubkey]
      BY <2>1, <2>3 DEF ResponseInv, FillsInv
    <3>3. QED
      BY <2>1, <2>4, <3>1, <3>2 DEF ResponseInv, L1Inv
  <2>9. L2Inv'
    BY <2>1, <2>5 DEF ResponseInv, L2Inv
  <2>10. QED
    BY <2>6, <2>7, <2>8, <2>9 DEF ResponseInv
<1>7. ASSUME NEW t \in Workers, GetConnection(t)
      PROVE  ResponseInv'
  <2>1. job[t].op \in {"fill", "invalidate"} => job[t] \in L2Fills \cup Invalidations
    BY <1>1, <1>7, ResponseFields DEF L1Fills, GetConnection
  <2>2. /\ job[t].pc = "connect" /\ UNCHANGED <<cache, l2, version, overlapped>>
        /\ \/ /\ lost' = lost
              /\ Goto(t, IF job[t].op = "fill" THEN "set" ELSE "scan")
           \/ /\ Finish(t)
              /\ lost' = IF job[t].op = "invalidate" THEN lost \cup {job[t].pubkey} ELSE lost
    BY <1>7 DEF GetConnection
  <2>3. job[t] \in L2Fills \cup Invalidations
    <3>1. job[t] # NoJob
      BY <2>2 DEF NoJob
    <3>2. QED
      BY <1>1, <2>2, <3>1 DEF ResponseJobs, L1Fills
  <2>4. CASE lost' = lost /\ Goto(t, IF job[t].op = "fill" THEN "set" ELSE "scan")
    <3>1. \/ job[t] \in L2Fills /\ job[t].op = "fill"
          \/ job[t] \in Invalidations /\ job[t].op = "invalidate"
      BY <2>3 DEF L2Fills, Invalidations
    <3>2. /\ \A u \in Workers : u # t => job'[u] = job[u]
          /\ job'[t].op = job[t].op /\ job'[t].keys = job[t].keys
          /\ job'[t].pc \in {"set", "scan"}
          /\ job'[t].pubkey = job[t].pubkey
          /\ job[t].op = "fill" =>
                job'[t].tier = job[t].tier /\ job'[t].version = job[t].version
          /\ job' \in [Workers -> ResponseJobs]
      <4>1. CASE job[t] \in L2Fills /\ job[t].op = "fill"
        BY <1>1, <2>4, <4>1, ResponseGoto
      <4>2. CASE job[t] \in Invalidations /\ job[t].op = "invalidate"
        BY <1>1, <2>4, <4>2, ResponseGoto
      <4>3. QED
        BY <3>1, <4>1, <4>2
    <3>3. ResponseShape'
      BY <2>2, <3>2 DEF ResponseInv, ResponseShape
    <3>4. FillsInv'
      BY <2>2, <3>2 DEF ResponseInv, FillsInv
    <3>5. L1Inv'
      <4>1. \A u \in Workers : \A k : Removes(u, k) => Removes(u, k)'
        BY <2>2, <3>2 DEF Removes
      <4>2. QED
        BY <2>2, <4>1 DEF ResponseInv, L1Inv
    <3>6. L2Inv'
      BY <2>2, <2>4, <3>2 DEF ResponseInv, L2Inv
    <3>7. QED
      BY <3>3, <3>4, <3>5, <3>6 DEF ResponseInv
  <2>5. CASE /\ Finish(t)
             /\ lost' = IF job[t].op = "invalidate" THEN lost \cup {job[t].pubkey} ELSE lost
    <3>1. /\ \A u \in Workers : u # t => job'[u] = job[u]
          /\ job'[t].op = "idle" /\ job' \in [Workers -> ResponseJobs]
      BY <1>1, <2>5, ResponseFinish
    <3>2. ResponseShape' /\ FillsInv'
      BY <2>2, <3>1 DEF ResponseInv, ResponseShape, FillsInv
    <3>3. L1Inv'
      <4>1. \A u \in Workers : \A k : Removes(u, k) => Removes(u, k)'
        BY <2>2, <3>1 DEF Removes
      <4>2. QED
        BY <2>2, <4>1 DEF ResponseInv, L1Inv
    <3>4. L2Inv'
      BY <2>2, <2>5, <3>1 DEF ResponseInv, L2Inv
    <3>5. QED
      BY <3>2, <3>3, <3>4 DEF ResponseInv
  <2>6. QED
    BY <2>2, <2>4, <2>5
<1>8. ASSUME NEW t \in Workers, Set(t)
      PROVE  ResponseInv'
  <2> DEFINE e == [version |-> job[t].version, ttl |-> DefaultTtl]
  <2>1. /\ job[t].op = "fill" /\ job[t].pc = "set" /\ Finish(t)
        /\ UNCHANGED <<cache, version, overlapped, lost>>
        /\ \A k \in DOMAIN l2' : \/ k \in job[t].keys /\ l2'[k] = e
                                 \/ k \in DOMAIN l2 /\ l2'[k] = l2[k]
    BY <1>8 DEF Set, At
  <2>2. job[t] \in L2Fills
    BY <1>1, <2>1, ResponseFields DEF L1Fills
  <2>3. /\ job[t].version \in Int /\ job[t].keys \subseteq Keys /\ job[t].tier = "l2"
        /\ \A k \in job[t].keys : k.pubkey = job[t].pubkey
    BY <2>1, <2>2 DEF L2Fills, ResponseInv, ResponseShape
  <2>4. e \in [version : Int, ttl : Int] /\ e.version = job[t].version
    BY <2>3, CacheAssumption
  <2> HIDE DEF e
  <2>5. /\ \A u \in Workers : u # t => job'[u] = job[u]
        /\ job'[t].op = "idle" /\ job' \in [Workers -> ResponseJobs]
    BY <1>1, <2>1, ResponseFinish
  <2>6. ResponseShape'
    BY <2>1, <2>3, <2>4, <2>5 DEF ResponseInv, ResponseShape
  <2>7. FillsInv'
    BY <2>1, <2>5 DEF ResponseInv, FillsInv
  <2>8. L1Inv'
    <3>1. \A u \in Workers : \A k : Removes(u, k) => Removes(u, k)'
      BY <2>1, <2>5 DEF Removes
    <3>2. QED
      BY <2>1, <3>1 DEF ResponseInv, L1Inv
  <2>9. \/ <<"l2", job[t].pubkey>> \in overlapped
        \/ /\ job[t].version = version[job[t].pubkey]
           /\ \A u \in Workers : ~Invalidating(u, job[t].pubkey)
    BY <2>1, <2>3 DEF ResponseInv, FillsInv
  <2>10. L2Inv'
    <3>1. ASSUME NEW k \in DOMAIN l2'
          PROVE  \/ <<"l2", k.pubkey>> \in overlapped \/ k.pubkey \in lost
                 \/ l2'[k].version = version[k.pubkey]
                 \/ \E u \in Workers : Invalidating(u, k.pubkey)'
      BY <2>1, <2>3, <2>4, <2>5, <2>9 DEF ResponseInv, L2Inv
    <3>2. ASSUME NEW u \in Workers, job'[u].op = "invalidate", job'[u].pc = "del",
                 <<"l2", job'[u].pubkey>> \notin overlapped,
                 NEW k \in DOMAIN l2', k.pubkey = job'[u].pubkey
          PROVE  k \in job'[u].keys
      <4>1. u # t /\ job'[u] = job[u]
        BY <2>5, <3>2
      <4>2. k \notin job[t].keys
        BY <2>3, <2>9, <3>2, <4>1
      <4>3. k \in DOMAIN l2
        BY <2>1, <4>2
      <4>4. QED
        BY <3>2, <4>1, <4>3 DEF ResponseInv, L2Inv
    <3>3. QED
      BY <2>1, <3>1, <3>2 DEF L2Inv
  <2>11. QED
    BY <2>6, <2>7, <2>8, <2>10 DEF ResponseInv
<1>9. ASSUME NEW t \in Workers, CollectKeys(t)
      PROVE  ResponseInv'
  <2> DEFINE F == {k \in DOMAIN cache : k.pubkey = job[t].pubkey}
  <2>1. /\ job[t].op = "invalidate"
        /\ job' = [job EXCEPT ![t] = [job[t] EXCEPT !.pc = "remove", !.keys = F]]
        /\ UNCHANGED <<cache, l2, version, overlapped, lost>>
    BY <1>9 DEF CollectKeys, At
  <2>2. F \in SUBSET Keys
    BY DEF ResponseInv, ResponseShape
  <2>3. \A k \in DOMAIN cache : k.pubkey = job[t].pubkey => k \in F
    OBVIOUS
  <2> HIDE DEF F
  <2>4. /\ \A u \in Workers : u # t => job'[u] = job[u]
        /\ job'[t].op = "invalidate" /\ job'[t].pc = "remove" /\ job'[t].keys = F
        /\ job'[t].pubkey = job[t].pubkey
        /\ job' \in [Workers -> ResponseJobs]
    BY <1>1, <2>1, <2>2, ResponseFound
  <2>5. ResponseShape'
    BY <2>1, <2>4 DEF ResponseInv, ResponseShape
  <2>6. FillsInv'
    BY <2>1, <2>4 DEF ResponseInv, FillsInv
  <2>7. L1Inv'
    <3>1. \A u \in Workers : \A k \in DOMAIN cache : Removes(u, k) => Removes(u, k)'
      BY <2>1, <2>3, <2>4 DEF Removes
    <3>2. QED
      BY <2>1, <3>1 DEF ResponseInv, L1Inv
  <2>8. L2Inv'
    BY <2>1, <2>4 DEF ResponseInv, L2Inv
  <2>9. QED
    BY <2>5, <2>6, <2>7, <2>8 DEF ResponseInv
<1>10. ASSUME NEW t \in Workers, RemoveKey(t)
       PROVE  ResponseInv'
  <2>1. /\ job[t].op = "invalidate" /\ job[t].pc = "remove"
        /\ UNCHANGED <<l2, version, overlapped, lost>>
    BY <1>10 DEF RemoveKey, At
  <2>2. job[t] \in Invalidations
    BY <1>1, <2>1, ResponseFields
  <2>3. ASSUME NEW k \in job[t].keys, cache' = Without(cache, {k}),
               job' = [job EXCEPT ![t].keys = @ \ {k}]
        PROVE  ResponseInv'
    <3>1. job'[t] = [job[t] EXCEPT !.keys = @ \ {k}]
      BY <1>1, <2>3
    <3>2. /\ job'[t] \in Invalidations /\ job'[t].op = "invalidate"
          /\ job'[t].pc = "remove" /\ job'[t].keys = job[t].keys \ {k}
          /\ job'[t].pubkey = job[t].pubkey
      BY <2>1, <2>2, <3>1 DEF Invalidations
    <3>3. /\ \A u \in Workers : u # t => job'[u] = job[u]
          /\ job' \in [Workers -> ResponseJobs]
      BY <1>1, <2>3, <3>2 DEF ResponseJobs
    <3>4. \A q \in DOMAIN cache' : q \in DOMAIN cache /\ q # k /\ cache'[q] = cache[q]
      BY <2>3 DEF Without
    <3>5. ResponseShape'
      BY <2>1, <3>2, <3>3, <3>4 DEF ResponseInv, ResponseShape
    <3>6. FillsInv'
      BY <2>1, <3>2, <3>3 DEF ResponseInv, FillsInv
    <3>7. L1Inv'
      <4>1. \A u \in Workers : \A q \in DOMAIN cache' : Removes(u, q) => Removes(u, q)'
        BY <2>1, <3>2, <3>3, <3>4 DEF Removes
      <4>2. QED
        BY <2>1, <3>4, <4>1 DEF ResponseInv, L1Inv
    <3>8. L2Inv'
      BY <2>1, <3>2, <3>3 DEF ResponseInv, L2Inv
    <3>9. QED
      BY <3>5, <3>6, <3>7, <3>8 DEF ResponseInv
  <2>4. CASE job[t].keys = {} /\ Goto(t, "connect") /\ UNCHANGED cache
    <3>1. /\ \A u \in Workers : u # t => job'[u] = job[u]
          /\ job'[t].op = job[t].op /\ job'[t].pc = "connect"
          /\ job'[t].keys = job[t].keys /\ job'[t].pubkey = job[t].pubkey
          /\ job' \in [Workers -> ResponseJobs]
      BY <1>1, <2>2, <2>4, ResponseGoto
    <3>2. ResponseShape' /\ FillsInv'
      BY <2>1, <2>4, <3>1 DEF ResponseInv, ResponseShape, FillsInv
    <3>3. L1Inv'
      <4>1. \A u \in Workers : \A q : Removes(u, q) => Removes(u, q)'
        BY <2>1, <2>4, <3>1 DEF Removes
      <4>2. QED
        BY <2>1, <2>4, <4>1 DEF ResponseInv, L1Inv
    <3>4. L2Inv'
      BY <2>1, <3>1 DEF ResponseInv, L2Inv
    <3>5. QED
      BY <3>2, <3>3, <3>4 DEF ResponseInv
  <2>5. QED
    BY <1>10, <2>3, <2>4 DEF RemoveKey
<1>11. ASSUME NEW t \in Workers, job[t].op = "invalidate", job[t].pc \in {"scan", "del"},
              Finish(t), UNCHANGED <<cache, version, overlapped>>,
              \A k \in DOMAIN l2' : k \in DOMAIN l2 /\ l2'[k] = l2[k],
              \/ lost' = lost \cup {job[t].pubkey}
              \/ /\ lost' = lost \ {job[t].pubkey}
                 /\ \/ <<"l2", job[t].pubkey>> \in overlapped
                    \/ \A k \in DOMAIN l2' : k.pubkey # job[t].pubkey
       PROVE  ResponseInv'
  <2>1. /\ \A u \in Workers : u # t => job'[u] = job[u]
        /\ job'[t].op = "idle" /\ job' \in [Workers -> ResponseJobs]
    BY <1>1, <1>11, ResponseFinish
  <2>2. ResponseShape'
    BY <1>11, <2>1 DEF ResponseInv, ResponseShape
  <2>3. FillsInv'
    BY <1>11, <2>1 DEF ResponseInv, FillsInv
  <2>4. L1Inv'
    <3>1. \A u \in Workers : \A q : Removes(u, q) => Removes(u, q)'
      BY <1>11, <2>1 DEF Removes
    <3>2. QED
      BY <1>11, <3>1 DEF ResponseInv, L1Inv
  <2>5. L2Inv'
    <3>1. ASSUME NEW k \in DOMAIN l2'
          PROVE  \/ <<"l2", k.pubkey>> \in overlapped \/ k.pubkey \in lost'
                 \/ l2'[k].version = version[k.pubkey]
                 \/ \E u \in Workers : Invalidating(u, k.pubkey)'
      <4>1. CASE k.pubkey = job[t].pubkey
        BY <1>11, <4>1
      <4>2. CASE k.pubkey # job[t].pubkey
        <5>1. k.pubkey \in lost => k.pubkey \in lost'
          BY <1>11, <4>2
        <5>2. \A u \in Workers : Invalidating(u, k.pubkey) => Invalidating(u, k.pubkey)'
          BY <2>1, <4>2
        <5>3. QED
          BY <1>11, <5>1, <5>2 DEF ResponseInv, L2Inv
      <4>3. QED
        BY <4>1, <4>2
    <3>2. QED
      BY <1>11, <2>1, <3>1 DEF ResponseInv, L2Inv
  <2>6. QED
    BY <2>2, <2>3, <2>4, <2>5 DEF ResponseInv
<1>12. ASSUME NEW t \in Workers, ScanKeys(t)
       PROVE  ResponseInv'
  <2> DEFINE found == {k \in DOMAIN l2 : k.pubkey = job[t].pubkey}
  <2>1. /\ job[t].op = "invalidate" /\ job[t].pc = "scan"
        /\ UNCHANGED <<cache, l2, version, overlapped>>
        /\ \/ /\ job' = [job EXCEPT ![t] = [job[t] EXCEPT !.pc = "del", !.keys = found]]
              /\ lost' = lost
           \/ found = {} /\ Finish(t) /\ lost' = lost \ {job[t].pubkey}
           \/ Finish(t) /\ lost' = lost \cup {job[t].pubkey}
    BY <1>12 DEF ScanKeys, At
  <2>2. CASE Finish(t) /\ lost' = lost \cup {job[t].pubkey}
    BY <1>11, <2>1, <2>2
  <2>3. CASE found = {} /\ Finish(t) /\ lost' = lost \ {job[t].pubkey}
    BY <1>11, <2>1, <2>3
  <2>4. CASE /\ job' = [job EXCEPT ![t] = [job[t] EXCEPT !.pc = "del", !.keys = found]]
             /\ lost' = lost
    <3>1. found \in SUBSET Keys /\ \A k \in DOMAIN l2 : k.pubkey = job[t].pubkey => k \in found
      BY DEF ResponseInv, ResponseShape
    <3> HIDE DEF found
    <3>2. /\ \A u \in Workers : u # t => job'[u] = job[u]
          /\ job'[t].op = "invalidate" /\ job'[t].pc = "del" /\ job'[t].keys = found
          /\ job'[t].pubkey = job[t].pubkey
          /\ job' \in [Workers -> ResponseJobs]
      BY <1>1, <2>1, <2>4, <3>1, ResponseFound
    <3>3. ResponseShape'
      BY <2>1, <3>2 DEF ResponseInv, ResponseShape
    <3>4. FillsInv'
      BY <2>1, <3>2 DEF ResponseInv, FillsInv
    <3>5. L1Inv'
      <4>1. \A u \in Workers : \A q : Removes(u, q) => Removes(u, q)'
        BY <2>1, <3>2 DEF Removes
      <4>2. QED
        BY <2>1, <4>1 DEF ResponseInv, L1Inv
    <3>6. L2Inv'
      BY <2>1, <2>4, <3>1, <3>2 DEF ResponseInv, L2Inv
    <3>7. QED
      BY <3>3, <3>4, <3>5, <3>6 DEF ResponseInv
  <2>5. QED
    BY <2>1, <2>2, <2>3, <2>4
<1>13. ASSUME NEW t \in Workers, DelKeys(t)
       PROVE  ResponseInv'
  <2>1. /\ job[t].op = "invalidate" /\ job[t].pc = "del" /\ Finish(t)
        /\ UNCHANGED <<cache, version, overlapped>>
        /\ l2' = IF server THEN Without(l2, job[t].keys) ELSE l2
        /\ lost' = IF server THEN lost \ {job[t].pubkey} ELSE lost \cup {job[t].pubkey}
    BY <1>13 DEF DelKeys, At
  <2>2. CASE server
    <3>1. \A k \in DOMAIN l2' : k \in DOMAIN l2 /\ k \notin job[t].keys /\ l2'[k] = l2[k]
      BY <2>1, <2>2 DEF Without
    <3>2. \/ <<"l2", job[t].pubkey>> \in overlapped
          \/ \A k \in DOMAIN l2' : k.pubkey # job[t].pubkey
      BY <2>1, <3>1 DEF ResponseInv, L2Inv
    <3>3. QED
      BY <1>11, <2>1, <2>2, <3>1, <3>2
  <2>3. CASE ~server
    BY <1>11, <2>1, <2>3
  <2>4. QED
    BY <2>2, <2>3
<1>14. ASSUME UNCHANGED <<version, job, overlapped, lost>>,
              \A k \in DOMAIN cache' : /\ k \in DOMAIN cache
                                      /\ cache'[k] \in [version : Int, age : Int]
                                      /\ cache'[k].version = cache[k].version,
              \A k \in DOMAIN l2' : /\ k \in DOMAIN l2
                                   /\ l2'[k] \in [version : Int, ttl : Int]
                                   /\ l2'[k].version = l2[k].version
       PROVE  ResponseInv'
  <2>1. ResponseShape' /\ FillsInv'
    BY <1>14 DEF ResponseInv, ResponseShape, FillsInv
  <2>2. L1Inv'
    BY <1>14 DEF ResponseInv, L1Inv, Removes
  <2>3. L2Inv'
    BY <1>14 DEF ResponseInv, L2Inv
  <2>4. QED
    BY <2>1, <2>2, <2>3 DEF ResponseInv
<1>15. CASE Tick
  <2>1. /\ cache' = [k \in DOMAIN cache |->
                        [cache[k] EXCEPT !.age = IF @ < OldAge THEN @ + 1 ELSE @]]
        /\ l2' = [k \in {j \in DOMAIN l2 : l2[j].ttl # 1} |->
                     [l2[k] EXCEPT !.ttl = IF @ > 1 THEN @ - 1 ELSE @]]
        /\ UNCHANGED <<version, job, overlapped, lost>>
    BY <1>15 DEF Tick
  <2>2. \A k \in DOMAIN cache' : /\ k \in DOMAIN cache
                                /\ cache'[k] \in [version : Int, age : Int]
                                /\ cache'[k].version = cache[k].version
    <3> SUFFICES ASSUME NEW k \in DOMAIN cache'
                 PROVE  /\ k \in DOMAIN cache
                        /\ cache'[k] \in [version : Int, age : Int]
                        /\ cache'[k].version = cache[k].version
      OBVIOUS
    <3>1. k \in DOMAIN cache /\ cache[k] \in [version : Int, age : Int]
      BY <2>1 DEF ResponseInv, ResponseShape
    <3> DEFINE a == IF cache[k].age < OldAge THEN cache[k].age + 1 ELSE cache[k].age
    <3>2. cache'[k] = [cache[k] EXCEPT !.age = a]
      BY <2>1, <3>1
    <3>3. a \in Int
      BY <3>1
    <3> HIDE DEF a
    <3>4. QED
      BY <3>1, <3>2, <3>3
  <2>3. \A k \in DOMAIN l2' : /\ k \in DOMAIN l2
                             /\ l2'[k] \in [version : Int, ttl : Int]
                             /\ l2'[k].version = l2[k].version
    <3> SUFFICES ASSUME NEW k \in DOMAIN l2'
                 PROVE  /\ k \in DOMAIN l2
                        /\ l2'[k] \in [version : Int, ttl : Int]
                        /\ l2'[k].version = l2[k].version
      OBVIOUS
    <3>1. k \in DOMAIN l2 /\ l2[k] \in [version : Int, ttl : Int]
      BY <2>1 DEF ResponseInv, ResponseShape
    <3> DEFINE a == IF l2[k].ttl > 1 THEN l2[k].ttl - 1 ELSE l2[k].ttl
    <3>2. l2'[k] = [l2[k] EXCEPT !.ttl = a]
      BY <2>1, <3>1
    <3>3. a \in Int
      BY <3>1
    <3> HIDE DEF a
    <3>4. QED
      BY <3>1, <3>2, <3>3
  <2>4. QED
    BY <1>14, <2>1, <2>2, <2>3
<1>16. CASE Clear \/ Close \/ ServerFails \/ ServerReturns \/ UNCHANGED responseVars
  <2>1. /\ UNCHANGED <<version, job, overlapped, lost, l2>>
        /\ \A k \in DOMAIN cache' : k \in DOMAIN cache /\ cache'[k] = cache[k]
    BY <1>16 DEF Clear, EmptyMap, Close, ServerFails, ServerReturns, responseVars, responseState
  <2>2. QED
    BY <1>14, <2>1 DEF ResponseInv, ResponseShape
<1>17. QED
  BY <1>3, <1>4, <1>5, <1>6, <1>7, <1>8, <1>9, <1>10, <1>12, <1>13, <1>15, <1>16
     DEF ResponseNext, ResponseStep

\* The invariant of the response caches holds throughout.
LEMMA ResponseInvariant == ResponseSpec => []ResponseInv
<1>1. ResponseInit => ResponseInv
  <2> SUFFICES ASSUME ResponseInit PROVE ResponseInv
    OBVIOUS
  <2>1. /\ job \in [Workers -> ResponseJobs] /\ \A t \in Workers : job[t].op = "idle"
        /\ version \in [Pubkeys -> Int]
        /\ DOMAIN cache = {} /\ DOMAIN l2 = {}
    BY DEF ResponseInit, JobsInit, VersionInit, ResponseJobs, NoJob, EmptyMap
  <2>2. QED
    BY <2>1 DEF ResponseInv, ResponseShape, FillsInv, L1Inv, L2Inv, Filling
<1>2. ResponseInv /\ [ResponseNext]_responseVars => ResponseInv'
  BY ResponseStepInv
<1>3. QED
  BY <1>1, <1>2, PTL DEF ResponseSpec

\* For any accounts, commitments, capacity, TTLs and number of threads: an L1 entry is
\* stale only while an invalidation of the account is under way, unless a fill met a
\* change of the account.
THEOREM L1Fresh == ResponseSpec => []L1FreshUnlessOverlapped
<1>1. ResponseInv => L1FreshUnlessOverlapped
  BY DEF ResponseInv, L1Inv, Removes, Invalidating, L1FreshUnlessOverlapped, StaleL1, Working
<1>2. QED
  BY <1>1, ResponseInvariant, PTL

\* For any accounts, commitments, TTLs, failures of the server and number of threads: the
\* same of DragonflyDB, or the last invalidation of the account did not reach the server.
THEOREM L2Fresh == ResponseSpec => []L2FreshUnlessLost
<1>1. ResponseInv => L2FreshUnlessLost
  BY DEF ResponseInv, L2Inv, Invalidating, L2FreshUnlessLost, StaleL2, Working
<1>2. QED
  BY <1>1, ResponseInvariant, PTL


----------------------------------------------------------------------------
(* The limiter of the RPC server. *)

\* The requests of a client let through in a span of time.
RequestsIn(c, lo, hi) == {x \in allowed[c] : lo <= x[2] /\ x[2] < hi}

\* What the window w of client c knows of the requests let through: it lasts a second, it
\* has those of the last second that came in it, and a second within it holds no more
\* than the limit.
Limited(c, w) ==
    /\ DOMAIN w = {"timestamps", "window_start"}
    /\ w.window_start \in Nat /\ w.window_start <= clock
    /\ w.timestamps \subseteq allowed[c] /\ Cardinality(w.timestamps) <= limit
    /\ \A x \in allowed[c] : x[2] <= w.window_start + Second
    /\ \A x \in allowed[c] : w.window_start <= x[2] /\ clock - x[2] < Second => x \in w.timestamps
    /\ \A lo \in Int : w.window_start <= lo =>
          Cardinality(RequestsIn(c, lo, lo + Second)) <= limit

ClientOk(c) ==
    /\ IsFiniteSet(allowed[c])
    /\ \A x \in allowed[c] : x[2] \in Nat /\ x[2] <= clock
    /\ IF c \in DOMAIN ip_windows THEN Limited(c, ip_windows[c]) ELSE allowed[c] = {}

RefusedOk == \A r \in refused :
    r[1] \in Clients /\ r[2] \in Nat /\ limit <= Within(r[1], r[2] - Second + 1)

LimiterInv ==
    /\ clock \in Nat /\ DOMAIN allowed = Clients /\ DOMAIN ip_windows \subseteq Clients
    /\ \A c \in Clients : ClientOk(c)
    /\ RefusedOk

LEMMA FewerRequests ==
  ASSUME NEW S, IsFiniteSet(S), NEW T, T \subseteq S
  PROVE  /\ IsFiniteSet(T) /\ Cardinality(T) \in Nat /\ Cardinality(S) \in Nat
         /\ Cardinality(T) <= Cardinality(S)
BY FS_Subset, FS_CardinalityType

\* What allow() finds before it counts: the window that goes on, or a new one.
LEMMA WindowIsLimited ==
  ASSUME LimiterInv, NEW c \in Clients, NEW w, w = Window(c)
  PROVE  /\ Limited(c, w) /\ clock <= w.window_start + Second
         /\ \A x \in w.timestamps : clock - x[2] < Second
<1>1. limit \in Nat /\ Second \in Nat /\ clock \in Nat
  BY RpcAssumption DEF LimiterInv
<1>2. /\ IsFiniteSet(allowed[c]) /\ \A x \in allowed[c] : x[2] \in Nat /\ x[2] <= clock
      /\ IF c \in DOMAIN ip_windows THEN Limited(c, ip_windows[c]) ELSE allowed[c] = {}
  BY DEF LimiterInv, ClientOk
<1>3. Cardinality({}) = 0
  BY FS_EmptySet
<1>4. PICK old : old = IF c \in DOMAIN ip_windows THEN ip_windows[c]
                       ELSE [timestamps |-> {}, window_start |-> clock]
  OBVIOUS
<1>5. Limited(c, old)
  <2>1. CASE c \in DOMAIN ip_windows
    BY <1>2, <1>4, <2>1
  <2>2. CASE c \notin DOMAIN ip_windows
    <3>1. old = [timestamps |-> {}, window_start |-> clock] /\ allowed[c] = {}
      BY <1>2, <1>4, <2>2
    <3>2. \A lo, hi : RequestsIn(c, lo, hi) = {}
      BY <3>1 DEF RequestsIn
    <3>3. /\ DOMAIN old = {"timestamps", "window_start"}
          /\ old.timestamps = {} /\ old.window_start = clock
      BY <3>1
    <3>4. \A lo, hi : Cardinality(RequestsIn(c, lo, hi)) <= limit
      BY <1>1, <1>3, <3>2
    <3>5. QED
      BY <1>1, <1>3, <3>1, <3>3, <3>4 DEF Limited
  <2>3. QED
    BY <2>1, <2>2
<1>6. PICK new : new = IF clock - old.window_start > Second
                       THEN [timestamps |-> {}, window_start |-> clock] ELSE old
  OBVIOUS
<1>7. w = [new EXCEPT !.timestamps = Kept(@)]
  BY <1>4, <1>6 DEF Window
<1>8. Limited(c, new) /\ clock <= new.window_start + Second
  <2>1. CASE clock - old.window_start > Second
    <3>1. new = [timestamps |-> {}, window_start |-> clock] /\ old.window_start \in Nat
      BY <1>5, <1>6, <2>1 DEF Limited
    <3>2. \A x \in allowed[c] : x[2] < clock
      BY <1>1, <1>2, <1>5, <2>1 DEF Limited
    <3>3. ASSUME NEW lo \in Int, clock <= lo
          PROVE  Cardinality(RequestsIn(c, lo, lo + Second)) <= limit
      <4>1. RequestsIn(c, lo, lo + Second) = {}
        BY <1>1, <1>2, <3>2, <3>3 DEF RequestsIn
      <4>2. QED
        BY <1>1, <1>3, <4>1
    <3>5. new.window_start = clock /\ new.timestamps = {} /\ DOMAIN new = {"timestamps", "window_start"}
      BY <3>1
    <3>6. QED
      BY <1>1, <1>2, <1>3, <3>2, <3>3, <3>5 DEF Limited
  <2>2. CASE ~(clock - old.window_start > Second)
    BY <1>1, <1>5, <1>6, <2>2 DEF Limited
  <2>3. QED
    BY <2>1, <2>2
<1>9. /\ DOMAIN w = {"timestamps", "window_start"} /\ w.window_start = new.window_start
      /\ w.timestamps = {x \in new.timestamps : clock - x[2] < Second}
  BY <1>7, <1>8 DEF Limited, Kept
<1>10. Cardinality(w.timestamps) <= limit
  <2>1. w.timestamps \subseteq new.timestamps /\ new.timestamps \subseteq allowed[c]
    BY <1>8, <1>9 DEF Limited
  <2>2. IsFiniteSet(new.timestamps)
    BY <1>2, <2>1, FewerRequests
  <2>3. Cardinality(w.timestamps) \in Nat /\ Cardinality(new.timestamps) \in Nat
           /\ Cardinality(w.timestamps) <= Cardinality(new.timestamps)
    BY <2>1, <2>2, FewerRequests
  <2>4. Cardinality(new.timestamps) <= limit
    BY <1>8 DEF Limited
  <2>5. QED
    BY <1>1, <2>3, <2>4
<1>11. QED
  BY <1>8, <1>9, <1>10 DEF Limited

\* Requests that are let through later only add to those of a second.
LEMMA RefusedStays ==
  ASSUME LimiterInv, \A c \in Clients : allowed[c] \subseteq allowed'[c] /\ IsFiniteSet(allowed'[c]),
         refused' = refused
  PROVE  RefusedOk'
<1> SUFFICES ASSUME NEW r \in refused
             PROVE  r[1] \in Clients /\ r[2] \in Nat /\ limit <= Within(r[1], r[2] - Second + 1)'
  BY DEF RefusedOk
<1>1. r[1] \in Clients /\ r[2] \in Nat /\ limit <= Within(r[1], r[2] - Second + 1)
  BY DEF LimiterInv, RefusedOk
<1>2. PICK c, from : c = r[1] /\ from = r[2] - Second + 1
  OBVIOUS
<1>3. PICK S, T : /\ S = {x \in allowed[c] : from <= x[2] /\ x[2] < from + Second}
                  /\ T = {x \in allowed'[c] : from <= x[2] /\ x[2] < from + Second}
  OBVIOUS
<1>4. S \subseteq T /\ T \subseteq allowed'[c] /\ IsFiniteSet(allowed'[c])
  BY <1>1, <1>2, <1>3
<1>5. IsFiniteSet(T)
  BY <1>4, FewerRequests
<1>6. Cardinality(S) <= Cardinality(T) /\ Cardinality(S) \in Nat /\ Cardinality(T) \in Nat
  BY <1>4, <1>5, FewerRequests
<1>7. limit <= Cardinality(S)
  BY <1>1, <1>2, <1>3 DEF Within
<1>8. limit <= Cardinality(T)
  BY <1>6, <1>7, RpcAssumption
<1>9. QED
  BY <1>1, <1>2, <1>3, <1>8 DEF Within

\* A client whose window and requests a step leaves alone, as time goes on.
LEMMA ClientStays ==
  ASSUME LimiterInv, NEW c \in Clients, clock' \in Nat, clock <= clock',
         c \in DOMAIN ip_windows' <=> c \in DOMAIN ip_windows,
         c \in DOMAIN ip_windows => ip_windows'[c] = ip_windows[c],
         allowed'[c] = allowed[c]
  PROVE  ClientOk(c)'
<1>1. ClientOk(c) /\ clock \in Nat /\ Second \in Nat
  BY RpcAssumption DEF LimiterInv
<1>2. \A lo, hi : RequestsIn(c, lo, hi)' = RequestsIn(c, lo, hi)
  BY DEF RequestsIn
<1>3. ASSUME c \in DOMAIN ip_windows, NEW w, w = ip_windows[c]
      PROVE  Limited(c, w)'
  <2>1. Limited(c, w) /\ \A x \in allowed[c] : x[2] \in Nat
    BY <1>1, <1>3 DEF ClientOk
  <2>2. /\ w.window_start <= clock'
        /\ \A x \in allowed'[c] : w.window_start <= x[2] /\ clock' - x[2] < Second => x \in w.timestamps
    BY <1>1, <2>1 DEF Limited
  <2>3. QED
    BY <1>2, <2>1, <2>2 DEF Limited
<1>4. \A x \in allowed'[c] : x[2] \in Nat /\ x[2] <= clock'
  BY <1>1 DEF ClientOk
<1>5. QED
  BY <1>1, <1>2, <1>3, <1>4 DEF ClientOk

LEMMA AllowKeeps ==
  ASSUME LimiterInv, NEW c \in Clients, Allow(c), clock' = clock
  PROVE  LimiterInv'
<1>1. limit \in Nat /\ Second \in Nat \ {0} /\ clock \in Nat
  BY RpcAssumption DEF LimiterInv
<1>2. PICK w : w = Window(c)
  OBVIOUS
<1>3. /\ Limited(c, w) /\ clock <= w.window_start + Second
      /\ \A x \in w.timestamps : clock - x[2] < Second
  BY <1>2, WindowIsLimited
<1>4. PICK r : r = Request(c)
  OBVIOUS
<1>5. r[2] = clock
  BY <1>4 DEF Request
<1>6. PICK v : v = [w EXCEPT !.timestamps = @ \cup {r}]
  OBVIOUS
<1>7. /\ ip_windows' = Put(ip_windows, c, v) /\ Cardinality(w.timestamps) < limit
      /\ allowed' = [allowed EXCEPT ![c] = @ \cup {r}] /\ refused' = refused
  BY <1>2, <1>4, <1>6 DEF Allow
<1>8. /\ DOMAIN v = {"timestamps", "window_start"} /\ v.window_start = w.window_start
      /\ v.timestamps = w.timestamps \cup {r}
  BY <1>3, <1>6 DEF Limited
<1>9. /\ DOMAIN allowed' = Clients /\ allowed'[c] = allowed[c] \cup {r}
      /\ \A d \in Clients : d # c => allowed'[d] = allowed[d]
  BY <1>7 DEF LimiterInv
<1>10. /\ DOMAIN ip_windows' = DOMAIN ip_windows \cup {c} /\ ip_windows'[c] = v
       /\ \A d \in DOMAIN ip_windows : d # c => ip_windows'[d] = ip_windows[d]
  BY <1>7 DEF Put
<1>11. /\ IsFiniteSet(allowed[c]) /\ \A x \in allowed[c] : x[2] \in Nat /\ x[2] <= clock
  BY DEF LimiterInv, ClientOk
<1>12. IsFiniteSet(allowed'[c])
  BY <1>9, <1>11, FS_AddElement
<1>13. \A lo, hi : (lo <= clock /\ clock < hi => RequestsIn(c, lo, hi)' = RequestsIn(c, lo, hi) \cup {r})
                /\ (~(lo <= clock /\ clock < hi) => RequestsIn(c, lo, hi)' = RequestsIn(c, lo, hi))
  BY <1>5, <1>9 DEF RequestsIn
<1>14. ASSUME NEW S, S \subseteq w.timestamps
       PROVE  IsFiniteSet(S \cup {r}) /\ Cardinality(S \cup {r}) <= limit
  <2>1. w.timestamps \subseteq allowed[c]
    BY <1>3 DEF Limited
  <2>2. IsFiniteSet(w.timestamps)
    BY <1>11, <2>1, FewerRequests
  <2>3. /\ IsFiniteSet(S) /\ Cardinality(S) \in Nat /\ Cardinality(w.timestamps) \in Nat
        /\ Cardinality(S) <= Cardinality(w.timestamps)
    BY <1>14, <2>2, FewerRequests
  <2>4. Cardinality(S) + 1 <= limit
    BY <1>1, <1>7, <2>3
  <2>5. /\ IsFiniteSet(S \cup {r})
        /\ Cardinality(S \cup {r}) = IF r \in S THEN Cardinality(S) ELSE Cardinality(S) + 1
    BY <2>3, FS_AddElement
  <2>6. QED
    BY <1>1, <2>3, <2>4, <2>5
<1>15. ASSUME NEW lo \in Int, w.window_start <= lo
       PROVE  Cardinality(RequestsIn(c, lo, lo + Second)') <= limit
  <2>1. CASE lo <= clock /\ clock < lo + Second
    <3>1. RequestsIn(c, lo, lo + Second) \subseteq w.timestamps
      BY <1>1, <1>3, <1>11, <1>15, <2>1 DEF RequestsIn, Limited
    <3>2. RequestsIn(c, lo, lo + Second)' = RequestsIn(c, lo, lo + Second) \cup {r}
      BY <1>13, <2>1
    <3>3. QED
      BY <1>14, <3>1, <3>2
  <2>2. CASE ~(lo <= clock /\ clock < lo + Second)
    <3>1. RequestsIn(c, lo, lo + Second)' = RequestsIn(c, lo, lo + Second)
      BY <1>13, <2>2
    <3>2. QED
      BY <1>3, <1>15, <3>1 DEF Limited
  <2>3. QED
    BY <2>1, <2>2
<1>17. Limited(c, v)'
  <2>1. v.window_start \in Nat /\ v.window_start <= clock'
    BY <1>3, <1>8 DEF Limited
  <2>2. v.timestamps \subseteq allowed'[c] /\ Cardinality(v.timestamps) <= limit
    BY <1>3, <1>8, <1>9, <1>14 DEF Limited
  <2>3. \A x \in allowed'[c] : x[2] <= v.window_start + Second
    BY <1>3, <1>5, <1>8, <1>9 DEF Limited
  <2>4. \A x \in allowed'[c] : v.window_start <= x[2] /\ clock' - x[2] < Second => x \in v.timestamps
    BY <1>3, <1>8, <1>9 DEF Limited
  <2>5. QED
    BY <1>8, <1>15, <2>1, <2>2, <2>3, <2>4 DEF Limited
<1>19. ClientOk(c)'
  <2>1. \A x \in allowed'[c] : x[2] \in Nat /\ x[2] <= clock'
    BY <1>1, <1>5, <1>9, <1>11
  <2>2. QED
    BY <1>10, <1>12, <1>17, <2>1 DEF ClientOk
<1>20. ASSUME NEW d \in Clients, d # c PROVE ClientOk(d)'
  BY <1>1, <1>9, <1>10, <1>20, ClientStays
<1>21. RefusedOk'
  <2>1. ASSUME NEW d \in Clients PROVE allowed[d] \subseteq allowed'[d] /\ IsFiniteSet(allowed'[d])
    BY <1>9, <1>12 DEF LimiterInv, ClientOk
  <2>2. QED
    BY <1>7, <2>1, RefusedStays
<1>22. QED
  BY <1>1, <1>9, <1>10, <1>19, <1>20, <1>21 DEF LimiterInv

LEMMA RefuseKeeps ==
  ASSUME LimiterInv, NEW c \in Clients, Refuse(c), clock' = clock
  PROVE  LimiterInv'
<1>1. limit \in Nat /\ Second \in Nat /\ clock \in Nat
  BY RpcAssumption DEF LimiterInv
<1>2. PICK w : w = Window(c)
  OBVIOUS
<1>3. Limited(c, w) /\ \A x \in w.timestamps : clock - x[2] < Second
  BY <1>2, WindowIsLimited
<1>4. /\ ip_windows' = Put(ip_windows, c, w) /\ Cardinality(w.timestamps) >= limit
      /\ allowed' = allowed /\ refused' = refused \cup {<<c, clock>>}
  BY <1>2 DEF Refuse
<1>5. /\ DOMAIN ip_windows' = DOMAIN ip_windows \cup {c} /\ ip_windows'[c] = w
      /\ \A d \in DOMAIN ip_windows : d # c => ip_windows'[d] = ip_windows[d]
  BY <1>4 DEF Put
<1>6. ClientOk(c)'
  <2>1. \A lo, hi : RequestsIn(c, lo, hi)' = RequestsIn(c, lo, hi)
    BY <1>4 DEF RequestsIn
  <2>2. Limited(c, w)'
    BY <1>3, <1>4, <2>1 DEF Limited
  <2>3. QED
    BY <1>4, <1>5, <2>1, <2>2 DEF LimiterInv, ClientOk
<1>7. ASSUME NEW d \in Clients, d # c PROVE ClientOk(d)'
  BY <1>1, <1>4, <1>5, <1>7, ClientStays
<1>8. limit <= Within(c, clock - Second + 1)
  <2>1. PICK S : S = {x \in allowed[c] : /\ clock - Second + 1 <= x[2]
                                         /\ x[2] < clock - Second + 1 + Second}
    OBVIOUS
  <2>2. IsFiniteSet(allowed[c]) /\ \A x \in allowed[c] : x[2] \in Nat /\ x[2] <= clock
    BY DEF LimiterInv, ClientOk
  <2>3. w.timestamps \subseteq S /\ S \subseteq allowed[c]
    BY <1>1, <1>3, <2>1, <2>2 DEF Limited
  <2>4. IsFiniteSet(S)
    BY <2>2, <2>3, FewerRequests
  <2>5. Cardinality(w.timestamps) <= Cardinality(S) /\ Cardinality(w.timestamps) \in Nat
           /\ Cardinality(S) \in Nat
    BY <2>3, <2>4, FewerRequests
  <2>6. limit <= Cardinality(S)
    BY <1>1, <1>4, <2>5
  <2>7. QED
    BY <2>1, <2>6 DEF Within
<1>9. RefusedOk'
  <2>1. \A d, from : Within(d, from)' = Within(d, from)
    BY <1>4 DEF Within
  <2>2. QED
    BY <1>1, <1>4, <1>8, <2>1 DEF LimiterInv, RefusedOk
<1>10. QED
  BY <1>1, <1>4, <1>5, <1>6, <1>7, <1>9 DEF LimiterInv

LEMMA LimiterInvHolds == RpcSpec => []LimiterInv
<1>1. RpcInit => LimiterInv
  <2> SUFFICES ASSUME RpcInit PROVE LimiterInv
    OBVIOUS
  <2>1. \A c \in Clients : \A lo, hi : RequestsIn(c, lo, hi) = {}
    BY DEF RpcInit, RequestsIn
  <2>2. IsFiniteSet({}) /\ Cardinality({}) = 0
    BY FS_EmptySet
  <2>3. \A c \in Clients : ClientOk(c)
    <3>1. \A c \in Clients : allowed[c] = {} /\ c \notin DOMAIN ip_windows
      BY DEF RpcInit, EmptyMap
    <3>2. QED
      BY <2>1, <2>2, <3>1 DEF ClientOk
  <2>4. QED
    BY <2>3 DEF RpcInit, LimiterInv, RefusedOk, EmptyMap
<1>2. LimiterInv /\ [RpcNext]_rpcVars => LimiterInv'
  <2> SUFFICES ASSUME LimiterInv, [RpcNext]_rpcVars PROVE LimiterInv'
    OBVIOUS
  <2>1. ASSUME NEW c \in Clients, Allow(c), clock' = clock PROVE LimiterInv'
    BY <2>1, AllowKeeps
  <2>2. ASSUME NEW c \in Clients, Refuse(c), clock' = clock PROVE LimiterInv'
    BY <2>2, RefuseKeeps
  <2>3. ASSUME UNCHANGED <<ip_windows, allowed, refused>>, clock' = clock \/ clock' = clock + 1
        PROVE  LimiterInv'
    <3>1. clock \in Nat /\ clock' \in Nat /\ clock <= clock'
      BY <2>3 DEF LimiterInv
    <3>2. \A c \in Clients : ClientOk(c)'
      BY <2>3, <3>1, ClientStays
    <3>3. RefusedOk'
      BY <2>3, RefusedStays DEF LimiterInv, ClientOk
    <3>4. QED
      BY <2>3, <3>1, <3>2, <3>3 DEF LimiterInv
  <2>4. CASE ClockTick
    BY <2>3, <2>4 DEF ClockTick
  <2>5. ASSUME NEW t \in Workers, Plain(t) \/ Body(t) PROVE LimiterInv'
    BY <2>3, <2>5 DEF Plain, Body
  <2>6. ASSUME NEW t \in Workers, NEW c \in Clients, Post(t, c) PROVE LimiterInv'
    BY <2>1, <2>2, <2>6 DEF Post
  <2>7. CASE UNCHANGED rpcVars
    BY <2>3, <2>7 DEF rpcVars, rpcState
  <2>8. QED
    BY <2>4, <2>5, <2>6, <2>7 DEF RpcNext
<1>3. QED
  BY <1>1, <1>2, PTL DEF RpcSpec

\* For any limit, clients and number of connections: since its window was last emptied no
\* second holds more of a client's requests than the limit, only a client that used up the
\* limit in the last second is refused, and get_count() is never above the limit.
THEOREM RateLimited == RpcSpec => []RateBounded
<1>1. LimiterInv => RateBounded
  <2> SUFFICES ASSUME LimiterInv PROVE RateBounded
    OBVIOUS
  <2>1. limit \in Nat /\ Second \in Nat /\ clock \in Nat
    BY RpcAssumption DEF LimiterInv
  <2>2. ASSUME NEW c \in DOMAIN ip_windows, NEW from \in ip_windows[c].window_start .. clock
        PROVE  Within(c, from) <= limit
    <3>1. Within(c, from) = Cardinality(RequestsIn(c, from, from + Second))
      BY DEF Within, RequestsIn
    <3>2. Limited(c, ip_windows[c])
      BY DEF LimiterInv, ClientOk
    <3>3. from \in Int /\ ip_windows[c].window_start <= from
      BY <3>2 DEF Limited
    <3>4. QED
      BY <3>1, <3>2, <3>3 DEF Limited
  <2>3. ASSUME NEW r \in refused PROVE Within(r[1], r[2] - Second + 1) >= limit
    <3>1. limit <= Within(r[1], r[2] - Second + 1)
      BY DEF LimiterInv, RefusedOk
    <3>2. QED
      BY <3>1
  <2>4. ASSUME NEW c \in Clients
        PROVE  get_count(c) <= limit /\ get_count(c) <= Within(c, clock - Second + 1)
    <3>1. IsFiniteSet(allowed[c]) /\ \A x \in allowed[c] : x[2] \in Nat /\ x[2] <= clock
      BY DEF LimiterInv, ClientOk
    <3>2. PICK S : S = {x \in allowed[c] : /\ clock - Second + 1 <= x[2]
                                           /\ x[2] < clock - Second + 1 + Second}
      OBVIOUS
    <3>3. Within(c, clock - Second + 1) = Cardinality(S)
      BY <3>2 DEF Within
    <3>4. IsFiniteSet(S) /\ Cardinality(S) \in Nat
      BY <3>1, <3>2, FewerRequests
    <3>5. CASE c \notin DOMAIN ip_windows
      <4>1. get_count(c) = 0
        BY <3>5 DEF get_count
      <4>2. QED
        BY <2>1, <3>3, <3>4, <4>1
    <3>6. CASE c \in DOMAIN ip_windows
      <4>1. PICK w : w = ip_windows[c]
        OBVIOUS
      <4>2. Limited(c, w)
        BY <3>6, <4>1 DEF LimiterInv, ClientOk
      <4>3. PICK K : K = Kept(w.timestamps)
        OBVIOUS
      <4>4. K \subseteq w.timestamps /\ w.timestamps \subseteq allowed[c] /\ K \subseteq S
        BY <2>1, <3>1, <3>2, <4>2, <4>3 DEF Kept, Limited
      <4>5. IsFiniteSet(w.timestamps)
        BY <3>1, <4>4, FewerRequests
      <4>6. /\ Cardinality(K) \in Nat /\ Cardinality(w.timestamps) \in Nat
            /\ Cardinality(K) <= Cardinality(w.timestamps)
        BY <4>4, <4>5, FewerRequests
      <4>7. Cardinality(K) <= Cardinality(S)
        BY <3>4, <4>4, FewerRequests
      <4>8. Cardinality(w.timestamps) <= limit
        BY <4>2 DEF Limited
      <4>9. get_count(c) = Cardinality(K)
        BY <3>6, <4>1, <4>3 DEF get_count
      <4>10. QED
        BY <2>1, <3>3, <4>6, <4>7, <4>8, <4>9
    <3>7. QED
      BY <3>5, <3>6
  <2>5. QED
    BY <2>2, <2>3, <2>4 DEF RateBounded
<1>2. QED
  BY <1>1, LimiterInvHolds, PTL

----------------------------------------------------------------------------
(* LsmBitmap, for every set of ids, readers and compaction threads and every *)
(* threshold.  The hypothesis SingleCompactor (one inserting thread, nobody  *)
(* calling compact()) is what the code needs: TLC shows that two inserters   *)
(* lose ids (run lsm_concurrent_inserts).                                    *)

USE DEF Compactions

\* Every state of the bitmap is well-formed: in particular the vector of deltas
\* always holds exactly one delta, so last_mut().unwrap() in insert() never fails
\* and the max_deltas threshold of should_compact() is never reached.
THEOREM LsmTypeCorrect == LsmSpec => []LsmTypeOK
<1>1. LsmInit => LsmTypeOK
  <2> SUFFICES ASSUME LsmInit PROVE LsmTypeOK
    OBVIOUS
  <2>1. deltas \in Seq(SUBSET Ids) /\ Len(deltas) = 1
    BY DEF LsmInit
  <2>2. want \in [Inserters -> BOOLEAN] /\ expect \in [Readers -> BOOLEAN]
    BY DEF LsmInit
  <2>3. QED
    BY <2>1, <2>2 DEF LsmInit, LsmTypeOK
<1>2. LsmTypeOK /\ [LsmNext]_lsmVars => LsmTypeOK'
  <2> SUFFICES ASSUME LsmTypeOK, [LsmNext]_lsmVars
               PROVE  LsmTypeOK'
    OBVIOUS
  <2> USE LsmAssumption DEF LsmTypeOK
  <2>1. ASSUME NEW i \in Inserters, NEW id \in Ids, InsertDelta(i, id)
        PROVE  LsmTypeOK'
    BY <2>1 DEF InsertDelta, comp, rd
  <2>2. ASSUME NEW i \in Inserters, ShouldCompact(i)
        PROVE  LsmTypeOK'
    BY <2>2 DEF ShouldCompact, lsm, comp, rd
  <2>3. ASSUME NEW i \in Inserters, ReadFlag(i)
        PROVE  LsmTypeOK'
    BY <2>3 DEF ReadFlag, lsm, comp, rd
  <2>4. ASSUME NEW i \in Inserters, NEW j \in Jobs, Trigger(i, j)
        PROVE  LsmTypeOK'
    BY <2>4 DEF Trigger, rd
  <2>5. ASSUME NEW c \in CompactCallers, CallCompact(c)
        PROVE  LsmTypeOK'
    BY <2>5 DEF CallCompact, lsm, ins, rd
  <2>6. ASSUME NEW c \in Compactions, Compact(c)
        PROVE  LsmTypeOK'
    <3>1. CASE CloneBase(c)
      BY <3>1 DEF CloneBase, lsm, ins, rd
    <3>2. CASE MergeDeltas(c)
      <4>1. InDeltas \in SUBSET Ids
        BY DEF InDeltas
      <4>2. QED
        BY <3>2, <4>1 DEF MergeDeltas, ins, rd
    <3>3. CASE SwapBase(c)
      BY <3>3 DEF SwapBase, ins, rd
    <3>4. CASE ResetCounter(c)
      BY <3>4 DEF ResetCounter, ins, rd
    <3>5. CASE ClearFlag(c)
      BY <3>5 DEF ClearFlag, ins, rd
    <3>6. QED
      BY <2>6, <3>1, <3>2, <3>3, <3>4, <3>5 DEF Compact
  <2>7. ASSUME NEW id \in Ids, RemoveId(id)
        PROVE  LsmTypeOK'
    BY <2>7 DEF RemoveId, ins, comp
  <2>8. ASSUME NEW r \in Readers, NEW id \in Ids, ContainsDeltas(r, id)
        PROVE  LsmTypeOK'
    BY <2>8 DEF ContainsDeltas, lsm, ins, comp
  <2>9. ASSUME NEW r \in Readers, ContainsBase(r)
        PROVE  LsmTypeOK'
    BY <2>9 DEF ContainsBase, lsm, ins, comp
  <2>10. CASE UNCHANGED lsmVars
    BY <2>10 DEF lsmVars
  <2>11. QED
    BY <2>1, <2>2, <2>3, <2>4, <2>5, <2>6, <2>7, <2>8, <2>9, <2>10 DEF LsmNext
<1>3. QED
  BY <1>1, <1>2, PTL DEF LsmSpec

----------------------------------------------------------------------------
(* What drained deltas, clones and the base hold together. *)

\* A step of one compaction moves ids between the deltas, its own new base and
\* the base, and loses none (MergeDeltas, SwapBase of lsm_bitmap.rs).
LEMMA CompactKeepsMembers ==
  ASSUME LsmTypeOK, LsmInv, NEW c \in Compactions, Compact(c)
  PROVE  Members' = Members
<1> USE DEF LsmTypeOK, LsmInv
<1>1. \A d \in Compactions : d # c => cpc[d] = "free"
  BY DEF Compact, CloneBase, MergeDeltas, SwapBase, ResetCounter, ClearFlag,
         OneCompaction
<1>2. CASE CloneBase(c)
  <2>1. InFlight = {} /\ InFlight' = base
    BY <1>1, <1>2 DEF CloneBase, InFlight
  <2>2. Queried' = Queried /\ base \subseteq Queried
    BY <1>2 DEF CloneBase, Queried, InDeltas, lsm
  <2>3. QED
    BY <2>1, <2>2 DEF Members
<1>3. CASE MergeDeltas(c)
  <2>1. InFlight = new_base[c] /\ InFlight' = new_base[c] \cup InDeltas
    BY <1>1, <1>3 DEF MergeDeltas, InFlight
  <2>2. InDeltas' = {} /\ base' = base
    BY <1>3 DEF MergeDeltas, InDeltas
  <2>3. QED
    BY <2>1, <2>2 DEF Members, Queried
<1>4. CASE SwapBase(c)
  <2>1. InFlight = new_base[c] /\ InFlight' = {}
    BY <1>1, <1>4 DEF SwapBase, InFlight
  <2>2. InDeltas' = InDeltas /\ base' = new_base[c] /\ base \subseteq new_base[c]
    BY <1>4 DEF SwapBase, InDeltas
  <2>3. QED
    BY <2>1, <2>2 DEF Members, Queried
<1>5. CASE ResetCounter(c)
  BY <1>5 DEF ResetCounter, Members, Queried, InDeltas, InFlight
<1>6. CASE ClearFlag(c)
  BY <1>6 DEF ClearFlag, Members, Queried, InDeltas, InFlight
<1>7. QED
  BY <1>2, <1>3, <1>4, <1>5, <1>6 DEF Compact

\* insert() adds exactly its id to the contents.
LEMMA InsertAddsId ==
  ASSUME LsmTypeOK, NEW i \in Inserters, NEW id \in Ids, InsertDelta(i, id)
  PROVE  Members' = Members \cup {id} /\ InDeltas' = InDeltas \cup {id}
<1> USE DEF LsmTypeOK
<1>1. InDeltas' = InDeltas \cup {id}
  <2>1. DOMAIN deltas = {1} /\ Len(deltas) = 1
    OBVIOUS
  <2>2. deltas' = [deltas EXCEPT ![1] = deltas[1] \cup {id}]
    BY <2>1 DEF InsertDelta
  <2>3. InDeltas = deltas[1]
    BY <2>1 DEF InDeltas
  <2>4. DOMAIN deltas' = {1} /\ deltas'[1] = deltas[1] \cup {id}
    BY <2>1, <2>2
  <2>5. InDeltas' = deltas'[1]
    BY <2>4 DEF InDeltas
  <2>6. QED
    BY <2>3, <2>4, <2>5
<1>2. base' = base /\ InFlight' = InFlight
  BY DEF InsertDelta, comp, InFlight
<1>3. QED
  BY <1>1, <1>2 DEF Members, Queried

\* Every other step but remove() leaves the contents alone.
LEMMA OthersKeepMembers ==
  ASSUME UNCHANGED <<base, deltas, new_base>>,
         \A c \in Compactions : cpc'[c] \in {"merge", "swap"} <=> cpc[c] \in {"merge", "swap"}
  PROVE  Members' = Members
BY DEF Members, Queried, InDeltas, InFlight

\* The inductive step of the invariant below.
LEMMA LsmStep ==
  ASSUME SingleCompactor, LsmTypeOK, LsmTypeOK', LsmInv, [LsmNext]_lsmVars
  PROVE  LsmInv'
<1> USE DEF LsmTypeOK, LsmInv
<1>0. Compactions = Jobs
  BY DEF SingleCompactor
<1>1. ASSUME NEW i \in Inserters, NEW id \in Ids, InsertDelta(i, id)
      PROVE  LsmInv'
  <2>1. NoLostInsert'
    <3>1. Members' = Members \cup {id}
      BY <1>1, InsertAddsId
    <3>2. acked' = acked \cup {id}
      BY <1>1 DEF InsertDelta
    <3>3. QED
      BY <3>1, <3>2 DEF NoLostInsert
  <2>2. QED
    BY <1>1, <2>1 DEF InsertDelta, comp, OneCompaction
<1>2. ASSUME NEW i \in Inserters, ShouldCompact(i)
      PROVE  LsmInv'
  <2>1. NoLostInsert'
    BY <1>2, OthersKeepMembers DEF NoLostInsert, ShouldCompact, lsm, comp
  <2>2. QED
    BY <1>2, <2>1 DEF ShouldCompact, lsm, comp, OneCompaction
<1>3. ASSUME NEW i \in Inserters, ReadFlag(i)
      PROVE  LsmInv'
  <2>1. NoLostInsert'
    BY <1>3, OthersKeepMembers DEF NoLostInsert, ReadFlag, lsm, comp
  <2>2. ~in_progress => \A c \in Compactions : cpc[c] = "free"
    BY <1>0
  <2>3. ASSUME NEW k \in Inserters, ipc'[k] = "trigger"
        PROVE  \A c \in Compactions : cpc'[c] = "free"
    BY <1>3, <2>2, <2>3 DEF ReadFlag, comp
  <2>4. QED
    BY <1>3, <2>1, <2>3 DEF ReadFlag, lsm, comp, OneCompaction
<1>4. ASSUME NEW i \in Inserters, NEW j \in Jobs, Trigger(i, j)
      PROVE  LsmInv'
  <2>1. \A c \in Compactions : cpc[c] = "free"
    BY <1>4 DEF Trigger
  <2>2. NoLostInsert'
    <3>1. \A c \in Compactions :
             cpc'[c] \in {"merge", "swap"} <=> cpc[c] \in {"merge", "swap"}
      BY <1>4, <2>1 DEF Trigger
    <3>2. Members' = Members /\ acked' = acked
      BY <1>4, <3>1, OthersKeepMembers DEF Trigger
    <3>3. QED
      BY <3>2 DEF NoLostInsert
  <2>3. \A k \in Inserters : ipc'[k] = "idle"
    BY <1>4 DEF Trigger, SingleCompactor
  <2>4. QED
    BY <1>4, <2>1, <2>2, <2>3 DEF Trigger, OneCompaction
<1>5. ASSUME NEW c \in CompactCallers, CallCompact(c)
      PROVE  LsmInv'
  BY DEF SingleCompactor
<1>6. ASSUME NEW c \in Compactions, Compact(c)
      PROVE  LsmInv'
  <2>1. NoLostInsert'
    <3>1. acked' = acked
      BY <1>6 DEF Compact, CloneBase, MergeDeltas, SwapBase, ResetCounter, ClearFlag
    <3>2. QED
      BY <1>6, <3>1, CompactKeepsMembers DEF NoLostInsert
  <2>2. cpc[c] # "free" /\ \A d \in Compactions : d # c => cpc[d] = "free"
    BY <1>6 DEF Compact, CloneBase, MergeDeltas, SwapBase, ResetCounter, ClearFlag,
                OneCompaction
  <2>3. \A k \in Inserters : ipc'[k] # "trigger"
    BY <1>6, <2>2 DEF Compact, CloneBase, MergeDeltas, SwapBase, ResetCounter,
                      ClearFlag, ins
  <2>4. \A d \in Compactions : d # c => cpc'[d] = "free"
    BY <1>6, <2>2 DEF Compact, CloneBase, MergeDeltas, SwapBase, ResetCounter, ClearFlag
  <2>5. CASE CloneBase(c)
    BY <2>1, <2>2, <2>3, <2>4, <2>5, <1>0 DEF CloneBase, lsm, OneCompaction
  <2>6. CASE MergeDeltas(c)
    BY <2>1, <2>2, <2>3, <2>4, <2>6, <1>0 DEF MergeDeltas, OneCompaction
  <2>7. CASE SwapBase(c)
    BY <2>1, <2>2, <2>3, <2>4, <2>7, <1>0 DEF SwapBase, OneCompaction
  <2>8. CASE ResetCounter(c)
    BY <2>1, <2>2, <2>3, <2>4, <2>8, <1>0 DEF ResetCounter, OneCompaction
  <2>9. CASE ClearFlag(c)
    BY <2>1, <2>2, <2>3, <2>4, <2>9, <1>0 DEF ClearFlag, OneCompaction
  <2>10. QED
    BY <1>6, <2>5, <2>6, <2>7, <2>8, <2>9 DEF Compact
<1>7. ASSUME NEW id \in Ids, RemoveId(id)
      PROVE  LsmInv'
  <2>1. InDeltas' = InDeltas /\ InFlight' = InFlight
    BY <1>7 DEF RemoveId, InDeltas, InFlight, comp
  <2>2. NoLostInsert'
    BY <1>7, <2>1 DEF NoLostInsert, RemoveId, Members, Queried
  <2>3. QED
    BY <1>7, <2>2 DEF RemoveId, ins, comp, OneCompaction
<1>8. ASSUME NEW r \in Readers, NEW id \in Ids, ContainsDeltas(r, id)
      PROVE  LsmInv'
  <2>1. UNCHANGED <<lsm, ins, comp, acked>>
    BY <1>8 DEF ContainsDeltas
  <2>2. NoLostInsert'
    BY <2>1, OthersKeepMembers DEF NoLostInsert, lsm, comp
  <2>3. QED
    BY <2>1, <2>2 DEF lsm, ins, comp, OneCompaction
<1>9. ASSUME NEW r \in Readers, ContainsBase(r)
      PROVE  LsmInv'
  <2>1. UNCHANGED <<lsm, ins, comp, acked>>
    BY <1>9 DEF ContainsBase
  <2>2. NoLostInsert'
    BY <2>1, OthersKeepMembers DEF NoLostInsert, lsm, comp
  <2>3. QED
    BY <2>1, <2>2 DEF lsm, ins, comp, OneCompaction
<1>10. CASE UNCHANGED lsmVars
  <2>1. NoLostInsert'
    BY <1>10, OthersKeepMembers DEF NoLostInsert, lsmVars
  <2>2. QED
    BY <1>10, <2>1 DEF lsmVars, OneCompaction
<1>11. QED
  BY <1>1, <1>2, <1>3, <1>4, <1>5, <1>6, <1>7, <1>8, <1>9, <1>10 DEF LsmNext

\* With one inserter and no caller of compact(), compactions never overlap and no
\* inserted id is ever lost, however insert, remove, contains and the background
\* compactions of lsm_bitmap.rs interleave.
THEOREM LsmSafety ==
  ASSUME SingleCompactor
  PROVE  LsmSpec => [](OneCompaction /\ NoLostInsert)
<1>1. LsmInit => LsmInv
  <2> SUFFICES ASSUME LsmInit PROVE LsmInv
    OBVIOUS
  <2>1. acked \subseteq Members
    BY DEF LsmInit
  <2>2. QED
    BY <2>1 DEF LsmInit, LsmInv, OneCompaction, NoLostInsert
<1>2. LsmTypeOK /\ LsmTypeOK' /\ LsmInv /\ [LsmNext]_lsmVars => LsmInv'
  BY LsmStep
<1>3. LsmInv => OneCompaction /\ NoLostInsert
  BY DEF LsmInv
<1>4. LsmSpec => []LsmInv
  BY <1>1, <1>2, LsmTypeCorrect, PTL DEF LsmSpec
<1>5. QED
  BY <1>3, <1>4, PTL

\* A step that leaves the contents and the acknowledged ids alone is at most a settling.
LEMMA SettlingOnly ==
  ASSUME Members' = Members, acked' = acked
  PROVE  [Abstract!Next]_<<Members, acked, SettledIds>>
<1>1. SettledIds' \in SUBSET Members
  BY DEF SettledIds, Members, Queried
<1>2. Abstract!Settle
  BY <1>1 DEF Abstract!Settle
<1>3. QED
  BY <1>2 DEF Abstract!Next

\* Under the same hypothesis the bitmap implements the abstract set: no step but a
\* remove() takes an id out, and that one takes out a settled id at once, so a compaction
\* is invisible to whoever looks at base, deltas and the new base together.
THEOREM LsmImplementsIdSet ==
  ASSUME SingleCompactor
  PROVE  LsmSpec => AbstractSpec
<1> DEFINE abstract == <<Members, acked, SettledIds>>
<1>1. LsmInit => Members = {} /\ acked = {} /\ SettledIds = {}
  <2> SUFFICES ASSUME LsmInit PROVE Members = {} /\ acked = {} /\ SettledIds = {}
    OBVIOUS
  <2>1. InDeltas = {}
    BY DEF LsmInit, InDeltas
  <2>2. InFlight = {}
    BY DEF LsmInit, InFlight
  <2>3. QED
    BY <2>1, <2>2 DEF LsmInit, Members, Queried, SettledIds
<1>2. LsmTypeOK /\ LsmInv /\ [LsmNext]_lsmVars => [Abstract!Next]_abstract
  <2> SUFFICES ASSUME LsmTypeOK, LsmInv, [LsmNext]_lsmVars
               PROVE  [Abstract!Next]_abstract
    OBVIOUS
  <2>1. ASSUME NEW i \in Inserters, NEW id \in Ids, InsertDelta(i, id)
        PROVE  [Abstract!Next]_abstract
    <3>1. Members' = Members \cup {id} /\ InDeltas' = InDeltas \cup {id}
      BY <2>1, InsertAddsId
    <3>2. acked' = acked \cup {id} /\ base' = base /\ InFlight' = InFlight
      BY <2>1 DEF InsertDelta, comp, InFlight
    <3>3. SettledIds' = SettledIds \ {id}
      BY <3>1, <3>2 DEF SettledIds
    <3>4. QED
      BY <3>1, <3>2, <3>3 DEF Abstract!Next, Abstract!Insert
  <2>2. ASSUME NEW i \in Inserters, ShouldCompact(i)
        PROVE  [Abstract!Next]_abstract
    BY <2>2, OthersKeepMembers, SettlingOnly DEF ShouldCompact, lsm, comp
  <2>3. ASSUME NEW i \in Inserters, ReadFlag(i)
        PROVE  [Abstract!Next]_abstract
    BY <2>3, OthersKeepMembers, SettlingOnly DEF ReadFlag, lsm, comp
  <2>4. ASSUME NEW i \in Inserters, NEW j \in Jobs, Trigger(i, j)
        PROVE  [Abstract!Next]_abstract
    <3>1. \A c \in Compactions :
             cpc'[c] \in {"merge", "swap"} <=> cpc[c] \in {"merge", "swap"}
      BY <2>4 DEF Trigger, LsmTypeOK
    <3>2. QED
      BY <2>4, <3>1, OthersKeepMembers, SettlingOnly DEF Trigger
  <2>5. ASSUME NEW c \in CompactCallers, CallCompact(c)
        PROVE  [Abstract!Next]_abstract
    BY DEF SingleCompactor
  <2>6. ASSUME NEW c \in Compactions, Compact(c)
        PROVE  [Abstract!Next]_abstract
    <3>1. acked' = acked
      BY <2>6 DEF Compact, CloneBase, MergeDeltas, SwapBase, ResetCounter, ClearFlag
    <3>2. QED
      BY <2>6, <3>1, CompactKeepsMembers, SettlingOnly
  <2>7. ASSUME NEW id \in Ids, RemoveId(id)
        PROVE  [Abstract!Next]_abstract
    <3>1. /\ InDeltas' = InDeltas /\ InFlight' = InFlight /\ base' = base \ {id}
          /\ acked' = acked \ {id}
      BY <2>7 DEF RemoveId, InDeltas, InFlight, comp
    <3>2. SettledIds' = SettledIds \ {id}
      BY <3>1 DEF SettledIds
    <3>3. Members' = IF id \in SettledIds THEN Members \ {id} ELSE Members
      <4>1. CASE id \in SettledIds
        BY <3>1, <4>1 DEF Members, Queried, SettledIds
      <4>2. CASE id \notin SettledIds
        BY <3>1, <4>2 DEF Members, Queried, SettledIds
      <4>3. QED
        BY <4>1, <4>2
    <3>4. QED
      BY <3>1, <3>2, <3>3 DEF Abstract!Next, Abstract!Remove
  <2>8. ASSUME NEW r \in Readers, NEW id \in Ids, ContainsDeltas(r, id)
        PROVE  [Abstract!Next]_abstract
    <3>1. UNCHANGED <<lsm, comp, acked>>
      BY <2>8 DEF ContainsDeltas
    <3>2. QED
      BY <3>1, OthersKeepMembers, SettlingOnly DEF lsm, comp
  <2>9. ASSUME NEW r \in Readers, ContainsBase(r)
        PROVE  [Abstract!Next]_abstract
    <3>1. UNCHANGED <<lsm, comp, acked>>
      BY <2>9 DEF ContainsBase
    <3>2. QED
      BY <3>1, OthersKeepMembers, SettlingOnly DEF lsm, comp
  <2>10. CASE UNCHANGED lsmVars
    BY <2>10, OthersKeepMembers, SettlingOnly DEF lsmVars
  <2>11. QED
    BY <2>1, <2>2, <2>3, <2>4, <2>5, <2>6, <2>7, <2>8, <2>9, <2>10 DEF LsmNext
<1>3. LsmInit => LsmInv
  <2> SUFFICES ASSUME LsmInit PROVE LsmInv
    OBVIOUS
  <2>1. acked \subseteq Members
    BY DEF LsmInit
  <2>2. QED
    BY <2>1 DEF LsmInit, LsmInv, OneCompaction, NoLostInsert
<1>4. LsmTypeOK /\ LsmTypeOK' /\ LsmInv /\ [LsmNext]_lsmVars => LsmInv'
  BY LsmStep
<1>5. QED
  BY <1>1, <1>2, <1>3, <1>4, LsmTypeCorrect, PTL
     DEF LsmSpec, AbstractSpec, Abstract!Spec, Abstract!Init

\* What a compaction has drained from the deltas and not yet installed.
Drained == UNION {new_base[c] : c \in {d \in Compactions : cpc[d] = "swap"}}

\* A clone of the base carries nothing that is not in the base or a delta too, as long
\* as nobody removed it: an id a reader did not see in the deltas is in the base, now and
\* until the reader gets there, unless it is drained.
WindowInv ==
    /\ acked \subseteq base \cup InDeltas \cup Drained
    /\ \A r \in Readers : rpc[r] = "base" =>
          result[r] = "none" /\ (expect[r] => rid[r] \in base \cup Drained)

\* Steps that touch neither the sets nor the readers.
LEMMA WindowKept ==
  ASSUME LsmTypeOK, WindowInv, UNCHANGED <<base, deltas, new_base, acked>>, UNCHANGED rd,
         \A c \in Compactions : cpc'[c] = "swap" <=> cpc[c] = "swap"
  PROVE  WindowInv'
<1>1. InDeltas' = InDeltas /\ Drained' = Drained
  BY DEF InDeltas, Drained
<1>2. QED
  BY <1>1 DEF WindowInv, rd

LEMMA WindowStep ==
  ASSUME SingleCompactor, LsmTypeOK, LsmInv, WindowInv, [LsmNext]_lsmVars
  PROVE  WindowInv'
<1>1. ASSUME NEW i \in Inserters, NEW id \in Ids, InsertDelta(i, id)
      PROVE  WindowInv'
  <2>1. InDeltas' = InDeltas \cup {id}
    <3>1. DOMAIN deltas = {1} /\ Len(deltas) = 1
      BY DEF LsmTypeOK
    <3>2. deltas' = [deltas EXCEPT ![1] = deltas[1] \cup {id}]
      BY <1>1, <3>1 DEF InsertDelta
    <3>3. DOMAIN deltas' = {1} /\ deltas'[1] = deltas[1] \cup {id}
      BY <3>1, <3>2
    <3>4. InDeltas = deltas[1] /\ InDeltas' = deltas'[1]
      BY <3>1, <3>3 DEF InDeltas
    <3>5. QED
      BY <3>3, <3>4
  <2>2. /\ base' = base /\ Drained' = Drained /\ acked' = acked \cup {id}
        /\ UNCHANGED rd
    BY <1>1 DEF InsertDelta, comp, Drained
  <2>3. QED
    BY <2>1, <2>2 DEF WindowInv, rd
<1>2. ASSUME NEW i \in Inserters, ShouldCompact(i)
      PROVE  WindowInv'
  BY <1>2, WindowKept DEF ShouldCompact, lsm, comp
<1>3. ASSUME NEW i \in Inserters, ReadFlag(i)
      PROVE  WindowInv'
  BY <1>3, WindowKept DEF ReadFlag, lsm, comp
<1>4. ASSUME NEW i \in Inserters, NEW j \in Jobs, Trigger(i, j)
      PROVE  WindowInv'
  <2>1. \A c \in Compactions : cpc'[c] = "swap" <=> cpc[c] = "swap"
    BY <1>4 DEF Trigger, LsmTypeOK
  <2>2. QED
    BY <1>4, <2>1, WindowKept DEF Trigger
<1>5. ASSUME NEW c \in CompactCallers, CallCompact(c)
      PROVE  WindowInv'
  BY DEF SingleCompactor
<1>6. ASSUME NEW c \in Compactions, Compact(c)
      PROVE  WindowInv'
  <2>1. cpc[c] # "free" /\ \A d \in Compactions : d # c => cpc[d] = "free" /\ cpc'[d] = "free"
    BY <1>6 DEF Compact, CloneBase, MergeDeltas, SwapBase, ResetCounter, ClearFlag,
                LsmInv, OneCompaction, LsmTypeOK
  <2>2. /\ acked' = acked /\ UNCHANGED rd
    BY <1>6 DEF Compact, CloneBase, MergeDeltas, SwapBase, ResetCounter, ClearFlag
  <2>3. CASE CloneBase(c)
    <3>1. Drained = {} /\ Drained' = {}
      BY <2>1, <2>3 DEF CloneBase, Drained, LsmTypeOK
    <3>2. base' = base /\ InDeltas' = InDeltas
      BY <2>3 DEF CloneBase, lsm, InDeltas
    <3>3. QED
      BY <2>2, <3>1, <3>2 DEF WindowInv, rd
  <2>4. CASE MergeDeltas(c)
    <3>1. Drained = {} /\ Drained' = new_base[c] \cup InDeltas
      BY <2>1, <2>4 DEF MergeDeltas, Drained, LsmTypeOK
    <3>2. base' = base
      BY <2>4 DEF MergeDeltas
    <3>3. QED
      BY <2>2, <3>1, <3>2 DEF WindowInv, rd
  <2>5. CASE SwapBase(c)
    <3>1. Drained = new_base[c] /\ Drained' = {}
      BY <2>1, <2>5 DEF SwapBase, Drained, LsmTypeOK
    <3>2. base' = new_base[c] /\ base \subseteq new_base[c] /\ InDeltas' = InDeltas
      BY <2>5 DEF SwapBase, LsmInv, InDeltas
    <3>3. QED
      BY <2>2, <3>1, <3>2 DEF WindowInv, rd
  <2>6. CASE ResetCounter(c) \/ ClearFlag(c)
    <3>1. \A d \in Compactions : cpc'[d] = "swap" <=> cpc[d] = "swap"
      BY <2>6 DEF ResetCounter, ClearFlag, LsmTypeOK
    <3>2. UNCHANGED <<base, deltas, new_base>>
      BY <2>6 DEF ResetCounter, ClearFlag
    <3>3. QED
      BY <2>2, <3>1, <3>2, WindowKept
  <2>7. QED
    BY <1>6, <2>3, <2>4, <2>5, <2>6 DEF Compact
<1>7. ASSUME NEW id \in Ids, RemoveId(id)
      PROVE  WindowInv'
  <2>1. /\ InDeltas' = InDeltas /\ Drained' = Drained
        /\ base' = base \ {id} /\ acked' = acked \ {id}
    BY <1>7 DEF RemoveId, InDeltas, Drained, comp
  <2>2. \A r \in Readers : /\ rpc'[r] = rpc[r] /\ rid'[r] = rid[r] /\ result'[r] = result[r]
                           /\ expect'[r] => expect[r] /\ rid[r] # id
    BY <1>7 DEF RemoveId
  <2>3. QED
    BY <2>1, <2>2 DEF WindowInv
<1>8. ASSUME NEW r \in Readers, NEW id \in Ids, ContainsDeltas(r, id)
      PROVE  WindowInv'
  <2>1. InDeltas' = InDeltas /\ Drained' = Drained /\ base' = base /\ acked' = acked
    BY <1>8 DEF ContainsDeltas, lsm, comp, InDeltas, Drained
  <2>2. ASSUME NEW q \in Readers, rpc'[q] = "base"
        PROVE  result'[q] = "none" /\ (expect'[q] => rid'[q] \in base \cup Drained)
    <3>1. CASE q = r
      <4>1. id \notin InDeltas
        BY <1>8, <2>2, <3>1 DEF ContainsDeltas, LsmTypeOK
      <4>2. result'[q] = "none" /\ rid'[q] = id
        BY <1>8, <3>1, <4>1 DEF ContainsDeltas, LsmTypeOK
      <4>3. expect'[q] => id \in acked
        BY <1>8, <3>1, Zenon DEF ContainsDeltas, LsmTypeOK
      <4>4. QED
        BY <4>1, <4>2, <4>3 DEF WindowInv
    <3>2. CASE q # r
      <4>1. rpc'[q] = rpc[q] /\ rid'[q] = rid[q] /\ result'[q] = result[q]
        BY <1>8, <3>2 DEF ContainsDeltas, LsmTypeOK
      <4>2. expect'[q] <=> expect[q]
        BY <1>8, <3>2 DEF ContainsDeltas, LsmTypeOK
      <4>3. QED
        BY <2>2, <4>1, <4>2 DEF WindowInv
    <3>3. QED
      BY <3>1, <3>2
  <2>3. QED
    BY <2>1, <2>2 DEF WindowInv
<1>9. ASSUME NEW r \in Readers, ContainsBase(r)
      PROVE  WindowInv'
  <2>1. /\ InDeltas' = InDeltas /\ Drained' = Drained /\ base' = base /\ acked' = acked
        /\ rid' = rid /\ expect' = expect
    BY <1>9 DEF ContainsBase, lsm, comp, InDeltas, Drained
  <2>2. \A q \in Readers : rpc'[q] = "base" => rpc[q] = "base" /\ result'[q] = result[q]
    BY <1>9 DEF ContainsBase, LsmTypeOK
  <2>3. QED
    BY <2>1, <2>2 DEF WindowInv
<1>10. CASE UNCHANGED lsmVars
  BY <1>10, WindowKept DEF lsmVars, rd
<1>11. QED
  BY <1>1, <1>2, <1>3, <1>4, <1>5, <1>6, <1>7, <1>8, <1>9, <1>10 DEF LsmNext

LEMMA LsmInvariants ==
  ASSUME SingleCompactor
  PROVE  LsmSpec => [](LsmTypeOK /\ LsmInv /\ WindowInv)
<1>1. LsmInit => LsmInv /\ WindowInv
  <2> SUFFICES ASSUME LsmInit PROVE LsmInv /\ WindowInv
    OBVIOUS
  <2>1. acked \subseteq Members
    BY DEF LsmInit
  <2>2. QED
    BY <2>1 DEF LsmInit, LsmInv, OneCompaction, NoLostInsert, WindowInv
<1>2. LsmTypeOK /\ LsmTypeOK' /\ LsmInv /\ [LsmNext]_lsmVars => LsmInv'
  BY LsmStep
<1>3. LsmTypeOK /\ LsmInv /\ WindowInv /\ [LsmNext]_lsmVars => WindowInv'
  BY WindowStep
<1>4. QED
  BY <1>1, <1>2, <1>3, LsmTypeCorrect, PTL DEF LsmSpec

\* contains() looks into the deltas and then, with their lock released, into the base: it
\* misses an id that was there throughout only while a compaction carries it from one to
\* the other.
THEOREM LsmMisses ==
  ASSUME SingleCompactor
  PROVE  LsmSpec => MissOnlyInWindow
<1>1. ASSUME LsmTypeOK, WindowInv, [LsmNext]_lsmVars, NEW r \in Readers,
             rpc[r] = "base", result'[r] = "miss", expect[r]
      PROVE  \E c \in Compactions : cpc[c] = "swap" /\ rid[r] \in new_base[c]
  <2>1. rid[r] \in base \cup Drained /\ result[r] = "none"
    BY <1>1 DEF WindowInv
  <2>2. result'[r] # result[r]
    BY <1>1, <2>1
  <2>3. ContainsBase(r)
    <3>1. ASSUME UNCHANGED rd PROVE FALSE
      BY <2>2, <3>1 DEF rd
    <3>2. ASSUME NEW q \in Readers, ContainsBase(q), q # r PROVE FALSE
      BY <2>2, <3>2 DEF ContainsBase, LsmTypeOK
    <3>3. ASSUME NEW q \in Readers, NEW id \in Ids, ContainsDeltas(q, id) PROVE FALSE
      <4>1. q # r
        BY <1>1, <3>3 DEF ContainsDeltas
      <4>2. result' = [result EXCEPT ![q] = "hit"] \/ result' = [result EXCEPT ![q] = "none"]
        BY <3>3 DEF ContainsDeltas
      <4>3. result'[r] = result[r]
        BY <1>1, <4>1, <4>2 DEF LsmTypeOK
      <4>4. QED
        BY <2>2, <4>3
    <3>4. ASSUME NEW id \in Ids, RemoveId(id) PROVE FALSE
      BY <2>2, <3>4 DEF RemoveId
    <3>5. ASSUME NEW c \in Compactions, Compact(c) PROVE UNCHANGED rd
      BY <3>5 DEF Compact, CloneBase, MergeDeltas, SwapBase, ResetCounter, ClearFlag
    <3>6. ASSUME NEW i \in Inserters,
                 \/ \E id \in Ids : InsertDelta(i, id)
                 \/ ShouldCompact(i) \/ ReadFlag(i) \/ \E j \in Jobs : Trigger(i, j)
          PROVE  UNCHANGED rd
      BY <3>6 DEF InsertDelta, ShouldCompact, ReadFlag, Trigger
    <3>7. ASSUME NEW c \in CompactCallers, CallCompact(c) PROVE UNCHANGED rd
      BY <3>7 DEF CallCompact
    <3>8. CASE UNCHANGED lsmVars
      BY <3>1, <3>8 DEF lsmVars, rd
    <3>9. QED
      BY <1>1, <3>1, <3>2, <3>3, <3>4, <3>5, <3>6, <3>7, <3>8 DEF LsmNext
  <2>4. rid[r] \notin base
    BY <1>1, <2>3 DEF ContainsBase, LsmTypeOK
  <2>5. QED
    BY <2>1, <2>4 DEF Drained
<1>2. LsmTypeOK /\ WindowInv /\ [LsmNext]_lsmVars =>
        [\A r \in Readers : rpc[r] = "base" /\ result'[r] = "miss" /\ expect[r] =>
           \E c \in Compactions : cpc[c] = "swap" /\ rid[r] \in new_base[c]]_lsmVars
  BY <1>1
<1>3. QED
  BY <1>2, LsmInvariants, PTL DEF LsmSpec, MissOnlyInWindow

=============================================================================
