---------------------------- MODULE AdaptiveIndex ----------------------------
(***************************************************************************)
(* index-fabric/src/adaptive_index.rs: a secondary index with three stores *)
(* (bitmaps, a tree, a hash map) of which index_type says the one in use;  *)
(* the Range type uses the tree as well.  insert(), query() and            *)
(* query_range() read the type, drop its lock and then lock the store.     *)
(* migrate_to() empties the store of the new type and then switches to it; *)
(* it copies nothing.                                                      *)
(*                                                                         *)
(* A store is a set of pairs of a key and an account: the tree and the     *)
(* hash map keep an account once per insertion, which no answer depends    *)
(* on.  Bitmap keys are cut to u32.  How long queries take is any of       *)
(* "slow" and not; query_count and memory are only reported.               *)
(***************************************************************************)
EXTENDS Integers, FiniteSets, Maps, Jobs

CONSTANTS AdaptiveKeys,   \* u64 keys
          KeyRange,       \* 2^32: keys of the bitmaps are below it
          AdaptiveIds,    \* accounts
          FewEntries,     \* fewer entries than this never migrate (100)
          FewKeys,        \* "low cardinality" is below this (1000) ...
          ManyEntries,    \* ... with more entries than this (10000)
          ManyKeys        \* more keys than this are for a hash map (10000)

ASSUME AdaptiveAssumption ==
    /\ AdaptiveKeys \subseteq Nat /\ KeyRange \in Nat \ {0}
    /\ {FewEntries, FewKeys, ManyEntries, ManyKeys} \subseteq Nat

Types == {"Bitmap", "BTree", "Hash", "Range"}
Stores == {"bitmap_index", "btree_index", "hash_index"}

\* The store of a type, and the key it files an entry under.
StoreOf(y) ==
    CASE y = "Bitmap" -> "bitmap_index"
      [] y = "Hash" -> "hash_index"
      [] y \in {"BTree", "Range"} -> "btree_index"

KeyIn(y, k) == IF y = "Bitmap" THEN k % KeyRange ELSE k

VARIABLES index_type,
          stored,        \* per store: pairs <<key, account>>
          entry_count,   \* IndexStats.entry_count
          slow,          \* whether avg_query_time_us is above 100
          migrating,     \* whether migration_lock is held
          fresh,         \* history: pairs stored since a migration last emptied a store
          current        \* history: pairs inserted since the last switch, by calls
                         \* that no switch overlapped

adaptiveState == <<index_type, stored, entry_count, slow, migrating, fresh, current>>
adaptiveVars == <<adaptiveState, job, jobs>>

AdaptiveTypeOK ==
    /\ index_type \in Types
    /\ stored \in [Stores -> SUBSET (AdaptiveKeys \X AdaptiveIds)]
    /\ entry_count \in Nat /\ slow \in BOOLEAN /\ migrating \in BOOLEAN
    /\ current \cup fresh \subseteq AdaptiveKeys \X AdaptiveIds

AdaptiveInit ==
    /\ index_type = "Bitmap"
    /\ stored = [s \in Stores |-> {}]
    /\ entry_count = 0 /\ slow = FALSE /\ migrating = FALSE
    /\ fresh = {} /\ current = {}
    /\ JobsInit

-----------------------------------------------------------------------------
(* insert() *)

AdaptiveInsert(t, k, a) ==
    /\ Begin(t, [op |-> "adaptive_insert", pc |-> "store", key |-> k, account |-> a,
                 type |-> index_type, valid |-> TRUE])
    /\ UNCHANGED adaptiveState

StoreEntry(t) ==
    LET j == job[t] IN
    /\ At(t, "adaptive_insert", "store")
    /\ stored' = [stored EXCEPT ![StoreOf(j.type)] = @ \cup {<<KeyIn(j.type, j.key), j.account>>}]
    /\ fresh' = fresh \cup {<<j.key, j.account>>}
    /\ current' = IF j.valid THEN current \cup {<<j.key, j.account>>} ELSE current
    /\ Goto(t, "stats")
    /\ UNCHANGED <<index_type, entry_count, slow, migrating>>

CountInsert(t) ==
    /\ At(t, "adaptive_insert", "stats")
    /\ entry_count' = entry_count + 1
    /\ Finish(t)
    /\ UNCHANGED <<index_type, stored, slow, migrating, fresh, current>>

-----------------------------------------------------------------------------
(* query() of one key, and query_range(), which answers from the tree only *)

AdaptiveQueries == {"query", "query_range"}

\* Whether a query of the keys from .. to finds what the store of a type has under k.
Matches(y, from, to, k) ==
    IF y = "Bitmap" THEN k = KeyIn(y, from) ELSE from <= k /\ k <= to

\* A query, once it has read the type.  History: what it is due to find, whether
\* its store was not emptied since, and whether no migration overlapped it.
Asking(op, from, to) ==
    LET none == op = "query_range" /\ StoreOf(index_type) # "btree_index" IN
    [op |-> op, from |-> from, to |-> to, type |-> index_type, result |-> {},
     pc |-> IF none THEN "answered" ELSE "read", whole |-> TRUE, calm |-> ~migrating,
     due |-> IF none THEN {}
             ELSE {p[2] : p \in {q \in current : from <= q[1] /\ q[1] <= to}}]

Query(t, k) == Begin(t, Asking("query", k, k)) /\ UNCHANGED adaptiveState

query_range(t, from, to) ==
    Begin(t, Asking("query_range", from, to)) /\ UNCHANGED adaptiveState

\* BTreeMap::range() panics on a tree that is not empty when from is above to.
ReadStore(t) ==
    LET j == job[t]
        found == {q \in stored[StoreOf(j.type)] : Matches(j.type, j.from, j.to, q[1])}
    IN  /\ j.op \in AdaptiveQueries /\ j.pc = "read"
        /\ IF j.from > j.to /\ stored[StoreOf(j.type)] # {}
             THEN job' = [job EXCEPT ![t].pc = "panicked"]
             ELSE job' = [job EXCEPT ![t].result = {p[2] : p \in found}, ![t].pc = "answered"]
        /\ UNCHANGED <<adaptiveState, jobs>>

\* query() averages its time in.
EndQuery(t) ==
    /\ job[t].op \in AdaptiveQueries /\ job[t].pc \in {"answered", "panicked"}
    /\ IF job[t].op = "query" THEN slow' \in BOOLEAN ELSE slow' = slow
    /\ Finish(t)
    /\ UNCHANGED <<index_type, stored, entry_count, migrating, fresh, current>>

-----------------------------------------------------------------------------
(* evaluate_migration() and migrate_to() *)

count_unique_keys == Cardinality({p[1] : p \in stored[StoreOf(index_type)]})

\* The first of the three rules whose type is not the current one.
evaluate_migration ==
    LET keys == count_unique_keys
        rules == <<[when |-> 10 * keys > 8 * entry_count, type |-> "BTree"],
                   [when |-> keys < FewKeys /\ entry_count > ManyEntries, type |-> "Bitmap"],
                   [when |-> slow /\ keys > ManyKeys, type |-> "Hash"]>>
        hits == {i \in DOMAIN rules : rules[i].when /\ rules[i].type # index_type}
    IN  IF entry_count < FewEntries THEN {}
        ELSE {rules[i].type : i \in {h \in hits : \A g \in hits : h <= g}}

\* The guard of the migrations is taken; a caller asks for any type, the
\* adaptation for the one evaluate_migration() gave.
MigrateTo(t, y) ==
    /\ ~migrating /\ y # index_type
    /\ job[t].op = "idle" /\ jobs < MaxJobs
    /\ job' = [u \in Workers |->
                  IF u = t THEN [op |-> "migrate", pc |-> "clear", type |-> y]
                  ELSE IF job[u].op \in AdaptiveQueries THEN [job[u] EXCEPT !.calm = FALSE]
                  ELSE job[u]]
    /\ jobs' = jobs + 1
    /\ migrating' = TRUE
    /\ UNCHANGED <<index_type, stored, entry_count, slow, fresh, current>>

Adapt(t) == \E y \in evaluate_migration : MigrateTo(t, y)

\* Mutant of ClearTarget: what was left in the store stays.
ClearNothing(t) ==
    /\ At(t, "migrate", "clear")
    /\ fresh' = {}
    /\ Goto(t, "switch")
    /\ UNCHANGED <<index_type, stored, entry_count, slow, migrating, current>>

\* A switch to a type with the same store empties what is in use.
ClearTarget(t) ==
    /\ At(t, "migrate", "clear")
    /\ stored' = [stored EXCEPT ![StoreOf(job[t].type)] = {}]
    /\ fresh' = {}
    /\ current' = IF StoreOf(job[t].type) = StoreOf(index_type) THEN {} ELSE current
    /\ job' = [u \in Workers |->
                  IF u = t THEN [job[t] EXCEPT !.pc = "switch"]
                  ELSE IF job[u].op \in AdaptiveQueries /\ StoreOf(job[u].type) = StoreOf(job[t].type)
                    THEN [job[u] EXCEPT !.whole = FALSE]
                  ELSE job[u]]
    /\ UNCHANGED <<index_type, entry_count, slow, migrating, jobs>>

SwitchType(t) ==
    /\ At(t, "migrate", "switch")
    /\ index_type' = job[t].type
    /\ migrating' = FALSE
    /\ current' = {}
    /\ job' = [u \in Workers |->
                  IF u = t THEN NoJob
                  ELSE IF job[u].op = "adaptive_insert" THEN [job[u] EXCEPT !.valid = FALSE]
                  ELSE job[u]]
    /\ UNCHANGED <<stored, entry_count, slow, fresh, jobs>>

AdaptiveNext ==
    \E t \in Workers :
         \/ \E k \in AdaptiveKeys, a \in AdaptiveIds : AdaptiveInsert(t, k, a)
         \/ StoreEntry(t) \/ CountInsert(t)
         \/ \E k \in AdaptiveKeys : Query(t, k)
         \/ \E k, l \in AdaptiveKeys : query_range(t, k, l)
         \/ ReadStore(t) \/ EndQuery(t)
         \/ \E y \in Types : MigrateTo(t, y)
         \/ Adapt(t) \/ ClearTarget(t) \/ SwitchType(t)

AdaptiveSpec == AdaptiveInit /\ [][AdaptiveNext]_adaptiveVars

-----------------------------------------------------------------------------
\* A query finds every account inserted under its keys before it read the type, since
\* the last switch of type and by a call that no switch overlapped, unless a migration
\* emptied the store it then reads.  And a query that no migration overlapped finds none
\* that the last migration should have left behind, nor one of another key, but for keys
\* the bitmaps cannot tell apart.
AnswersSinceSwitch ==
    \A t \in Workers : LET j == job[t] IN
        j.op \in AdaptiveQueries /\ j.pc = "answered" =>
            /\ j.whole => j.due \subseteq j.result
            /\ j.calm => \A a \in j.result : \E p \in fresh :
                  p[2] = a /\ Matches(j.type, j.from, j.to, KeyIn(j.type, p[1]))
=============================================================================
