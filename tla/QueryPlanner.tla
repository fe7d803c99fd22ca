---------------------------- MODULE QueryPlanner ----------------------------
(***************************************************************************)
(* getProgramAccounts over the index fabric (query-orchestrator): planning *)
(* against the cost model's statistics, the two executors, pagination with *)
(* a cursor, and the thread that refreshes the statistics.                 *)
(*                                                                         *)
(* A query is a program and a list of filters; a filter is the entry of    *)
(* IndexFabric it asks for.  Every lookup takes the lock of one index, so  *)
(* updates run between the lookups of one query.  Costs and times are left *)
(* out: of the statistics only the order of the cardinalities matters.     *)
(***************************************************************************)
EXTENDS IndexFabric, SequencesExt

CONSTANTS Queriers,      \* the threads that run queries
          Refreshers,    \* the threads that call refresh_statistics()
          Queries,       \* the queries they run: [program, filters]
          PageLimit,     \* limit of a page
          MaxQueries,    \* bound: number of queries and walks through pages
          MaxRefreshes   \* bound: number of refreshes

\* The planner is made only with an index of the programs.
ASSUME PlannerAssumption ==
    /\ PageLimit \in Nat \ {0} /\ MaxQueries \in Nat /\ MaxRefreshes \in Nat
    /\ "program" \in Enabled
    /\ IsFiniteSet(Accounts) /\ None \notin Accounts
    /\ \A S \in SUBSET Accounts : S # None
    /\ \A ask \in Queries :
         /\ ask.filters \in Seq({ask.filters[i] : i \in DOMAIN ask.filters})
         /\ \A i \in DOMAIN ask.filters :
              ask.filters[i].index \in {"data_size", "memcmp", "discriminator"}

VARIABLES stats,       \* IndexStatistics: per index, key -> cardinality
          writer,      \* the refresher that has set the lock's writer bit
          readers,     \* how often each querier holds stats.read()
          refreshes,   \* number of refreshes begun
          query,       \* per querier: the query in progress
          queries,     \* number of queries and walks begun
          session,     \* per querier: its client's walk through the pages
          steady       \* history, per querier: accounts no call touched since
                       \* its query, or its session, began

plannerVars == <<stats, writer, readers, refreshes, query, queries,
                 session, steady>>
vars == <<fabricVars, plannerVars>>

Planned == {"program", "data_size", "memcmp", "discriminator"}
Modes == {"plain", "optimized", "paged"}

NoQuery == [pc |-> "idle", mode |-> "plain", ask |-> None, plans |-> 0,
            estimates |-> 0, todo |-> <<>>, found |-> None, lists |-> 0,
            skipped |-> {}]
NoSession == [ask |-> None, cursor |-> None, seen |-> {}, twice |-> {},
              lost |-> FALSE, last |-> TRUE]

\* IndexStatistics::default()
NoStatistics == [k \in Planned |-> EmptyMap]

\* QueryCostModel::new(): no statistics, and nobody holds their lock.
CostModelInit ==
    /\ stats = NoStatistics
    /\ writer = None /\ readers = [t \in Queriers |-> 0]
    /\ refreshes = 0

Init ==
    /\ FabricInit
    /\ CostModelInit
    /\ query = [t \in Queriers |-> NoQuery]
    /\ queries = 0
    /\ session = [t \in Queriers |-> NoSession]
    /\ steady = [t \in Queriers |-> {}]

-----------------------------------------------------------------------------
(***************************************************************************)
(* parking_lot::RwLock: a writer that waits keeps new readers out, also    *)
(* the ones that hold the lock already.                                    *)
(***************************************************************************)
CanRead == writer = None
NoReaders == \A t \in Queriers : readers[t] = 0

(***************************************************************************)
(* refresh_statistics(): all four maps are rebuilt under stats.write().    *)
(* The indexes are read in one step here; the code reads them one by one,  *)
(* which could only give other estimates.                                  *)
(***************************************************************************)
RefreshRequest(r) ==
    /\ writer = None /\ refreshes < MaxRefreshes
    /\ writer' = r
    /\ refreshes' = refreshes + 1
    /\ UNCHANGED <<stats, readers, query, queries, session>>

Cardinalities(k) ==
    [key \in DOMAIN bitmaps[k] |-> Cardinality(GetAccounts(k, key))]

RefreshStatistics(r) ==
    /\ writer = r /\ NoReaders
    /\ stats' = [k \in Planned |-> Cardinalities(k)]
    /\ writer' = None
    /\ UNCHANGED <<readers, refreshes, query, queries, session>>

-----------------------------------------------------------------------------
(***************************************************************************)
(* create_optimized_plan() holds stats.read() while estimate_cardinality() *)
(* takes it again for every filter.                                        *)
(***************************************************************************)
DefaultCardinality == 1000000   \* of a program the statistics do not know

Estimate(e) ==
    IF e.key \in DOMAIN stats[e.index] THEN stats[e.index][e.key]
    ELSE IF e.index = "program" THEN DefaultCardinality ELSE 0

\* What a query looks up: the program, then the filters.
Lookups(ask) == <<Entry("program", ask.program)>> \o ask.filters

\* The stable sort of es by the ranks of its positions: the set of the one
\* rearrangement in which ranks never fall and equal ones keep their order.
SortedBy(es, rank) ==
    LET ordered(p) == \A i, j \in DOMAIN es : i < j =>
                         \/ rank[p[i]] < rank[p[j]]
                         \/ rank[p[i]] = rank[p[j]] /\ p[i] < p[j]
    IN  {[i \in DOMAIN es |-> es[p[i]]] :
            p \in {q \in Bijection(DOMAIN es, DOMAIN es) : ordered(q)}}

\* The program and the filters by cardinality: sort_by_key() is stable.
ExecutionOrder(ask) ==
    LET es == Lookups(ask) IN SortedBy(es, [i \in DOMAIN es |-> Estimate(es[i])])

\* execute_query() looks filters up by type, whatever the statistics say.
PlainRank == [program |-> 0, data_size |-> 1, memcmp |-> 2, discriminator |-> 3]
PlainOrder(ask) ==
    LET es == Lookups(ask) IN SortedBy(es, [i \in DOMAIN es |-> PlainRank[es[i].index]])

\* The query after its last plan, with the lookups it will make.
Execute(x) ==
    {[x EXCEPT !.pc = "lookup", !.plans = 0, !.todo = order] :
        order \in IF x.mode = "optimized" THEN ExecutionOrder(x.ask) ELSE PlainOrder(x.ask)}

\* A call of create_optimized_plan() ends and releases its read lock:
\* plan_query() makes one, execute_query_optimized() another.
PlanDone(x) ==
    IF x.plans > 1 THEN {[x EXCEPT !.pc = "plan", !.plans = @ - 1]} ELSE Execute(x)

\* A client runs a query of its own or starts to walk through pages.
Ask(t, mode, ask) ==
    /\ query[t] = NoQuery /\ session[t].last /\ queries < MaxQueries
    /\ query' = [query EXCEPT ![t] =
                    [@ EXCEPT !.pc = "plan", !.mode = mode, !.ask = ask,
                              !.plans = IF mode = "optimized" THEN 2 ELSE 1]]
    /\ queries' = queries + 1
    /\ session' = [session EXCEPT ![t] =
                      IF mode = "paged" THEN [NoSession EXCEPT !.ask = ask, !.last = FALSE]
                                        ELSE NoSession]
    /\ UNCHANGED <<stats, writer, readers, refreshes>>

\* The client sends the cursor of its last page back.
AskNext(t) ==
    /\ query[t] = NoQuery /\ ~session[t].last
    /\ query' = [query EXCEPT ![t] =
                    [@ EXCEPT !.pc = "plan", !.mode = "paged",
                              !.ask = session[t].ask, !.plans = 1]]
    /\ UNCHANGED <<stats, writer, readers, refreshes, queries, session>>

\* The outer stats.read(); without filters the plan is made and the lock
\* released in the same step.
PlanOuter(t) ==
    /\ query[t].pc = "plan" /\ CanRead
    /\ IF query[t].ask.filters = <<>>
         THEN /\ \E x \in PlanDone(query[t]) : query' = [query EXCEPT ![t] = x]
              /\ UNCHANGED readers
         ELSE /\ query' = [query EXCEPT ![t] =
                              [@ EXCEPT !.pc = "estimate",
                                        !.estimates = Len(query[t].ask.filters)]]
              /\ readers' = [readers EXCEPT ![t] = @ + 1]
    /\ UNCHANGED <<stats, writer, refreshes, queries, session>>

\* The inner stats.read() of estimate_cardinality(); after the last filter
\* the plan is made and the outer lock released.
PlanInner(t) ==
    /\ query[t].pc = "estimate" /\ CanRead
    /\ IF query[t].estimates = 1
         THEN /\ \E x \in PlanDone([query[t] EXCEPT !.estimates = 0]) :
                   query' = [query EXCEPT ![t] = x]
              /\ readers' = [readers EXCEPT ![t] = @ - 1]
         ELSE /\ query' = [query EXCEPT ![t].estimates = @ - 1]
              /\ UNCHANGED readers
    /\ UNCHANGED <<stats, writer, refreshes, queries, session>>

-----------------------------------------------------------------------------
(***************************************************************************)
(* The executors.  A key no account was ever added under yields None, and  *)
(* the filter is passed over; only execute_query() insists on the program. *)
(***************************************************************************)
AccountsUnder(e) ==
    CASE e.index = "program" -> GetAccounts("program", e.key)
      [] e.index = "data_size" -> GetAccountsBySize(e.key)
      [] e.index = "memcmp" -> GetAccountsByMemcmp(e.key)
      [] e.index = "discriminator" -> GetAccountsByDiscriminator(e.key)

\* Mutants of Looked: a filter estimated to match nothing ends the query; the
\* lists are united.
LookedPruned(x, e) ==
    IF x.mode = "optimized" /\ Estimate(e) = 0
      THEN [x EXCEPT !.todo = <<>>, !.found = {}]
    ELSE IF AccountsUnder(e) # None
      THEN [x EXCEPT !.todo = Tail(@), !.lists = @ + 1,
                     !.found = IF @ = None THEN AccountsUnder(e)
                                           ELSE @ \cap AccountsUnder(e)]
    ELSE [x EXCEPT !.todo = Tail(@), !.skipped = @ \cup {e}]

LookedUnited(x, e) ==
    IF AccountsUnder(e) # None
      THEN [x EXCEPT !.todo = Tail(@), !.lists = @ + 1,
                     !.found = IF @ = None THEN AccountsUnder(e)
                                           ELSE @ \cup AccountsUnder(e)]
    ELSE [x EXCEPT !.todo = Tail(@), !.skipped = @ \cup {e}]

\* What the query knows after looking up its next entry e.
Looked(x, e) ==
    LET next == [x EXCEPT !.todo = Tail(@)] IN
    IF AccountsUnder(e) # None
      THEN [next EXCEPT !.lists = @ + 1,
                        !.found = IF @ = None THEN AccountsUnder(e)
                                              ELSE @ \cap AccountsUnder(e)]
    ELSE IF e.index = "program" /\ x.mode # "optimized"
      THEN [next EXCEPT !.todo = <<>>, !.found = {}]
    ELSE [next EXCEPT !.skipped = @ \cup {e}]

Lookup(t) ==
    /\ query[t].pc = "lookup" /\ query[t].todo # <<>>
    /\ query' = [query EXCEPT ![t] = Looked(@, Head(@.todo))]
    /\ UNCHANGED <<stats, writer, readers, refreshes, queries, session>>

Answered(t) == query[t].pc = "lookup" /\ query[t].todo = <<>>
Answer(t) == IF query[t].found = None THEN {} ELSE query[t].found

\* The sequence of the accounts S in the order of their ids.
InIdOrder(S) ==
    {s \in Bijection(1 .. Cardinality(S), S) : \A i, j \in DOMAIN s :
        i < j => dict["program"][s[i]] < dict["program"][s[j]]}

\* The accounts of a program's own list come in the order of their ids; an
\* intersection is a HashSet and comes in any order.
Listing(t) == IF query[t].lists <= 1 THEN InIdOrder(Answer(t)) ELSE SetToSeqs(Answer(t))

\* Mutant of Paginate: the page starts at the cursor's account.
PaginateFromCursor(results, cursor) ==
    LET at == {i \in DOMAIN results : results[i] = cursor}
        start == IF at = {} THEN 0 ELSE (CHOOSE i \in at : TRUE) - 1
    IN  SubSeq(results, start + 1,
               IF start + PageLimit < Len(results) THEN start + PageLimit
                                                   ELSE Len(results))

\* paginate(): the results after the cursor's account, from the start when
\* that account is not among them.
Paginate(results, cursor) ==
    LET at == {i \in DOMAIN results : results[i] = cursor}
        start == IF at = {} THEN 0 ELSE CHOOSE i \in at : TRUE
        end == IF start + PageLimit < Len(results) THEN start + PageLimit ELSE Len(results)
    IN  SubSeq(results, start + 1, end)

\* PaginatedResult::new(): a short page is the last one, a full page has a
\* cursor.
NextPage(s, results) ==
    LET page == Paginate(results, s.cursor)
        full == Len(page) >= PageLimit
    IN  [s EXCEPT !.cursor = IF full THEN page[Len(page)] ELSE None,
                  !.last = ~full,
                  !.lost = @ \/ s.cursor \notin ToSet(results) \cup {None},
                  !.twice = @ \cup (s.seen \cap ToSet(page)),
                  !.seen = @ \cup ToSet(page)]

Respond(t) ==
    /\ Answered(t)
    /\ IF query[t].mode = "paged"
         THEN \E results \in Listing(t) :
                session' = [session EXCEPT ![t] = NextPage(@, results)]
         ELSE UNCHANGED session
    /\ query' = [query EXCEPT ![t] = NoQuery]
    /\ UNCHANGED <<stats, writer, readers, refreshes, queries>>

-----------------------------------------------------------------------------
PlannerNext ==
    \/ \E r \in Refreshers : RefreshRequest(r) \/ RefreshStatistics(r)
    \/ \E t \in Queriers :
         \/ \E mode \in Modes, ask \in Queries : Ask(t, mode, ask)
         \/ AskNext(t) \/ PlanOuter(t) \/ PlanInner(t) \/ Lookup(t) \/ Respond(t)

\* A query, and the first query of a session, starts from the accounts that
\* are settled; a call on an account takes it out.
Observe ==
    steady' = [t \in Queriers |->
        {a \in IF query[t] = NoQuery /\ query'[t] # NoQuery /\ session[t].last
                 THEN Accounts ELSE steady[t] : Settled(a)'}]

Next ==
    /\ \/ FabricNext
          /\ UNCHANGED <<stats, writer, readers, refreshes, query, queries, session>>
       \/ PlannerNext /\ UNCHANGED fabricVars
    /\ Observe

Spec == Init /\ [][Next]_vars

\* Every thread that can take a step of its call takes it in the end.
FairSpec ==
    /\ Spec
    /\ \A r \in Refreshers : WF_vars(RefreshStatistics(r) /\ UNCHANGED fabricVars /\ Observe)
    /\ \A t \in Queriers :
         WF_vars((PlanOuter(t) \/ PlanInner(t) \/ Lookup(t) \/ Respond(t))
                     /\ UNCHANGED fabricVars /\ Observe)

-----------------------------------------------------------------------------
TypeOK ==
    /\ FabricTypeOK
    /\ writer \in Refreshers \cup {None}
    /\ readers \in [Queriers -> 0 .. 1]
    /\ \A t \in Queriers :
         /\ query[t].pc \in {"idle", "plan", "estimate", "lookup"}
         /\ query[t].found = None \/ query[t].found \subseteq Accounts
    /\ steady \in [Queriers -> SUBSET Accounts]

Matches(c, ask, ignored) ==
    /\ c.owner = ask.program
    /\ \A i \in DOMAIN ask.filters :
         ask.filters[i] \in ignored
           \/ ask.filters[i].key \in KeysOf(ask.filters[i].index, c)

\* An account that matches the program and every filter, and that no call
\* touched while the query ran, is in the answer of both executors, whatever
\* other accounts did between the lookups and however stale the plan is.
QueryComplete ==
    \A t \in Queriers : Answered(t) =>
        \A a \in steady[t] :
            latest[a] # None /\ Matches(latest[a], query[t].ask, {})
                => a \in Answer(t)

\* An account in the answer that no call touched meanwhile and that never
\* changed its content exists and matches the program and every filter whose
\* key was known; only accounts that moved can be in it by an old key.
QuerySound ==
    \A t \in Queriers : Answered(t) =>
        \A a \in Answer(t) \cap steady[t] :
            /\ Cardinality(past[a]) = 1
            /\ \A e \in query[t].skipped : e.index # "program"
            => /\ latest[a] # None
               /\ Matches(latest[a], query[t].ask, query[t].skipped)

Unfiltered(t) == session[t].ask # None /\ session[t].ask.filters = <<>>

\* Without filters a client that follows the cursors sees no account twice, while
\* accounts come and go, unless the cursor's own account went away; and when such a
\* walk has reached its last page it has shown every account of the program that no
\* call touched since the first page.
PagesExact ==
    \A t \in Queriers : Unfiltered(t) =>
        /\ ~session[t].lost => session[t].twice = {}
        /\ session[t].last => \A a \in steady[t] :
              latest[a] # None /\ latest[a].owner = session[t].ask.program
                  => a \in session[t].seen

\* A query that plans gets its plan: the statistics' lock is not held against
\* it for ever.
PlansReturn ==
    \A t \in Queriers :
        query[t].pc \in {"plan", "estimate"} ~> query[t].pc \notin {"plan", "estimate"}
=============================================================================
