---------------------------- MODULE HotColdIndex ----------------------------
(***************************************************************************)
(* index-fabric/src/hot_cold_index.rs: an index of hot, warm and cold      *)
(* accounts per program, and the manager that creates these indexes and    *)
(* tells them the slot.  A caller asks the manager for the index of a      *)
(* program, which looks under a read lock and creates under a write lock,  *)
(* and then works on the index it was given.                               *)
(*                                                                         *)
(* Only the hot tier is ever written.  It is an LsmBitmap: here its ids,    *)
(* those among them that a running compaction holds outside base and       *)
(* deltas, where that compaction is, and whether two insertions overlapped *)
(* past the delta: then two compactions may run, which lose ids (run       *)
(* lsm_concurrent_inserts), while with one they lose none (LsmImplements-  *)
(* IdSet).  Accounts stand for their id and their pubkey; the access       *)
(* counts are only reported.                                               *)
(***************************************************************************)
EXTENDS Integers, FiniteSets, Sequences, Maps, Jobs

CONSTANTS Programs,     \* program ids
          TierIds,      \* accounts
          NewSlots,     \* slots update_slot() is called with
          HotSlots,     \* HOT_THRESHOLD_SLOTS (100)
          WarmSlots     \* WARM_THRESHOLD_SLOTS (10000)

ASSUME HotColdAssumption ==
    NewSlots \subseteq Nat \ {0} /\ HotSlots \in Nat \ {0} /\ WarmSlots \in Nat

VARIABLES tiered,            \* the indexes created so far, registered or not
          program_indexes,   \* program -> position in tiered
          current_slot,      \* of the manager
          done,              \* history: program -> accounts whose insertion returned
          twice              \* history: programs whose index was created twice at once

hotColdState == <<tiered, program_indexes, current_slot, done, twice>>
hotColdVars == <<hotColdState, job, jobs>>

HotColdInit ==
    /\ tiered = <<>> /\ program_indexes = EmptyMap
    /\ current_slot = 0
    /\ done = [p \in Programs |-> {}] /\ twice = {}
    /\ JobsInit

\* query_all() of index i: a compaction's ids are in neither base nor deltas.
query_all(i) ==
    (tiered[i].Hot \ tiered[i].moving) \cup tiered[i].Warm \cup tiered[i].Cold

HotColdTypeOK ==
    /\ \A i \in DOMAIN tiered :
         query_all(i) \subseteq TierIds /\ DOMAIN tiered[i].metadata \subseteq TierIds
    /\ DOMAIN program_indexes \subseteq Programs
    /\ \A p \in DOMAIN program_indexes : program_indexes[p] \in DOMAIN tiered
    /\ current_slot \in {0} \cup NewSlots

\* AccountMetadata: new(), calculate_tier() and access(), which computes the tier
\* from the slot it has just stored.
AccountMetadata(s) == [last_access_slot |-> s, tier |-> "Hot"]

calculate_tier(m, s) ==
    CASE s < m.last_access_slot + HotSlots -> "Hot"
      [] s >= m.last_access_slot + HotSlots /\ s < m.last_access_slot + WarmSlots -> "Warm"
      [] OTHER -> "Cold"

accessed(m, s) == LET n == [m EXCEPT !.last_access_slot = s]
                  IN  [n EXCEPT !.tier = calculate_tier(n, s)]

\* TieredIndex::new(), told the slot s.
TieredIndex(s) == [Hot |-> {}, Warm |-> {}, Cold |-> {}, metadata |-> EmptyMap, slot |-> s,
                   moving |-> {}, compaction |-> "none", lossy |-> FALSE]

\* The calls on an index: each first gets the index from the manager.
IndexCalls == {"insert_account", "access_account", "promote_to_hot"}
FirstStep(op) == IF op = "promote_to_hot" THEN "hot" ELSE "slot"

Creating(p) == {t \in Workers : job[t].op \in IndexCalls /\ job[t].program = p
                                  /\ job[t].pc \in {"create", "register"}}

-----------------------------------------------------------------------------
(* get_or_create_index() *)

IndexCall(t, op, p, a) ==
    /\ Begin(t, [op |-> op, pc |-> "find", program |-> p, account |-> a, index |-> 0,
                 slot |-> 0])
    /\ UNCHANGED hotColdState

FindIndex(t) ==
    /\ job[t].op \in IndexCalls /\ job[t].pc = "find"
    /\ LET p == job[t].program IN
       IF p \in DOMAIN program_indexes
         THEN /\ job' = [job EXCEPT ![t].index = program_indexes[p],
                                    ![t].pc = FirstStep(job[t].op)]
              /\ UNCHANGED twice
         ELSE /\ job' = [job EXCEPT ![t].pc = "create"]
              /\ twice' = IF Creating(p) # {} THEN twice \cup {p} ELSE twice
    /\ UNCHANGED <<tiered, program_indexes, current_slot, done, jobs>>

CreateIndex(t) ==
    /\ job[t].op \in IndexCalls /\ job[t].pc = "create"
    /\ tiered' = Append(tiered, TieredIndex(current_slot))
    /\ job' = [job EXCEPT ![t].index = Len(tiered'), ![t].pc = "register"]
    /\ UNCHANGED <<program_indexes, current_slot, done, twice, jobs>>

\* Mutant of RegisterIndex: another new index is registered in place of the one
\* the caller works on.
RegisterAnother(t) ==
    /\ job[t].op \in IndexCalls /\ job[t].pc = "register"
    /\ tiered' = Append(tiered, TieredIndex(current_slot))
    /\ program_indexes' = Put(program_indexes, job[t].program, Len(tiered'))
    /\ Goto(t, FirstStep(job[t].op))
    /\ UNCHANGED <<current_slot, done, twice>>

\* The write lock waits for an update_slot() that walks over the indexes.
RegisterIndex(t) ==
    /\ job[t].op \in IndexCalls /\ job[t].pc = "register"
    /\ \A u \in Doing("update_slot") : job[u].pc # "walk"
    /\ program_indexes' = Put(program_indexes, job[t].program, job[t].index)
    /\ Goto(t, FirstStep(job[t].op))
    /\ UNCHANGED <<tiered, current_slot, done, twice>>

-----------------------------------------------------------------------------
(* insert_account(), access_account(), promote_to_hot() *)

ReadSlot(t) ==
    /\ job[t].op \in IndexCalls /\ job[t].pc = "slot"
    /\ job' = [job EXCEPT ![t].slot = tiered[job[t].index].slot,
                          ![t].pc = IF job[t].op = "access_account" THEN "metadata" ELSE "hot"]
    /\ UNCHANGED <<hotColdState, jobs>>

\* Threads past the delta of index i, before or inside should_compact().
Compacting(i) == {t \in Workers : job[t].op \in IndexCalls /\ job[t].pc = "compact"
                                    /\ job[t].index = i}

\* LsmBitmap::insert(): the id goes into a delta.
InsertHot(t) ==
    /\ job[t].op \in IndexCalls /\ job[t].pc = "hot"
    /\ LET i == job[t].index IN
       tiered' = [tiered EXCEPT ![i].Hot = @ \cup {job[t].account},
                                ![i].moving = @ \ {job[t].account},
                                ![i].lossy = @ \/ Compacting(i) # {}]
    /\ Goto(t, "compact")
    /\ UNCHANGED <<program_indexes, current_slot, done, twice>>

\* Its end: a compaction is started, unless one runs or none is due.
AfterInsert(t) ==
    /\ job[t].op \in IndexCalls /\ job[t].pc = "compact"
    /\ LET i == job[t].index IN
       \/ UNCHANGED tiered
       \/ /\ tiered[i].compaction = "none"
          /\ tiered' = [tiered EXCEPT ![i].compaction = "started"]
    /\ IF job[t].op = "promote_to_hot" THEN Finish(t) ELSE Goto(t, "metadata")
    /\ UNCHANGED <<program_indexes, current_slot, done, twice>>

\* The compaction drains the deltas, whichever ids are in them, and installs the base.
DrainHot(i) ==
    /\ tiered[i].compaction = "started"
    /\ \E S \in SUBSET tiered[i].Hot :
         tiered' = [tiered EXCEPT ![i].moving = S, ![i].compaction = "drained"]
    /\ UNCHANGED <<program_indexes, current_slot, done, twice, job, jobs>>

SwapHot(i) ==
    /\ tiered[i].compaction = "drained"
    /\ \E lost \in SUBSET tiered[i].Hot :
         /\ lost # {} => tiered[i].lossy
         /\ tiered' = [tiered EXCEPT ![i].Hot = @ \ lost, ![i].moving = {},
                                     ![i].compaction = "none"]
    /\ UNCHANGED <<program_indexes, current_slot, done, twice, job, jobs>>

\* An insertion replaces the metadata; an access updates it, or creates it.
SaveMetadata(t) ==
    /\ job[t].op \in IndexCalls /\ job[t].pc = "metadata"
    /\ LET a == job[t].account
           known == tiered[job[t].index].metadata
           m == IF job[t].op = "access_account" /\ a \in DOMAIN known
                  THEN accessed(known[a], job[t].slot) ELSE AccountMetadata(job[t].slot)
       IN  tiered' = [tiered EXCEPT ![job[t].index].metadata = Put(@, a, m)]
    /\ done' = IF job[t].op = "insert_account"
                 THEN [done EXCEPT ![job[t].program] = @ \cup {job[t].account}] ELSE done
    /\ Finish(t)
    /\ UNCHANGED <<program_indexes, current_slot, twice>>

-----------------------------------------------------------------------------
(* update_slot(): the manager's slot, then that of every registered index *)

UpdateSlot(t, s) ==
    /\ Begin(t, [op |-> "update_slot", pc |-> "lock", slot |-> s])
    /\ current_slot' = s
    /\ UNCHANGED <<tiered, program_indexes, done, twice>>

\* The read lock of the map is held from here to the end of the walk.
LockIndexes(t) ==
    /\ At(t, "update_slot", "lock")
    /\ job' = [job EXCEPT ![t] = [op |-> "update_slot", pc |-> "walk", slot |-> job[t].slot,
                                  todo |-> {program_indexes[p] : p \in DOMAIN program_indexes}]]
    /\ UNCHANGED <<hotColdState, jobs>>

SetCurrentSlot(t) ==
    /\ At(t, "update_slot", "walk")
    /\ \/ \E i \in job[t].todo :
            /\ tiered' = [tiered EXCEPT ![i].slot = job[t].slot]
            /\ job' = [job EXCEPT ![t].todo = @ \ {i}]
            /\ UNCHANGED jobs
       \/ job[t].todo = {} /\ Finish(t) /\ UNCHANGED tiered
    /\ UNCHANGED <<program_indexes, current_slot, done, twice>>

HotColdNext ==
    \/ \E i \in DOMAIN tiered : DrainHot(i) \/ SwapHot(i)
    \/ \E t \in Workers :
        \/ \E op \in IndexCalls, p \in Programs, a \in TierIds : IndexCall(t, op, p, a)
        \/ \E s \in NewSlots : UpdateSlot(t, s)
        \/ FindIndex(t) \/ CreateIndex(t) \/ RegisterIndex(t)
        \/ ReadSlot(t) \/ InsertHot(t) \/ AfterInsert(t) \/ SaveMetadata(t)
        \/ LockIndexes(t) \/ SetCurrentSlot(t)

HotColdSpec == HotColdInit /\ [][HotColdNext]_hotColdVars

-----------------------------------------------------------------------------
\* An account whose insertion has returned is in the metadata of the index the manager
\* hands out for the program, and query_all() finds it unless a compaction is between
\* draining the deltas and installing the base with it.  Two things break that in the code
\* and are left out: two callers that created the index at once, one of them working on
\* another index than the registered one, and two insertions into the hot bitmap that
\* overlapped, whose compactions lose ids.
InsertedIsListed ==
    \A p \in Programs \ twice : \A a \in done[p] :
        /\ p \in DOMAIN program_indexes
        /\ LET i == program_indexes[p] IN
             /\ a \in DOMAIN tiered[i].metadata
             /\ \/ a \in query_all(i)
                \/ tiered[i].compaction = "drained" /\ a \in tiered[i].moving
                \/ tiered[i].lossy
=============================================================================
