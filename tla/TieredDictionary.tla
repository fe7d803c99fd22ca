-------------------------- MODULE TieredDictionary --------------------------
(***************************************************************************)
(* index-fabric/src/tiered_dictionary.rs: accounts by discriminator or     *)
(* mint in three levels, each behind a lock of its own.  Lookups promote   *)
(* from the second level to the first, and demotions move a key down, one  *)
(* lock after the other.                                                   *)
(*                                                                         *)
(* An entry is its accounts and the first of them, the only one a move     *)
(* takes along.  Access counts and slots are left out: the counts are      *)
(* never 0, so that the retain() of a full first level keeps every entry   *)
(* and the level grows, and nothing reads the slots.  The third level, to  *)
(* be backed by a file, is a map in memory whose persist() is empty.       *)
(***************************************************************************)
EXTENDS Integers, FiniteSets, Maps, Jobs

CONSTANTS DictKeys,    \* keys: numbers, the second level is ordered by them
          DictIds,     \* account ids
          WarmSize     \* max_size of L2WarmDict

ASSUME DictAssumption == DictKeys \subseteq Nat /\ WarmSize \in Nat \ {0}

VARIABLES hotDict, warmDict, coldDict,   \* key -> entry
          founder,    \* history: key -> the account it was first inserted with
          popped      \* history: keys the second level gave up to make room

dictState == <<hotDict, warmDict, coldDict, founder, popped>>
dictVars == <<dictState, job, jobs>>

DictTypeOK ==
    /\ \A f \in {hotDict, warmDict, coldDict} :
         DOMAIN f \subseteq DictKeys
         /\ \A k \in DOMAIN f : f[k].first \in f[k].account_ids
                                /\ f[k].account_ids \subseteq DictIds
    /\ Cardinality(DOMAIN warmDict) <= WarmSize

DictInit ==
    /\ hotDict = EmptyMap /\ warmDict = EmptyMap /\ coldDict = EmptyMap
    /\ founder = EmptyMap /\ popped = {}
    /\ JobsInit

DictEntry(id) == [first |-> id, account_ids |-> {id}]

add_account(e, id) == [e EXCEPT !.account_ids = @ \cup {id}]

\* insert() of a level that has room: into the entry, or a new one.
Added(f, k, id) == Put(f, k, IF k \in DOMAIN f THEN add_account(f[k], id) ELSE DictEntry(id))

\* Mutant of WarmInsert: a full level takes no new key.
WarmInsertIfRoom(k, id) ==
    /\ warmDict' = IF k \notin DOMAIN warmDict /\ Cardinality(DOMAIN warmDict) >= WarmSize
                     THEN warmDict ELSE Added(warmDict, k, id)
    /\ UNCHANGED popped

\* L2WarmDict::insert(): a full level gives up its smallest key first.
WarmInsert(k, id) ==
    LET full == k \notin DOMAIN warmDict /\ Cardinality(DOMAIN warmDict) >= WarmSize
        least == CHOOSE x \in DOMAIN warmDict : \A y \in DOMAIN warmDict : x <= y
    IN  /\ warmDict' = Added(IF full THEN Drop(warmDict, least) ELSE warmDict, k, id)
        /\ popped' = IF full THEN popped \cup {least} ELSE popped

-----------------------------------------------------------------------------
DictInsert(k, id) ==
    /\ jobs < MaxJobs /\ jobs' = jobs + 1
    /\ hotDict' = Added(hotDict, k, id)
    /\ founder' = IF k \in DOMAIN founder THEN founder ELSE Put(founder, k, id)
    /\ UNCHANGED <<warmDict, coldDict, popped, job>>

(* get(): a hit in the second level is inserted into the first. *)

DictGet(t, k) ==
    /\ Begin(t, [op |-> "dict_get", pc |-> "hot", key |-> k])
    /\ UNCHANGED dictState

\* The access counts are all a lookup in the first and the last level changes.
GetHot(t) ==
    /\ At(t, "dict_get", "hot")
    /\ IF job[t].key \in DOMAIN hotDict THEN Finish(t) ELSE Goto(t, "warm")
    /\ UNCHANGED dictState

Found(t, pc, e) ==
    /\ job' = [job EXCEPT ![t] = [op |-> job[t].op, pc |-> pc, key |-> job[t].key,
                                  first |-> e.first]]
    /\ UNCHANGED jobs

GetWarm(t) ==
    /\ At(t, "dict_get", "warm")
    /\ IF job[t].key \in DOMAIN warmDict
         THEN Found(t, "promote", warmDict[job[t].key]) ELSE Goto(t, "cold")
    /\ UNCHANGED dictState

PromoteEntry(t) ==
    /\ At(t, "dict_get", "promote")
    /\ hotDict' = Added(hotDict, job[t].key, job[t].first)
    /\ Finish(t)
    /\ UNCHANGED <<warmDict, coldDict, founder, popped>>

GetCold(t) ==
    /\ At(t, "dict_get", "cold")
    /\ Finish(t)
    /\ UNCHANGED dictState

-----------------------------------------------------------------------------
(* demote_l1_to_l2(): the entry is removed from one level, and then its first *)
(* account inserted into the other.                                           *)

DemoteHot(t, k) ==
    /\ k \in DOMAIN hotDict
    /\ Begin(t, [op |-> "demote_hot", pc |-> "insert", key |-> k,
                 first |-> hotDict[k].first])
    /\ hotDict' = Drop(hotDict, k)
    /\ UNCHANGED <<warmDict, coldDict, founder, popped>>

DemoteIntoWarm(t) ==
    /\ At(t, "demote_hot", "insert")
    /\ WarmInsert(job[t].key, job[t].first)
    /\ Finish(t)
    /\ UNCHANGED <<hotDict, coldDict, founder>>

(* demote_l2_to_l3(): the entry stays where it is, and its first account is *)
(* inserted into the last level twice.                                      *)

DemoteWarm(t, k) ==
    /\ k \in DOMAIN warmDict
    /\ Begin(t, [op |-> "demote_warm", pc |-> "insert", key |-> k,
                 first |-> warmDict[k].first])
    /\ UNCHANGED dictState

DemoteIntoCold(t) ==
    /\ At(t, "demote_warm", "insert") \/ At(t, "demote_warm", "again")
    /\ coldDict' = Added(coldDict, job[t].key, job[t].first)
    /\ IF job[t].pc = "insert" THEN Goto(t, "again") ELSE Finish(t)
    /\ UNCHANGED <<hotDict, warmDict, founder, popped>>

DictNext ==
    \/ \E k \in DictKeys, id \in DictIds : DictInsert(k, id)
    \/ \E t \in Workers :
         \/ \E k \in DictKeys : DictGet(t, k) \/ DemoteHot(t, k) \/ DemoteWarm(t, k)
         \/ GetHot(t) \/ GetWarm(t) \/ PromoteEntry(t) \/ GetCold(t)
         \/ DemoteIntoWarm(t) \/ DemoteIntoCold(t)

DictSpec == DictInit /\ [][DictNext]_dictVars

-----------------------------------------------------------------------------
\* The account a key was first inserted with stays with it through promotions
\* and demotions: it is in some level, or a demotion is about to insert it,
\* unless the second level gave the key up.  (Of the later ones a demotion
\* loses all, and a lookup sees those of the first level that has the key.)
FounderKept ==
    \A k \in DOMAIN founder \ popped :
        \/ \E f \in {hotDict, warmDict, coldDict} :
              k \in DOMAIN f /\ founder[k] \in f[k].account_ids
        \/ \E t \in Doing("demote_hot") : job[t].key = k /\ job[t].first = founder[k]
=============================================================================
