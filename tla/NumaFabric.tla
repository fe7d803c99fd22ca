----------------------------- MODULE NumaFabric -----------------------------
(***************************************************************************)
(* The NUMA-aware memory of index-fabric/src/numa_fabric.rs: an allocator  *)
(* that picks a node for the calling core, a pool of buffers and a storage *)
(* per node.  The node is chosen before the node's lock is taken, and the  *)
(* counter behind the interleaved policy is shared by all callers.         *)
(*                                                                         *)
(* A buffer is a number, a storage the sequence of its cells; a write is   *)
(* one cell long.  The policies pick node 0, node 1 or the preferred one,  *)
(* whatever number of nodes a pool or storage was made for: a call for a   *)
(* node that is not there panics.  Pool and storage have the same number.  *)
(***************************************************************************)
EXTENDS Integers, Sequences, SequencesExt, FiniteSets, Jobs

CONSTANTS num_nodes,     \* nodes that the pool and the storage are made for
          PreferredNodes,
          NodeCores,     \* cores below this belong to node 0 (8)
          Cores,         \* cores that call
          PoolSize,      \* buffers a pool keeps (1024)
          InitialCells,  \* initial capacity of a storage
          Offsets,       \* where data is written
          NumaValues     \* what is written

ASSUME NumaAssumption ==
    /\ num_nodes \in Nat /\ PreferredNodes \subseteq Nat
    /\ Cores \subseteq Nat /\ NodeCores \in Nat /\ PoolSize \in Nat
    /\ InitialCells \in Nat /\ Offsets \subseteq Nat /\ NumaValues \subseteq Nat \ {0}

Nodes == 0 .. num_nodes - 1
Policies == {"Preferred", "Local", "Interleaved", "Bind"}

VARIABLES policy, preferred_node,  \* NumaAllocator
          COUNTER,                 \* of interleaved_node(), modulo 2
          pools,                   \* NumaBufferPool: node -> buffers
          storage,                 \* NumaIndexStorage: node -> cells
          held,                    \* worker -> the buffer it has acquired, 0 for none
          made,                    \* number of buffers made
          copied                   \* history: <<node, offset>> -> value copied last

numaState == <<policy, preferred_node, COUNTER, pools, storage, held, made, copied>>
numaVars == <<numaState, job, jobs>>

\* The constructors; the buffers and the cells of every node are its own.
NewAllocator == policy \in Policies /\ preferred_node \in PreferredNodes
NewBufferPool == pools = [n \in Nodes |-> <<>>]
NewIndexStorage == storage = [n \in Nodes |-> [i \in 1 .. InitialCells |-> 0]]

NumaInit ==
    /\ NewAllocator /\ NewBufferPool /\ NewIndexStorage
    /\ COUNTER = 0 /\ made = 0
    /\ held = [t \in Workers |-> 0]
    /\ copied = [x \in Nodes \X Offsets |-> 0]
    /\ JobsInit

NumaTypeOK ==
    /\ COUNTER \in {0, 1} /\ made \in Nat
    /\ held \in [Workers -> 0 .. made]
    /\ pools \in [Nodes -> Seq(1 .. made)]
    /\ storage \in [Nodes -> Seq({0} \cup NumaValues)]

-----------------------------------------------------------------------------
(* NumaAllocator *)

core_to_node(core) == IF core < NodeCores THEN 0 ELSE 1

\* The node for a core; the interleaved one takes the next of the counter.
optimal_node(core) ==
    CASE policy \in {"Preferred", "Bind"} -> preferred_node
      [] policy = "Local" -> core_to_node(core)
      [] policy = "Interleaved" -> COUNTER

interleaved_node == COUNTER' = IF policy = "Interleaved" THEN (COUNTER + 1) % 2 ELSE COUNTER

\* Every call first asks for the node ...
NumaCall(t, op, core, offset, value) ==
    /\ optimal_node(core) \in Nodes
    /\ Begin(t, [op |-> op, pc |-> "locked", node |-> optimal_node(core),
                 offset |-> offset, value |-> value])
    /\ interleaved_node
    /\ UNCHANGED <<policy, preferred_node, pools, storage, held, made, copied>>

\* ... and panics when the pool or the storage has no such node; release_buffer() drops
\* the buffer it was given.
NumaPanic(t, op, core) ==
    /\ optimal_node(core) \notin Nodes
    /\ job[t].op = "idle" /\ jobs < MaxJobs /\ jobs' = jobs + 1
    /\ held' = IF op = "release_buffer" THEN [held EXCEPT ![t] = 0] ELSE held
    /\ interleaved_node
    /\ UNCHANGED <<policy, preferred_node, pools, storage, made, copied, job>>

-----------------------------------------------------------------------------
(* NumaBufferPool; the pool's lock is held for one action *)

CallAcquire(t, core) == held[t] = 0 /\ NumaCall(t, "acquire_buffer", core, 0, 0)
CallRelease(t, core) == held[t] # 0 /\ NumaCall(t, "release_buffer", core, 0, 0)

AcquireBuffer(t) ==
    /\ At(t, "acquire_buffer", "locked")
    /\ LET pool == pools[job[t].node] IN
       IF pool = <<>>
         THEN /\ made' = made + 1 /\ held' = [held EXCEPT ![t] = made']
              /\ UNCHANGED pools
         ELSE /\ held' = [held EXCEPT ![t] = Last(pool)]
              /\ pools' = [pools EXCEPT ![job[t].node] = Front(@)]
              /\ UNCHANGED made
    /\ Finish(t)
    /\ UNCHANGED <<policy, preferred_node, COUNTER, storage, copied>>

\* A full pool drops the buffer.
ReleaseBuffer(t) ==
    /\ At(t, "release_buffer", "locked")
    /\ pools' = [pools EXCEPT ![job[t].node] =
                   IF Len(@) < PoolSize THEN Append(@, held[t]) ELSE @]
    /\ held' = [held EXCEPT ![t] = 0]
    /\ Finish(t)
    /\ UNCHANGED <<policy, preferred_node, COUNTER, storage, made, copied>>

-----------------------------------------------------------------------------
(* NumaIndexStorage: write() grows the storage to hold the data; read() *)

Grown(cells, n) == [i \in 1 .. n |-> IF i \in DOMAIN cells THEN cells[i] ELSE 0]

\* Mutant of WriteStorage: a storage that is too short is made anew.
WriteAnew(t) ==
    /\ At(t, "write", "locked")
    /\ LET j == job[t]
           cells == storage[j.node]
           long == IF j.offset + 1 > Len(cells) THEN Grown(<<>>, j.offset + 1) ELSE cells
       IN  /\ storage' = [storage EXCEPT ![j.node] = [long EXCEPT ![j.offset + 1] = j.value]]
           /\ copied' = [copied EXCEPT ![<<j.node, j.offset>>] = j.value]
    /\ Finish(t)
    /\ UNCHANGED <<policy, preferred_node, COUNTER, pools, held, made>>

WriteStorage(t) ==
    /\ At(t, "write", "locked")
    /\ LET j == job[t]
           cells == storage[j.node]
           long == IF j.offset + 1 > Len(cells) THEN Grown(cells, j.offset + 1) ELSE cells
       IN  /\ storage' = [storage EXCEPT ![j.node] = [long EXCEPT ![j.offset + 1] = j.value]]
           /\ copied' = [copied EXCEPT ![<<j.node, j.offset>>] = j.value]
    /\ Finish(t)
    /\ UNCHANGED <<policy, preferred_node, COUNTER, pools, held, made>>

\* None, as the empty set, beyond the storage.
read_cell(n, offset) == IF offset + 1 > Len(storage[n]) THEN {} ELSE {storage[n][offset + 1]}

node_stats == [n \in Nodes |-> Len(pools[n])]

NumaNext ==
    \E t \in Workers :
        \/ \E c \in Cores : CallAcquire(t, c) \/ CallRelease(t, c)
        \/ \E c \in Cores, o \in Offsets, v \in NumaValues : NumaCall(t, "write", c, o, v)
        \/ \E op \in {"acquire_buffer", "release_buffer", "write"}, c \in Cores : NumaPanic(t, op, c)
        \/ AcquireBuffer(t) \/ ReleaseBuffer(t) \/ WriteStorage(t)

NumaSpec == NumaInit /\ [][NumaNext]_numaVars

-----------------------------------------------------------------------------
\* The buffers that threads hold and pools keep.
Holders(b) == {t \in Workers : held[t] = b}
Places(b) == {x \in Nodes \X (1 .. PoolSize + 1) :
                x[2] \in DOMAIN pools[x[1]] /\ pools[x[1]][x[2]] = b}

\* Whichever nodes the calls of two threads were given, and whether one of them panicked:
\* a buffer has one owner, a pool keeps no more than its size, data stays readable on the
\* node it was written to while later writes grow the storage, a storage grows no further
\* than the farthest of those writes, and with a fixed node nothing is kept on another.
NumaHolds ==
    /\ \A b \in 1 .. made : Cardinality(Holders(b)) + Cardinality(Places(b)) <= 1
    /\ \A n \in Nodes : node_stats[n] <= PoolSize
    /\ \A n \in Nodes, o \in Offsets : copied[<<n, o>>] # 0 => read_cell(n, o) = {copied[<<n, o>>]}
    /\ \A n \in Nodes : Len(storage[n]) > InitialCells =>
          \E o \in Offsets : copied[<<n, o>>] # 0 /\ Len(storage[n]) = o + 1
    /\ policy \in {"Preferred", "Bind"} => \A n \in Nodes \ {preferred_node} :
          node_stats[n] = 0 /\ \A o \in Offsets : copied[<<n, o>>] = 0
=============================================================================
