------------------------------- MODULE Runtime -------------------------------
(***************************************************************************)
(* The sidecar: synapse-hyperplane/src/runtime.rs and bin/sidecar.rs, over *)
(* the slot reconciler.  main() builds the runtime, starts its threads,    *)
(* waits for a signal, clears the running flag and joins the threads.  The *)
(* Geyser consumer is one of the reconciler's threads: every update it     *)
(* reads from the ring makes it call update_processed(), whose lock it may *)
(* have to wait for.  Other threads use the reconciler that                *)
(* slot_reconciler() hands out.                                            *)
(*                                                                         *)
(* The ring is the sequence of slots a reader of it delivers, which is     *)
(* what RingBuffer shows of it.  initialize_query_planner() drops the      *)
(* planner it makes, so query_planner stays None and the query workers,    *)
(* like the metrics thread, only look at the flag and sleep.               *)
(***************************************************************************)
EXTENDS SlotReconciler, Sequences, FiniteSets

CONSTANTS consumer,       \* the Geyser consumer, one of Threads
          Helpers,        \* query workers and the metrics thread
          UpdateSlots,    \* slots of the updates published
          MaxPublished    \* bound: how many

ASSUME RuntimeAssumption ==
    /\ consumer \in Threads /\ Helpers \cap Threads = {}
    /\ UpdateSlots \subseteq Slots /\ MaxPublished \in Nat

VARIABLES main,           \* where main() is
          running,        \* the flag
          cpc,            \* where the consumer is; its calls on the reconciler are in pc
          hpc,            \* where each helper is
          ring_exists,    \* whether the ring's file has been created
          ring,           \* slots published
          position,       \* updates the consumer has read
          geysers_processed

runtimeState == <<main, running, cpc, hpc, ring_exists, ring, position, geysers_processed>>
runtimeVars == <<runtimeState, vars>>

RuntimeInit ==
    /\ Init
    /\ main = "new" /\ running = FALSE
    /\ cpc = "none" /\ hpc = [h \in Helpers |-> "none"]
    /\ ring_exists \in BOOLEAN /\ ring = <<>> /\ position = 0 /\ geysers_processed = 0

RuntimeTypeOK ==
    /\ main \in {"new", "planned", "wait", "stop", "join", "stopped"}
    /\ running \in BOOLEAN
    /\ cpc \in {"none", "open", "test", "read", "update", "count", "absent", "done"}
    /\ hpc \in [Helpers -> {"none", "loop", "done"}]
    /\ ring_exists \in BOOLEAN /\ ring \in Seq(UpdateSlots)
    /\ position \in Nat /\ geysers_processed \in Nat

-----------------------------------------------------------------------------
(* The validator, which creates the ring and publishes updates *)

CreateRing ==
    /\ ~ring_exists /\ ring_exists' = TRUE
    /\ UNCHANGED <<main, running, cpc, hpc, ring, position, geysers_processed, vars>>

Publish(s) ==
    /\ ring_exists /\ Len(ring) < MaxPublished
    /\ ring' = Append(ring, s)
    /\ UNCHANGED <<main, running, cpc, hpc, ring_exists, position, geysers_processed, vars>>

-----------------------------------------------------------------------------
(* main(): start(), the select!, stop() and the joins *)

\* initialize_query_planner(): the planner is made and dropped.
InitializeQueryPlanner ==
    /\ main = "new" /\ main' = "planned"
    /\ UNCHANGED <<running, cpc, hpc, ring_exists, ring, position, geysers_processed, vars>>

StartRuntime ==
    /\ main = "planned"
    /\ main' = "wait" /\ running' = TRUE
    /\ cpc' = "open" /\ hpc' = [h \in Helpers |-> "loop"]
    /\ UNCHANGED <<ring_exists, ring, position, geysers_processed, vars>>

\* The other branch of the select! looks for finished threads only once, when no
\* thread can have finished; after that it reports for ever.
CtrlC ==
    /\ main = "wait" /\ main' = "stop"
    /\ UNCHANGED <<running, cpc, hpc, ring_exists, ring, position, geysers_processed, vars>>

Stop ==
    /\ main = "stop"
    /\ main' = "join" /\ running' = FALSE
    /\ UNCHANGED <<cpc, hpc, ring_exists, ring, position, geysers_processed, vars>>

Join ==
    /\ main = "join"
    /\ cpc = "done" /\ \A h \in Helpers : hpc[h] = "done"
    /\ main' = "stopped"
    /\ UNCHANGED <<running, cpc, hpc, ring_exists, ring, position, geysers_processed, vars>>

-----------------------------------------------------------------------------
(* geyser_consumer_loop() *)

ConsumerAt(a, b) ==
    /\ cpc = a /\ cpc' = b
    /\ UNCHANGED <<main, running, hpc, ring_exists, ring>>

OpenRing ==
    /\ ConsumerAt("open", IF ring_exists THEN "test" ELSE "absent")
    /\ UNCHANGED <<position, geysers_processed, vars>>

TestRunning ==
    /\ ConsumerAt("test", IF running THEN "read" ELSE "done")
    /\ UNCHANGED <<position, geysers_processed, vars>>

\* Mutant of WaitForRing: the flag is not looked at.
WaitForEver ==
    /\ ConsumerAt("absent", "absent")
    /\ UNCHANGED <<position, geysers_processed, vars>>

\* A ring that is created later is never opened.
WaitForRing ==
    /\ ConsumerAt("absent", IF running THEN "absent" ELSE "done")
    /\ UNCHANGED <<position, geysers_processed, vars>>

\* read_next(): an update, no update or an error; after the last two it sleeps.
ReadUpdate ==
    /\ cpc = "read" /\ position < Len(ring)
    /\ StoreAtomic(consumer, "Processed", ring[position + 1])
    /\ ConsumerAt("read", "update")
    /\ position' = position + 1
    /\ UNCHANGED geysers_processed

ReadNothing ==
    /\ ConsumerAt("read", "test")
    /\ UNCHANGED <<position, geysers_processed, vars>>

\* update_processed() gets the lock and returns; then the update is counted.
UpdateReturns ==
    /\ ConsumerAt("update", "count")
    /\ UpdateLocked(consumer)
    /\ UNCHANGED <<position, geysers_processed>>

CountUpdate ==
    /\ ConsumerAt("count", "test")
    /\ geysers_processed' = geysers_processed + 1
    /\ UNCHANGED <<position, vars>>

ConsumerStep ==
    \/ OpenRing \/ TestRunning \/ WaitForRing \/ ReadUpdate \/ ReadNothing
    \/ UpdateReturns \/ CountUpdate

-----------------------------------------------------------------------------
\* query_worker_loop() and metrics_loop() sleep, and end when the flag is cleared.
HelperStep(h) ==
    /\ hpc[h] = "loop" /\ ~running
    /\ hpc' = [hpc EXCEPT ![h] = "done"]
    /\ UNCHANGED <<main, running, cpc, ring_exists, ring, position, geysers_processed, vars>>

\* The other threads that use the reconciler, from when there is one to use.
OtherThread ==
    /\ main # "new"
    /\ \E t \in Threads \ {consumer} : ThreadStep(t)
    /\ UNCHANGED runtimeState

RuntimeNext ==
    \/ CreateRing \/ \E s \in UpdateSlots : Publish(s)
    \/ InitializeQueryPlanner \/ StartRuntime \/ CtrlC \/ Stop \/ Join
    \/ ConsumerStep \/ \E h \in Helpers : HelperStep(h)
    \/ OtherThread

RuntimeSpec == RuntimeInit /\ [][RuntimeNext]_runtimeVars

\* The operating system runs every thread, and main(); a call on the reconciler
\* that has begun goes on, as SlotReconciler says.  Signals, the validator and
\* the other threads' calls need not come.
RuntimeFairness ==
    /\ WF_runtimeVars(Stop) /\ WF_runtimeVars(Join)
    /\ WF_runtimeVars(OpenRing \/ TestRunning \/ WaitForRing \/ CountUpdate)
    /\ WF_runtimeVars(ReadUpdate \/ ReadNothing)
    /\ SF_runtimeVars(UpdateReturns)
    /\ \A h \in Helpers : WF_runtimeVars(HelperStep(h))
    /\ \A t \in Threads \ {consumer} : SF_runtimeVars(GoOn(t) /\ UNCHANGED runtimeState)

-----------------------------------------------------------------------------
\* Once the signal has come, main() joins every thread and returns: the consumer
\* is not kept from seeing the flag by a ring that never opens, by a stream of
\* updates or by the reconciler's lock.
ShutdownCompletes == main = "stop" ~> main = "stopped"
=============================================================================
