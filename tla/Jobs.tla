-------------------------------- MODULE Jobs --------------------------------
(***************************************************************************)
(* Threads that call methods of a shared object.  A thread has at most one *)
(* call in progress, a record with the method (op), the step it is at (pc) *)
(* and whatever else the method keeps in its local variables.              *)
(***************************************************************************)
EXTENDS Integers, FiniteSets

CONSTANTS Workers,   \* the threads
          MaxJobs    \* bound: number of calls

ASSUME JobsAssumption == MaxJobs \in Nat

VARIABLES job,       \* per thread: the call in progress
          jobs       \* number of calls begun

NoJob == [op |-> "idle", pc |-> "start"]

JobsInit == job = [t \in Workers |-> NoJob] /\ jobs = 0

Begin(t, j) ==
    /\ job[t].op = "idle" /\ jobs < MaxJobs
    /\ job' = [job EXCEPT ![t] = j]
    /\ jobs' = jobs + 1

At(t, op, pc) == job[t].op = op /\ job[t].pc = pc

Goto(t, pc) == job' = [job EXCEPT ![t].pc = pc] /\ UNCHANGED jobs

Finish(t) == job' = [job EXCEPT ![t] = NoJob] /\ UNCHANGED jobs

Doing(op) == {t \in Workers : job[t].op = op}
=============================================================================
