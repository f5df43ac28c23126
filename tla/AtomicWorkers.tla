---------------------------- MODULE AtomicWorkers ----------------------------
(***************************************************************************)
(* os_scheduler of src/thread-affinity/os.cpp: main starts four threads,  *)
(* t0 and t1 on the AlignedAtomic a and t2 and t3 on b, each adding 1 to   *)
(* its counter Iterations times with atomic.val++ (one fetch_add), then    *)
(* joins them in order; the benchmark loop calls os_scheduler again with   *)
(* fresh counters.  Thread k is spawned by main's k-th step.               *)
(***************************************************************************)
EXTENDS Naturals

CONSTANT Iterations   \* the loop bound 1 << 12

Workers == 0..3
Shared  == [w \in Workers |-> IF w < 2 THEN "a" ELSE "b"]   \* std::ref(a/b)

VARIABLES
  val,       \* counter name -> AlignedAtomic::val
  i,         \* worker -> its loop index
  spawned,   \* the workers constructed so far (std::thread tk(...))
  joined     \* the workers main has joined so far

workerVars == <<val, i, spawned, joined>>

Init ==
  /\ val = [c \in {"a", "b"} |-> 0]
  /\ i = [w \in Workers |-> 0]
  /\ spawned = 0
  /\ joined = 0

\* std::thread tk(work, std::ref(...)): the next thread starts running
Spawn ==
  /\ spawned < 4
  /\ spawned' = spawned + 1
  /\ UNCHANGED <<val, i, joined>>

\* fault variant: the loop bound tested with <=
WorkOffByOne(w) ==
  /\ w < spawned
  /\ i[w] <= Iterations
  /\ val' = [val EXCEPT ![Shared[w]] = @ + 1]
  /\ i' = [i EXCEPT ![w] = @ + 1]
  /\ UNCHANGED <<spawned, joined>>

\* one pass of for (int i = 0; i < (1 << 12); i++) atomic.val++;
Work(w) ==
  /\ w < spawned
  /\ i[w] < Iterations
  /\ val' = [val EXCEPT ![Shared[w]] = @ + 1]
  /\ i' = [i EXCEPT ![w] = @ + 1]
  /\ UNCHANGED <<spawned, joined>>

\* tk.join(): main waits for the next thread to leave its loop
Join ==
  /\ spawned = 4
  /\ joined < 4
  /\ i[joined] = Iterations
  /\ joined' = joined + 1
  /\ UNCHANGED <<val, i, spawned>>

\* os_scheduler returns; while (s.KeepRunning()) calls it again
Return ==
  /\ joined = 4
  /\ val' = [c \in {"a", "b"} |-> 0]
  /\ i' = [w \in Workers |-> 0]
  /\ spawned' = 0
  /\ joined' = 0

Next == Spawn \/ Join \/ Return \/ \E w \in Workers : Work(w)

TypeOK ==
  /\ val \in [{"a", "b"} -> 0..(2 * Iterations)]
  /\ i \in [Workers -> 0..Iterations]
  /\ spawned \in 0..4
  /\ joined \in 0..spawned
=============================================================================
