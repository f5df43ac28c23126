----------------------------- MODULE CasCounter -----------------------------
(***************************************************************************)
(* The counter of src/non-blocking/main.cpp: Threads threads raise the    *)
(* atomic sink to num_iterations with a compare_exchange_strong loop.     *)
(* work and slow_work are the same loop (the sleep after slow_work's     *)
(* while(true) is never reached), so one action set models both.          *)
(***************************************************************************)
EXTENDS Integers, Functions

CONSTANTS
  Threads,
  Iterations   \* num_iterations (1<<15 in the program)

VARIABLES
  sink,        \* std::atomic<int> sink
  expected,    \* each thread's local expected
  pc,          \* "load", "check", "cas" or "done"
  incs         \* history: successful exchanges of each thread

vars == <<sink, expected, pc, incs>>

Init ==
  /\ sink = 0
  /\ expected = [t \in Threads |-> 0]
  /\ pc = [t \in Threads |-> "load"]
  /\ incs = [t \in Threads |-> 0]

\* int expected = sink.load();
Load(t) ==
  /\ pc[t] = "load"
  /\ expected' = [expected EXCEPT ![t] = sink]
  /\ pc' = [pc EXCEPT ![t] = "check"]
  /\ UNCHANGED <<sink, incs>>

\* fault variant: the loop stops one past num_iterations
CheckOffByOne(t) ==
  /\ pc[t] = "check"
  /\ pc' = [pc EXCEPT ![t] = IF expected[t] = Iterations + 1 THEN "done" ELSE "cas"]
  /\ UNCHANGED <<sink, expected, incs>>

\* if (expected == num_iterations) return; desired = expected + 1;
Check(t) ==
  /\ pc[t] = "check"
  /\ pc' = [pc EXCEPT ![t] = IF expected[t] = Iterations THEN "done" ELSE "cas"]
  /\ UNCHANGED <<sink, expected, incs>>

\* fault variant: sink.store(desired) in place of the exchange
CasAsStore(t) ==
  /\ pc[t] = "cas"
  /\ sink' = expected[t] + 1
  /\ incs' = [incs EXCEPT ![t] = @ + 1]
  /\ pc' = [pc EXCEPT ![t] = "load"]
  /\ UNCHANGED expected

\* sink.compare_exchange_strong(expected, desired): on success back to the
\* outer loop's load, on failure expected takes sink's value and the do
\* loop tests it again (strong: no spurious failure)
Cas(t) ==
  /\ pc[t] = "cas"
  /\ IF sink = expected[t]
     THEN /\ sink' = expected[t] + 1
          /\ incs' = [incs EXCEPT ![t] = @ + 1]
          /\ pc' = [pc EXCEPT ![t] = "load"]
          /\ UNCHANGED expected
     ELSE /\ expected' = [expected EXCEPT ![t] = sink]
          /\ pc' = [pc EXCEPT ![t] = "check"]
          /\ UNCHANGED <<sink, incs>>

Worker(t) == Load(t) \/ Check(t) \/ Cas(t)

Next == \E t \in Threads : Worker(t)

\* Every thread is scheduled; nothing blocks, so weak fairness is enough.
Fairness == \A t \in Threads : WF_vars(Worker(t))

Spec == Init /\ [][Next]_vars /\ Fairness

-----------------------------------------------------------------------------
TypeOK ==
  /\ sink \in 0..Iterations
  /\ expected \in [Threads -> 0..Iterations]
  /\ pc \in [Threads -> {"load", "check", "cas", "done"}]
  /\ incs \in [Threads -> 0..Iterations]

(* No increment is lost or invented: sink equals the number of successful *)
(* exchanges of all threads together.                                     *)
NoLostUpdate == sink = FoldFunction(+, 0, incs)

(* Every thread returns, and sink ends at exactly num_iterations. *)
ReachesTarget == <>(sink = Iterations /\ \A t \in Threads : pc[t] = "done")
=============================================================================
