--------------------------- MODULE SlowpathRemoval ---------------------------
(***************************************************************************)
(* main of src/slowpath-removal-hft/slowpath_removal.cpp: N allocations,  *)
(* each of which fails when dist(gen) == 1, and a failure handled by      *)
(* handle_allocation_failure, which is declared [[noreturn]] and yet      *)
(* returns.  Returning from a [[noreturn]] function is undefined: an      *)
(* unoptimised build returns and the loop continues; an optimised one     *)
(* drops the code after the call and the end of the function, so control  *)
(* runs on into whatever follows in the binary.  Both are outcomes here.  *)
(***************************************************************************)
EXTENDS Naturals, Sequences

CONSTANT N   \* the loop bound 1 << 20

VARIABLES
  i,             \* main's loop index
  allocations,   \* the pointers pushed back, as the iteration that made each
  pc             \* "loop", "slowpath" (in handle_allocation_failure),
                 \* "cleanup" done, or "astray" after the undefined return

vars == <<i, allocations, pc>>

Init == i = 0 /\ allocations = <<>> /\ pc = "loop"

\* allocate_memory_optimized(64, success) and the test of success
Allocate ==
  /\ pc = "loop"
  /\ i < N
  /\ \/ /\ allocations' = Append(allocations, i)   \* new char[size]
        /\ i' = i + 1
        /\ UNCHANGED pc
     \/ /\ pc' = "slowpath"                         \* dist(gen) == 1
        /\ UNCHANGED <<i, allocations>>

\* handle_allocation_failure(i) reaches its end; what follows is up to the
\* build: the return and continue, or control past the removed code
SlowpathReturn ==
  /\ pc = "slowpath"
  /\ \/ pc' = "loop" /\ i' = i + 1
     \/ pc' = "astray" /\ UNCHANGED i
  /\ UNCHANGED allocations

\* the loop ends, and each pointer in allocations is delete[]d
Cleanup ==
  /\ pc = "loop"
  /\ i = N
  /\ pc' = "cleanup"
  /\ UNCHANGED <<i, allocations>>

Next == Allocate \/ SlowpathReturn \/ Cleanup

Spec == Init /\ [][Next]_vars

(* The comment in handle_allocation_failure says it "just return[s] to   *)
(* continue benchmark": after a failed allocation main's loop goes on     *)
(* with the next iteration and nothing else.                             *)
SlowpathContinues ==
  [][pc = "slowpath" => pc' = "loop" /\ i' = i + 1 /\ allocations' = allocations]_vars
=============================================================================
