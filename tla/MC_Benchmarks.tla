---------------------------- MODULE MC_Benchmarks ----------------------------
(***************************************************************************)
(* The micro-benchmarks of src/.  The single-threaded ones are one        *)
(* driver: each main calls its kernel once, on a fixed N or on inputs it  *)
(* draws; the driver generalises N to every size in Sizes, and call is    *)
(* the call in progress.  What a call computes is a constant              *)
(* operator of BranchlessAbs, BlockedLoops or HeavyOperation; the         *)
(* invariants say that every call main can make computes what its         *)
(* comment promises.  The four threads of os_scheduler are AtomicWorkers. *)
(* The two programs share nothing, so a behaviour runs one of them, the   *)
(* one prog names, and the checked states are the sum of theirs, not the  *)
(* product.                                                               *)
(*   - AbsInputs: 8-bit two's complement stands in for int; main's values *)
(*     (+-1000000) never reach INT_MIN, so neither do these.              *)
(*   - Sizes: the SIMD and hot loops depend only on n modulo 8 and 4 and  *)
(*     on n against the prefetch distance 16; 0 .. 40 passes each case    *)
(*     several times.  The builds fix N at 2^20 and 2^18.                 *)
(*   - StridedCalls: the strided sum prefetches 32 strides ahead, so n    *)
(*     runs to 40 strides, past that distance, for strides 1 .. 3.        *)
(*   - HeavyInputs: int_dist(1, 100), main's full range.                  *)
(*   - Iterations: 2 increments per thread, so the two threads of one     *)
(*     counter can interleave theirs.                                     *)
(***************************************************************************)
EXTENDS Integers

Width        == 8
AbsInputs    == -127..127
Sizes        == 0..40
StridedCalls == {<<n, s>> \in (0..120) \X (1..3) : n <= 40 * s}
HeavyInputs  == 1..100
Iterations   == 2

VARIABLE prog   \* "kernels" or "os_scheduler": the program this behaviour runs
VARIABLE call   \* [fn, arg]: the kernel being called and its argument
VARIABLES val, i, spawned, joined   \* os_scheduler's, see AtomicWorkers

A == INSTANCE BranchlessAbs
L == INSTANCE BlockedLoops
H == INSTANCE HeavyOperation
W == INSTANCE AtomicWorkers

workerVars == <<val, i, spawned, joined>>
vars == <<prog, call, workerVars>>

Init ==
  /\ prog \in {"kernels", "os_scheduler"}
  /\ call = [fn |-> "none", arg |-> 0]
  /\ W!Init

\* branch_reduction main: compute_abs_branchless on the next input[i]
CallAbs == \E x \in AbsInputs : call' = [fn |-> "abs", arg |-> x]

\* simd_example main: add_arrays_simd(a, b, c, n)
CallSimdAdd == \E n \in Sizes : call' = [fn |-> "simd", arg |-> n]

\* hotpath_optimization main: the warm-up, unrolled and tail loops over n
CallHotLoop == \E n \in Sizes : call' = [fn |-> "hot", arg |-> n]

\* prefetching_example main: sum_array_prefetch(data, n, stride)
CallStridedSum == \E ns \in StridedCalls : call' = [fn |-> "strided", arg |-> ns]

\* inlining_example main: the particle loop over n particles
CallSpeedLoop == \E n \in Sizes : call' = [fn |-> "speed", arg |-> n]

\* compile_time_dispatch main: compute_heavy_operation(val) for an int val
CallHeavy == \E v \in HeavyInputs : call' = [fn |-> "heavy", arg |-> v]

Calls ==
  \/ CallAbs \/ CallSimdAdd \/ CallHotLoop \/ CallStridedSum \/ CallSpeedLoop
  \/ CallHeavy

\* a step of the os_scheduler program
OsStep(act) == prog = "os_scheduler" /\ act /\ UNCHANGED <<prog, call>>

Next ==
  \/ prog = "kernels" /\ Calls /\ UNCHANGED <<prog, workerVars>>
  \/ OsStep(W!Next)

\* the workers and main are OS threads, each of which the scheduler runs
Fairness ==
  /\ WF_vars(OsStep(W!Spawn \/ W!Join \/ W!Return))
  /\ \A w \in W!Workers : WF_vars(OsStep(W!Work(w)))

Spec == Init /\ [][Next]_vars /\ Fairness

TypeOK ==
  /\ prog \in {"kernels", "os_scheduler"}
  /\ call \in [fn : {"none", "abs", "simd", "hot", "heavy", "speed"}, arg : Int]
       \cup [fn : {"strided"}, arg : StridedCalls]
  /\ W!TypeOK

(* compute_abs_branchless returns |x| for every input main draws, without *)
(* a signed overflow in x + mask, as its comment claims ("if x<0:         *)
(* (x-1)^(-1) = -x"); the arithmetic shift of a negative int is what      *)
(* makes mask all ones.                                                   *)
AbsMatchesReference == call.fn = "abs" => A!AbsCorrect(call.arg)

(* add_arrays_simd stores every element of c exactly once, and each      *)
(* 256-bit load and store lies inside the arrays and starts at a multiple*)
(* of 8 floats, which _mm256_load_ps needs on main's 32-byte aligned      *)
(* buffers; the scalar tail starts exactly where the blocks stop.         *)
SimdAddCoversOnce == call.fn = "simd" => L!SimdCovers(call.arg)

(* The unrolled loop and its tail call update_entity_hot once for every  *)
(* entity, and neither prefetch loop forms the address of an element     *)
(* past the end of the vectors.                                           *)
UnrolledLoopCoversOnce == call.fn = "hot" => L!HotCovers(call.arg)

(* sum_array_prefetch reads every stride-th element of data once and in  *)
(* order, and neither its warm-up nor its look-ahead prefetch forms the  *)
(* address of an element past the end of data.                          *)
StridedPrefetchInBounds ==
  call.fn = "strided" => L!StridedCovers(call.arg[1], call.arg[2])

(* The particle loop reads each of the N * 3 floats of velocities once:  *)
(* the accessors' i * 3 + k never overlap and never leave the vector.    *)
SpeedReadsEachOnce == call.fn = "speed" => L!SpeedCovers(call.arg)

(* Every call of os_scheduler returns: main joins all four threads, and  *)
(* when it does both AlignedAtomics hold 2 * (1 << 12) increments, two   *)
(* threads' worth each, whichever way the increments interleaved.        *)
EveryCallReturnsFull ==
  (prog = "os_scheduler" /\ spawned = 0) ~> (joined = 4 /\ \A c \in {"a", "b"} : val[c] = 2 * Iterations)

(* No multiplication in compute_heavy_operation<int> overflows long long  *)
(* for an int main draws: signed overflow is undefined behaviour, and the *)
(* total main sums would be meaningless.                                  *)
HeavyResultFits == call.fn = "heavy" => H!HeavyFits(call.arg)
=============================================================================
