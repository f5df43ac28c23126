---------------------------- MODULE BlockedLoops ----------------------------
(***************************************************************************)
(* The index schedules of the benchmarks' array loops: add_arrays_simd    *)
(* of src/simd-hft/simd_example.cpp (8-float AVX2 blocks, then a scalar   *)
(* tail), the hot loop of src/hotpath-optimization-hft/                    *)
(* hotpath_optimization.cpp (4 calls per pass, a prefetch 16 entities     *)
(* ahead, then a tail), the strided sum of prefetching_example.cpp and    *)
(* the particle loop of inlining_example.cpp.  The data is left out: what *)
(* can go wrong is which indices are touched.  Each loop is a RECURSIVE   *)
(* operator or a sequence of what its passes touch.                       *)
(***************************************************************************)
EXTENDS Integers, Sequences, SequencesExt

Lanes    == 8    \* floats in one __m256
Unroll   == 4    \* UNROLL
Distance == 16   \* PREFETCH_DISTANCE

\* for (; i < n; ++i): the indices of the tail loop
TailLoop(i, n) == [k \in 1..(n - i) |-> i + k - 1]

\* the indices a block of width w starting at i covers
Block(i, w) == [l \in 1..w |-> i + l - 1]

\* the indices of every block, in order
Blocks(starts, w) == FlattenSeq([k \in 1..Len(starts) |-> Block(starts[k], w)])

\* fault variant: for (; i < n; i += 8), a block may run past the end
RECURSIVE SimdPassesToEnd(_, _)
SimdPassesToEnd(i, n) ==
  IF i < n
  THEN LET r == SimdPassesToEnd(i + Lanes, n) IN [r EXCEPT !.starts = <<i>> \o @]
  ELSE [starts |-> <<>>, exit |-> i]

\* for (; i + 7 < n; i += 8) { _mm256_load_ps(&a[i]) ... _mm256_store_ps(&c[i]) }
RECURSIVE SimdPasses(_, _)
SimdPasses(i, n) ==
  IF i + 7 < n
  THEN LET r == SimdPasses(i + Lanes, n) IN [r EXCEPT !.starts = <<i>> \o @]
  ELSE [starts |-> <<>>, exit |-> i]

\* the indices of c that add_arrays_simd(a, b, c, n) stores, in order
SimdStores(n) ==
  LET m == SimdPasses(0, n) IN Blocks(m.starts, Lanes) \o TailLoop(m.exit, n)

\* fault variant: the prefetch ahead without its bound check
RECURSIVE HotPassesNoGuard(_, _)
HotPassesNoGuard(i, n) ==
  IF i + Unroll <= n
  THEN LET r == HotPassesNoGuard(i + Unroll, n)
       IN [starts   |-> <<i>> \o r.starts,
           prefetch |-> <<i + Distance>> \o r.prefetch,
           exit     |-> r.exit]
  ELSE [starts |-> <<>>, prefetch |-> <<>>, exit |-> i]

\* for (; i + UNROLL <= N; i += UNROLL) { if (i + PREFETCH_DISTANCE < N)
\* prefetch x[i + PREFETCH_DISTANCE]; update_entity_hot(i .. i + 3) }
RECURSIVE HotPasses(_, _)
HotPasses(i, n) ==
  IF i + Unroll <= n
  THEN LET r == HotPasses(i + Unroll, n)
       IN [starts   |-> <<i>> \o r.starts,
           prefetch |-> (IF i + Distance < n THEN <<i + Distance>> ELSE <<>>) \o r.prefetch,
           exit     |-> r.exit]
  ELSE [starts |-> <<>>, prefetch |-> <<>>, exit |-> i]

\* for (i = 0; i < PREFETCH_DISTANCE && i < N; ++i) prefetch x[i]
WarmUp(n) == [k \in 1..Min({Distance, n}) |-> k - 1]

\* the entities update_entity_hot is called on, in order
HotUpdates(n) ==
  LET h == HotPasses(0, n) IN Blocks(h.starts, Unroll) \o TailLoop(h.exit, n)

\* every index of 0 .. n-1 exactly once: n entries, all of them present
Permutes(s, n) == Len(s) = n /\ ToSet(s) = 0..(n - 1)

(***************************************************************************)
(* sum_array_prefetch of src/prefetching-hft/prefetching_example.cpp:     *)
(* every stride-th element, with a prefetch 32 strides ahead.             *)
(***************************************************************************)
Ahead == 32   \* PREFETCH_DISTANCE, in strides

\* fault variant: the prefetch ahead tested with <= n
RECURSIVE StridedPassesLe(_, _, _)
StridedPassesLe(i, n, s) ==
  IF i < n
  THEN LET r == StridedPassesLe(i + s, n, s)
       IN [reads    |-> <<i>> \o r.reads,
           prefetch |-> (IF i + Ahead * s <= n THEN <<i + Ahead * s>> ELSE <<>>) \o r.prefetch]
  ELSE [reads |-> <<>>, prefetch |-> <<>>]

\* for (i = 0; i < n; i += stride) { if (i + PREFETCH_DISTANCE * stride < n)
\* prefetch data[i + PREFETCH_DISTANCE * stride]; sum += data[i]; }
RECURSIVE StridedPasses(_, _, _)
StridedPasses(i, n, s) ==
  IF i < n
  THEN LET r == StridedPasses(i + s, n, s)
       IN [reads    |-> <<i>> \o r.reads,
           prefetch |-> (IF i + Ahead * s < n THEN <<i + Ahead * s>> ELSE <<>>) \o r.prefetch]
  ELSE [reads |-> <<>>, prefetch |-> <<>>]

\* for (i = 0; i < PREFETCH_DISTANCE * stride && i < n; i += stride) prefetch
StridedWarmUp(n, s) ==
  [k \in 1..Min({Ahead, (n + s - 1) \div s}) |-> (k - 1) * s]

\* sum_array_prefetch reads each multiple of the stride below n once, in
\* order, and prefetches only inside data
StridedCovers(n, s) ==
  /\ StridedPasses(0, n, s).reads = [k \in 1..((n + s - 1) \div s) |-> (k - 1) * s]
  /\ \A p \in ToSet(StridedWarmUp(n, s) \o StridedPasses(0, n, s).prefetch) : p < n

(***************************************************************************)
(* The particle loop of src/inlining-hft/inlining_example.cpp over the    *)
(* interleaved [vx0, vy0, vz0, vx1, ...] vector of N * 3 floats.          *)
(***************************************************************************)

\* fault variant: the accessors without the factor 3
VelocityIndexFlat(p, k) == p + k

\* get_velocity_x/y/z: velocities[i * 3 + 0/1/2]
VelocityIndex(p, k) == p * 3 + k

\* for (i = 0; i < N; ++i) reads vx, vy, vz of particle i
SpeedReads(n) ==
  FlattenSeq([p \in 1..n |-> [k \in 1..3 |-> VelocityIndex(p - 1, k - 1)]])

\* the loop reads each of the N * 3 floats exactly once
SpeedCovers(n) == Permutes(SpeedReads(n), 3 * n)

\* add_arrays_simd(a, b, c, n) stores each c[i] once; every block is aligned
\* and inside the arrays
SimdCovers(n) ==
  /\ Permutes(SimdStores(n), n)
  /\ \A s \in ToSet(SimdPasses(0, n).starts) : s % Lanes = 0 /\ s + Lanes <= n

\* the hot loop updates each entity once and prefetches only inside the arrays
HotCovers(n) ==
  /\ Permutes(HotUpdates(n), n)
  /\ \A p \in ToSet(WarmUp(n) \o HotPasses(0, n).prefetch) : p < n
=============================================================================
