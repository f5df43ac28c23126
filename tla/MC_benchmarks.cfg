SPECIFICATION Spec
INVARIANT TypeOK
INVARIANT AbsMatchesReference
INVARIANT SimdAddCoversOnce
INVARIANT UnrolledLoopCoversOnce
INVARIANT StridedPrefetchInBounds
INVARIANT SpeedReadsEachOnce
PROPERTY EveryCallReturnsFull
\* main calls its kernel again for as long as it runs
CHECK_DEADLOCK FALSE
