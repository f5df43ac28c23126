\* compute_heavy_operation over all of int_dist(1, 100): value 74 overflows
SPECIFICATION Spec
INVARIANT HeavyResultFits
CHECK_DEADLOCK FALSE
