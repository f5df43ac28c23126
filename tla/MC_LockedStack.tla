--------------------------- MODULE MC_LockedStack ---------------------------
(***************************************************************************)
(* Three workers (ids 0, 1, 2) of four operations each: pushes and pops   *)
(* of different threads interleave, and pops find the stack both empty    *)
(* and non-empty.                                                         *)
(***************************************************************************)
EXTENDS LockedStack

MCThreads == 0..2
=============================================================================
