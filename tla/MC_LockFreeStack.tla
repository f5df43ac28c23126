-------------------------- MODULE MC_LockFreeStack --------------------------
(***************************************************************************)
(* Two workers over three heap addresses: few enough that new returns an *)
(* address delete has just freed.                                         *)
(***************************************************************************)
EXTENDS LockFreeStack

CONSTANTS a1, a2, a3

MCThreads == {1, 2}
MCAddrs   == {a1, a2, a3}
=============================================================================
