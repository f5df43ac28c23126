--------------------------- MODULE MC_OrderQueue ---------------------------
(***************************************************************************)
(* Ten messages: the consumer finds the queue empty, holding one and      *)
(* holding several orders.                                                *)
(***************************************************************************)
EXTENDS OrderQueue
=============================================================================
