---------------------------- MODULE MC_OrderBook ----------------------------
(***************************************************************************)
(* Instantiation of OrderBook for TLC.  Each .cfg picks the order types,  *)
(* whether snapshots are taken, and the submission bound.                 *)
(***************************************************************************)
EXTENDS OrderBook

CONSTANTS c1, c2, anon

MCPrices     == {1, 2}
MCQuantities == {1, 2}
OneClient    == {c1}
TwoClients   == {c1, c2}
\* a named client and the anonymous client "", whose trades move no position
LedgerClients == {c1, anon}

OneLot == {1}

CoreTypes == {"LIMIT", "MARKET", "IOC", "FOK"}
StopTypes == {"LIMIT", "STOP"}
AllTypes  == {"LIMIT", "MARKET", "STOP", "IOC", "FOK"}
LimitMarket == {"LIMIT", "MARKET"}
IocTypes  == {"LIMIT", "IOC"}
FokTypes  == {"LIMIT", "FOK"}

\* callers that give every STOP a valid limit price (no unvalidated 0)
ValidStopPriceInputs(type) ==
  IF type = "MARKET" THEN {0} ELSE IF type = "STOP" THEN Prices ELSE {0} \cup Prices
=============================================================================
