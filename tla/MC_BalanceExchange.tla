------------------------- MODULE MC_BalanceExchange -------------------------
(***************************************************************************)
(* Instantiation of BalanceExchange for TLC: the constructor's two       *)
(* market makers, reduced to one ask above one bid, and one user who     *)
(* signs up at the prompt.                                               *)
(***************************************************************************)
EXTENDS BalanceExchange

CONSTANTS mm1, mm2, u1

MCUsers      == {mm1, mm2, u1}
MCPrices     == {1, 2}
MCQuantities == {1, 2}
MCAmounts    == {2}
\* the prompt reads prices with cin >> and nothing rejects a negative one
MCSignedPrices == {-2, 1, 2}
\* MarketMaker1 and MarketMaker2: enough USD and BTC for any bounded run
MCInitUsers  == (mm1 :> [usd |-> 20, btc |-> 5]) @@ (mm2 :> [usd |-> 20, btc |-> 5])
MCInitAsks   == <<[user |-> mm1, price |-> 2, qty |-> 1]>>
MCInitBids   == <<[user |-> mm2, price |-> 1, qty |-> 1]>>
=============================================================================
