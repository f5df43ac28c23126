\* A negative limit price typed at the prompt: add_ask and add_bid accept
\* it, and flipBalance's funds check price * quantity <= USD then passes
\* for any buyer while the seller is debited.
CONSTANTS
  mm1 = mm1
  mm2 = mm2
  u1 = u1
  Users <- MCUsers
  Prices <- MCSignedPrices
  Quantities <- MCQuantities
  Amounts <- MCAmounts
  InitUsers <- MCInitUsers
  InitAsks <- MCInitAsks
  InitBids <- MCInitBids
  MaxCalls = 4

SPECIFICATION Spec
INVARIANT NoNegativeBalance
