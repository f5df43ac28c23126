--------------------------- MODULE BalanceExchange ---------------------------
(***************************************************************************)
(* The balance-settling BTC/USD exchange of                               *)
(* src/Orderbook_Task/HFT_company_OrderBook.cpp (class OrderBook, driven *)
(* by the menu loop of main).  Each menu call runs to completion, so each *)
(* is one action.  bids and asks are the code's vectors: their order is   *)
(* state, because the sorts that the calls run first are partly stable    *)
(* (they keep the vector's order between equal prices) and getDepth's     *)
(* std::sort is not stable at all.  A match settles through flipBalance,  *)
(* which moves USD and BTC only if both users exist and can pay; the      *)
(* resting order is consumed either way.                                   *)
(*                                                                         *)
(* Data abstraction: prices and quantities are small integers (the code's *)
(* doubles), balances hold only the USD and BTC markets, and a trade is   *)
(* [buyer, seller, price, qty] (its time(nullptr) stamp is left out).     *)
(***************************************************************************)
EXTENDS Integers, Sequences, FiniteSets, SequencesExt, FiniteSetsExt, TLC

CONSTANTS
  Users,        \* user names typed at the prompt (registered or not)
  Prices,       \* limit prices typed at the prompt
  Quantities,   \* order and cancel quantities typed at the prompt
  Amounts,      \* amounts passed to addBalanace
  InitUsers,    \* the constructor's users: name -> [usd, btc]
  InitAsks,     \* the constructor's asks: <<[user, price, qty]>>, in push order
  InitBids,     \* the constructor's bids, in push order
  MaxCalls      \* bound: number of menu calls that change balances or orders

ASSUME DOMAIN InitUsers \subseteq Users /\ MaxCalls \in Nat

VARIABLES
  bids,        \* vector<Order> bids: <<[user, price, qty, id, ins]>>
  asks,        \* vector<Order> asks
  users,       \* unordered_map users: registered name -> [usd, btc]
  trades,      \* trade_history
  orderCtr,    \* Order::order_counter
  bidCtr,      \* Order::order_counter_bid
  askCtr,      \* Order::order_counter_ask
  deposited,   \* history: USD and BTC ever credited by the constructor or addBalanace
  calls        \* number of bounded calls so far

vars == <<bids, asks, users, trades, orderCtr, bidCtr, askCtr, deposited, calls>>

(***************************************************************************)
(* The constructor: two market makers with large balances, the asks      *)
(* pushed first, then the bids; every Order gets the next order_id and   *)
(* the next insertion number of its side (Init follows the sorts).       *)
(***************************************************************************)
Orders(init, firstId) ==
  [i \in 1..Len(init) |-> [user |-> init[i].user, price |-> init[i].price,
                           qty |-> init[i].qty, id |-> firstId + i - 1, ins |-> i - 1]]

(***************************************************************************)
(* Sorting.  std::stable_sort keeps the vector order between elements    *)
(* the comparator does not separate, so it is a sort by (key, position). *)
(* std::sort (getDepth) may leave equal keys in any order: every         *)
(* permutation sorted by the key is a possible outcome.                  *)
(***************************************************************************)
\* a comparator: prices ascending (dir = 1) or descending (dir = -1),
\* equal prices by insertion number if byIns
Before(cmp, a, b) ==
  \/ cmp.dir * a.price < cmp.dir * b.price
  \/ cmp.byIns /\ a.price = b.price /\ a.ins < b.ins

StableSort(seq, cmp) ==
  LET idx == SortSeq([i \in 1..Len(seq) |-> i],
                     LAMBDA i, j : \/ Before(cmp, seq[i], seq[j])
                                   \/ ~Before(cmp, seq[j], seq[i]) /\ i < j)
  IN [k \in 1..Len(seq) |-> seq[idx[k]]]

UnstableSorts(seq, cmp) ==
  { [k \in 1..Len(seq) |-> seq[p[k]]] :
      p \in {q \in SetToSeqs(1..Len(seq)) :
               \A k \in 1..Len(seq) - 1 : ~Before(cmp, seq[q[k + 1]], seq[q[k]])} }

\* fault variant: the asks' comparator without the insertion tiebreak
AskPriorityPriceOnly == [dir |-> 1, byIns |-> FALSE]
\* the comparators of add_bid/getQuote (asks) and add_ask (bids)
AskPriority == [dir |-> 1, byIns |-> TRUE]
BidPriority == [dir |-> -1, byIns |-> TRUE]
\* the price-only comparators of the market paths, getSpread and getDepth
Cheaper == [dir |-> 1, byIns |-> FALSE]
Dearer  == [dir |-> -1, byIns |-> FALSE]

\* main runs getDepth before the menu loop: both sides std::sort'ed, highest first
Init ==
  /\ asks \in UnstableSorts(Orders(InitAsks, 0), Dearer)
  /\ bids \in UnstableSorts(Orders(InitBids, Len(InitAsks)), Dearer)
  /\ users = InitUsers
  /\ trades = <<>>
  /\ orderCtr = Len(InitAsks) + Len(InitBids)
  /\ askCtr = Len(InitAsks)
  /\ bidCtr = Len(InitBids)
  /\ deposited = [usd |-> FoldFunction(LAMBDA b, acc : acc + b.usd, 0, InitUsers),
                  btc |-> FoldFunction(LAMBDA b, acc : acc + b.btc, 0, InitUsers)]
  /\ calls = 0

(***************************************************************************)
(* flipBalance(buyer, seller, quantity, price): if both users exist, the *)
(* buyer has price*quantity USD and the seller quantity BTC, move them   *)
(* and log the trade; otherwise print a message and change nothing.      *)
(* st is [users, trades].                                                 *)
(***************************************************************************)
\* fault variant: the seller is not credited the USD
FlipBalanceNoCredit(st, buyer, seller, q, p) ==
  IF /\ buyer \in DOMAIN st.users /\ seller \in DOMAIN st.users
     /\ st.users[buyer].usd >= p * q /\ st.users[seller].btc >= q
  THEN LET afterBuyer == [st.users EXCEPT ![buyer].usd = @ - p * q, ![buyer].btc = @ + q]
       IN [users |-> [afterBuyer EXCEPT ![seller].btc = @ - q],
           trades |-> Append(st.trades, [buyer |-> buyer, seller |-> seller, price |-> p, qty |-> q])]
  ELSE st

FlipBalance(st, buyer, seller, q, p) ==
  IF /\ buyer \in DOMAIN st.users /\ seller \in DOMAIN st.users
     /\ st.users[buyer].usd >= p * q
     /\ st.users[seller].btc >= q
  THEN LET afterBuyer == [st.users EXCEPT ![buyer].usd = @ - p * q, ![buyer].btc = @ + q]
       IN [users |-> [afterBuyer EXCEPT ![seller].usd = @ + p * q, ![seller].btc = @ - q],
           trades |-> Append(st.trades, [buyer |-> buyer, seller |-> seller, price |-> p, qty |-> q])]
  ELSE st

(***************************************************************************)
(* The matching loop of add_bid (taker = the incoming buyer) and add_ask *)
(* (taker = the incoming seller) over the sorted opposite side: a        *)
(* resting order that crosses the limit is reduced (and the loop breaks) *)
(* if it is larger than the remainder, else erased; settlement is at the *)
(* resting price.  An order that does not cross is kept and the loop      *)
(* goes on.  Returns [st, kept, rem].                                     *)
(***************************************************************************)
\* fault variant: an order at exactly the limit price is not taken
CrossesStrict(isBid, limit, o) == IF isBid THEN limit > o.price ELSE limit < o.price
Crosses(isBid, limit, o) == IF isBid THEN limit >= o.price ELSE limit <= o.price

Settle(st, isBid, taker, o, q) ==
  IF isBid THEN FlipBalance(st, taker, o.user, q, o.price)
           ELSE FlipBalance(st, o.user, taker, q, o.price)

RECURSIVE LimitWalk(_, _, _, _, _, _)
LimitWalk(st, seq, rem, isBid, taker, limit) ==
  IF seq = <<>> THEN [st |-> st, kept |-> <<>>, rem |-> rem]
  ELSE LET o == Head(seq) IN
    IF rem > 0 /\ Crosses(isBid, limit, o)
    THEN IF o.qty > rem
         THEN [st |-> Settle(st, isBid, taker, o, rem),
               kept |-> <<[o EXCEPT !.qty = @ - rem]>> \o Tail(seq), rem |-> 0]
         ELSE LimitWalk(Settle(st, isBid, taker, o, o.qty), Tail(seq), rem - o.qty, isBid, taker, limit)
    ELSE LET r == LimitWalk(st, Tail(seq), rem, isBid, taker, limit)
         IN [r EXCEPT !.kept = <<o>> \o @]

\* the loop of add_market_bid / add_market_ask: no price test, stops at rem = 0
RECURSIVE MarketWalk(_, _, _, _, _)
MarketWalk(st, seq, rem, isBid, taker) ==
  IF seq = <<>> \/ rem = 0 THEN [st |-> st, kept |-> seq, rem |-> rem]
  ELSE LET o == Head(seq) IN
    IF o.qty > rem
    THEN [st |-> Settle(st, isBid, taker, o, rem),
          kept |-> <<[o EXCEPT !.qty = @ - rem]>> \o Tail(seq), rem |-> 0]
    ELSE MarketWalk(Settle(st, isBid, taker, o, o.qty), Tail(seq), rem - o.qty, isBid, taker)

St == [users |-> users, trades |-> trades]
Bounded == calls < MaxCalls /\ calls' = calls + 1
NewOrder(u, p, q, ins) == [user |-> u, price |-> p, qty |-> q, id |-> orderCtr, ins |-> ins]

(***************************************************************************)
(* Menu calls                                                              *)
(***************************************************************************)
\* makeUser: users[Username] = User(Username), replacing an existing entry
MakeUser(u) ==
  /\ Bounded
  /\ users' = (u :> [usd |-> 0, btc |-> 0]) @@ users
  /\ UNCHANGED <<bids, asks, trades, orderCtr, bidCtr, askCtr, deposited>>

\* addBalanace(Username, market, value): only for an existing user
AddBalance(u, cur, v) ==
  /\ Bounded
  /\ u \in DOMAIN users
  /\ users' = [users EXCEPT ![u][cur] = @ + v]
  /\ deposited' = [deposited EXCEPT ![cur] = @ + v]
  /\ UNCHANGED <<bids, asks, trades, orderCtr, bidCtr, askCtr>>

\* add_bid(Username, Price, Quantity)
AddBid(u, p, q) ==
  /\ Bounded
  /\ LET r == LimitWalk(St, StableSort(asks, AskPriority), q, TRUE, u, p)
     IN /\ asks' = r.kept
        /\ users' = r.st.users /\ trades' = r.st.trades
        /\ IF r.rem > 0
           THEN /\ bids' = Append(bids, NewOrder(u, p, r.rem, bidCtr))
                /\ orderCtr' = orderCtr + 1 /\ bidCtr' = bidCtr + 1
           ELSE UNCHANGED <<bids, orderCtr, bidCtr>>
  /\ UNCHANGED <<askCtr, deposited>>

\* add_ask(Username, Price, Quantity)
AddAsk(u, p, q) ==
  /\ Bounded
  /\ LET r == LimitWalk(St, StableSort(bids, BidPriority), q, FALSE, u, p)
     IN /\ bids' = r.kept
        /\ users' = r.st.users /\ trades' = r.st.trades
        /\ IF r.rem > 0
           THEN /\ asks' = Append(asks, NewOrder(u, p, r.rem, askCtr))
                /\ orderCtr' = orderCtr + 1 /\ askCtr' = askCtr + 1
           ELSE UNCHANGED <<asks, orderCtr, askCtr>>
  /\ UNCHANGED <<bidCtr, deposited>>

\* add_market_bid(Username, Quantity): the remainder is dropped
MarketBid(u, q) ==
  /\ Bounded
  /\ LET r == MarketWalk(St, StableSort(asks, Cheaper), q, TRUE, u)
     IN /\ asks' = r.kept
        /\ users' = r.st.users /\ trades' = r.st.trades
  /\ UNCHANGED <<bids, orderCtr, bidCtr, askCtr, deposited>>

\* add_market_ask(Username, Quantity)
MarketAsk(u, q) ==
  /\ Bounded
  /\ LET r == MarketWalk(St, StableSort(bids, Dearer), q, FALSE, u)
     IN /\ bids' = r.kept
        /\ users' = r.st.users /\ trades' = r.st.trades
  /\ UNCHANGED <<asks, orderCtr, bidCtr, askCtr, deposited>>

(***************************************************************************)
(* cancelBid/cancelAsk(Username, OrderId, Price, Quantity): the first    *)
(* order, in vector order, of that user with that id (OrderId != -1), or *)
(* with that price (OrderId == -1): erased, or reduced by Quantity when  *)
(* it is larger; a smaller order is left alone.                          *)
(***************************************************************************)
CancelById(seq, u, id) ==
  LET hits == {i \in 1..Len(seq) : seq[i].id = id /\ seq[i].user = u}
  IN IF hits = {} THEN seq ELSE RemoveAt(seq, Min(hits))

\* fault variant: the order is reduced whatever its size
CancelByPriceUnchecked(seq, u, p, q) ==
  LET hits == {i \in 1..Len(seq) : seq[i].user = u /\ seq[i].price = p}
      i    == Min(hits)
  IN IF hits = {} THEN seq
     ELSE IF seq[i].qty = q THEN RemoveAt(seq, i)
     ELSE [seq EXCEPT ![i].qty = @ - q]

CancelByPrice(seq, u, p, q) ==
  LET hits == {i \in 1..Len(seq) : seq[i].user = u /\ seq[i].price = p}
      i    == Min(hits)
  IN CASE hits = {}      -> seq
       [] seq[i].qty = q -> RemoveAt(seq, i)
       [] seq[i].qty > q -> [seq EXCEPT ![i].qty = @ - q]
       [] OTHER          -> seq

CancelBid(u, id, p, q) ==
  /\ Bounded
  /\ bids' = IF id # -1 THEN CancelById(bids, u, id) ELSE CancelByPrice(bids, u, p, q)
  /\ UNCHANGED <<asks, users, trades, orderCtr, bidCtr, askCtr, deposited>>

CancelAsk(u, id, p, q) ==
  /\ Bounded
  /\ asks' = IF id # -1 THEN CancelById(asks, u, id) ELSE CancelByPrice(asks, u, p, q)
  /\ UNCHANGED <<bids, users, trades, orderCtr, bidCtr, askCtr, deposited>>

(***************************************************************************)
(* The views that sort the vectors in place as a side effect.             *)
(***************************************************************************)
\* getDepth: std::sort of both sides by price, highest first
GetDepth ==
  /\ \E a \in UnstableSorts(asks, Dearer), b \in UnstableSorts(bids, Dearer) :
       asks' = a /\ bids' = b
  /\ UNCHANGED <<users, trades, orderCtr, bidCtr, askCtr, deposited, calls>>

\* getQuote: stable sort of the asks by (price, insertion)
GetQuote ==
  /\ asks' = StableSort(asks, AskPriority)
  /\ UNCHANGED <<bids, users, trades, orderCtr, bidCtr, askCtr, deposited, calls>>

\* getSpread: with both sides non-empty, stable sort of each by price
GetSpread ==
  /\ bids # <<>> /\ asks # <<>>
  /\ bids' = StableSort(bids, Dearer)
  /\ asks' = StableSort(asks, Cheaper)
  /\ UNCHANGED <<users, trades, orderCtr, bidCtr, askCtr, deposited, calls>>

Ids(seq) == {seq[i].id : i \in 1..Len(seq)}

Next ==
  \/ \E u \in Users : MakeUser(u)
  \/ \E u \in Users, cur \in {"usd", "btc"}, v \in Amounts : AddBalance(u, cur, v)
  \/ \E u \in Users, p \in Prices, q \in Quantities : AddBid(u, p, q) \/ AddAsk(u, p, q)
  \/ \E u \in Users, q \in Quantities : MarketBid(u, q) \/ MarketAsk(u, q)
  \/ \E u \in Users, id \in Ids(bids) : CancelBid(u, id, 0, 0)
  \/ \E u \in Users, id \in Ids(asks) : CancelAsk(u, id, 0, 0)
  \/ \E u \in Users, p \in Prices, q \in Quantities : CancelBid(u, -1, p, q) \/ CancelAsk(u, -1, p, q)
  \/ GetDepth
  \/ GetQuote
  \/ GetSpread

Spec == Init /\ [][Next]_vars

-----------------------------------------------------------------------------
(***************************************************************************)
(* Properties                                                              *)
(***************************************************************************)
OrderRec == [user : Users, price : Prices, qty : Nat, id : Nat, ins : Nat]

TypeOK ==
  /\ bids \in Seq(OrderRec) /\ asks \in Seq(OrderRec)
  /\ DOMAIN users \subseteq Users
  /\ \A u \in DOMAIN users : users[u] \in [usd : Int, btc : Int]
  /\ \A i \in 1..Len(trades) :
       trades[i] \in [buyer : Users, seller : Users, price : Prices, qty : Nat \ {0}]
  /\ orderCtr \in Nat /\ bidCtr \in Nat /\ askCtr \in Nat /\ calls \in 0..MaxCalls

Qty(seq) == FoldSeq(LAMBDA o, acc : acc + o.qty, 0, seq)
NewTradedQty == FoldSeq(LAMBDA t, acc : acc + t.qty, 0, SubSeq(trades', Len(trades) + 1, Len(trades')))
Total(cur) == FoldFunction(LAMBDA b, acc : acc + b[cur], 0, users)

LimitCall  == \E u \in Users, p \in Prices, q \in Quantities : AddBid(u, p, q) \/ AddAsk(u, p, q)
MarketCall == \E u \in Users, q \in Quantities : MarketBid(u, q) \/ MarketAsk(u, q)

(* After every call the book is not crossed: each bid is below each ask. *)
(* add_bid walks every ask its price reaches (the loop does not stop at  *)
(* the first ask it cannot take) and add_ask every such bid, so what    *)
(* rests of an incoming order never crosses; cancels only shrink the     *)
(* book and the sorts only reorder it.                                  *)
BookNotCrossed ==
  \A i \in 1..Len(bids), j \in 1..Len(asks) : bids[i].price < asks[j].price

(* No balance ever goes negative: flipBalance moves funds only when the  *)
(* buyer holds price*quantity USD and the seller quantity BTC, also when *)
(* buyer and seller are the same user and when one call settles against *)
(* several resting orders of the same user in turn.                      *)
NoNegativeBalance ==
  \A u \in DOMAIN users : users[u].usd >= 0 /\ users[u].btc >= 0

(* Trading moves USD and BTC between users and creates or destroys none:*)
(* over a whole add_bid/add_ask/add_market_* call, however many resting *)
(* orders it settles against, the totals over all users are unchanged.  *)
SettlementConserves ==
  [][(LimitCall \/ MarketCall) => Total("usd")' = Total("usd") /\ Total("btc")' = Total("btc")]_vars

(* Time priority of the file's "FIFO" matching (header comment): when a  *)
(* call fills or reduces a resting order, every older resting order of  *)
(* the same side at the same price has been filled completely first.    *)
FifoKept(old, new) ==
  \A i, j \in 1..Len(old) :
    (old[i].price = old[j].price /\ old[i].id < old[j].id /\ old[j] \notin Range(new))
      => old[i].id \notin Ids(new)

\* ... for limit orders, whose sort orders equal prices by insertion number
FifoLimitMatching ==
  [][LimitCall => FifoKept(asks, asks') /\ FifoKept(bids, bids')]_vars

\* ... and for market orders, whose stable sort keeps the vector's order,
\* which getDepth's std::sort may have shuffled
FifoMarketMatching ==
  [][MarketCall => FifoKept(asks, asks') /\ FifoKept(bids, bids')]_vars

(* Resting liquidity is taken only by trades: the quantity a matching    *)
(* call removes from the opposite side equals the quantity of the trades *)
(* it logs.  The loops consume the resting order before flipBalance      *)
(* checks that the users exist and can pay, and a failed settlement is   *)
(* only printed.                                                         *)
ConsumedOnlyByTrades ==
  [][(\E u \in Users, q \in Quantities :
        \/ MarketBid(u, q) \/ \E p \in Prices : AddBid(u, p, q))
       => Qty(asks) - Qty(asks') = NewTradedQty]_vars

(* The funds held by the users are exactly what the constructor and      *)
(* addBalanace credited: trading conserves them and nothing else takes   *)
(* them away.  makeUser assigns a fresh User to the name even when that *)
(* user exists, erasing its balances.                                    *)
FundsConserved ==
  Total("usd") = deposited.usd /\ Total("btc") = deposited.btc
====
