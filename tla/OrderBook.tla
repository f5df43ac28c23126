----------------------------- MODULE OrderBook -----------------------------
(***************************************************************************)
(* The single-instrument matching engine of                               *)
(* src/Orderbook_Task/Exchange_OrderBook.cpp (class OrderBook).            *)
(*                                                                         *)
(* Every public call (placeOrder, modifyOrder, cancelOrder, saveSnapshot,  *)
(* loadSnapshot) runs to completion before the next one starts, so each   *)
(* is one atomic action, with one exception: checkStopOrders walks the     *)
(* order tracker (an unordered_map) and, for every stop that fires, calls  *)
(* matchOrders, which calls checkStopOrders again.  That recursion is      *)
(* modelled as an explicit stack of scan frames (variable frames), one     *)
(* step per tracker entry visited, so that the unspecified hash-iteration  *)
(* order and the stale lastPrice of an outer frame are both explored.      *)
(* While frames is non-empty only the scan actions are enabled.            *)
(*                                                                         *)
(* Data abstraction: prices are integer ticks and quantities integer lots *)
(* (the code's doubles with minPrice/minQty tick and lot sizes), so the   *)
(* epsilon multiple-of-tick checks always pass and the text snapshot      *)
(* round-trips every modelled field exactly.  Timestamps are the values   *)
(* of a logical clock; only their order is ever compared.                 *)
(***************************************************************************)
EXTENDS Integers, Sequences, FiniteSets, SequencesExt, FiniteSetsExt, TLC

CONSTANTS
  Prices,          \* valid limit/stop prices, in ticks (positive integers)
  Quantities,      \* order quantities, in lots (positive integers)
  Clients,         \* client ids given to placeOrder
  Anonymous,       \* the empty clientId "", for which no position is kept
  OrderTypes,      \* the order types submitted in this model
  SnapshotOps,     \* whether saveSnapshot/loadSnapshot are called
  MaxSubmissions   \* bound: number of placeOrder/modifyOrder calls

ASSUME Prices \subseteq Nat \ {0} /\ Quantities \subseteq Nat \ {0}
ASSUME OrderTypes \subseteq {"LIMIT", "MARKET", "STOP", "IOC", "FOK"}
ASSUME SnapshotOps \in BOOLEAN /\ MaxSubmissions \in Nat

Sides    == {"buy", "sell"}
Statuses == {"OPEN", "PARTIAL", "FILLED", "CANCELLED", "REJECTED"}
Types    == {"LIMIT", "MARKET", "STOP", "IOC", "FOK"}

\* A STOP order's limit price is never validated, so 0 can reach the book.
BookPrices == {0} \cup Prices
\* optional<double> with no value (bestBid/bestAsk of an empty side)
NoPrice == -1

VARIABLES
  tracker,     \* orderTracker: id -> Order (the authoritative copy)
  bids,        \* bids: price -> FIFO of book copies [id, status]
  asks,        \* asks: price -> FIFO of book copies [id, status]
  trades,      \* tradeHistory
  positions,   \* clientPositions: client -> [qty, cost]; cost = qty * avgPrice
  bestBid,     \* cached best bid, refreshed by updateMarketData
  bestAsk,     \* cached best ask
  counter,     \* orderCounter
  clock,       \* system_clock, as a logical clock
  frames,      \* the checkStopOrders call stack: <<[lp, todo]>>
  scanOrder,   \* hash-iteration order of the armed stops for this cascade
  pendingIoc,  \* IOC id whose post-match check is pending (0: none)
  snapshot,    \* the snapshot file: [exists, bids, asks] (rows per section)
  submissions  \* number of submissions so far (bounded by MaxSubmissions)

engineVars == <<tracker, bids, asks, trades, positions, bestBid, bestAsk>>
scanVars   == <<frames, scanOrder, pendingIoc>>
vars == <<engineVars, scanVars, counter, clock, snapshot, submissions>>

MinOf(a, b) == IF a < b THEN a ELSE b
Opp(side) == IF side = "buy" THEN "sell" ELSE "buy"

(***************************************************************************)
(* The engine state as one record, so that the loops of the code can be   *)
(* written as operators from engine state to engine state.                 *)
(***************************************************************************)
Engine == [tracker |-> tracker, bids |-> bids, asks |-> asks, trades |-> trades,
           positions |-> positions, bestBid |-> bestBid, bestAsk |-> bestAsk]

Commit(s) ==
  /\ tracker' = s.tracker /\ bids' = s.bids /\ asks' = s.asks
  /\ trades' = s.trades /\ positions' = s.positions
  /\ bestBid' = s.bestBid /\ bestAsk' = s.bestAsk

BookOf(s, side) == IF side = "buy" THEN s.bids ELSE s.asks
WithBook(s, side, b) ==
  IF side = "buy" THEN [s EXCEPT !.bids = b] ELSE [s EXCEPT !.asks = b]

\* the price keys present in a std::map side (empty levels are erased)
Levels(book) == {p \in DOMAIN book : book[p] # <<>>}
BestBidOf(s) == Max(Levels(s.bids))
BestAskOf(s) == Min(Levels(s.asks))
InBook(book, id) == \E p \in DOMAIN book : \E i \in 1..Len(book[p]) : book[p][i].id = id
Remaining(s, id) == s.tracker[id].qty - s.tracker[id].filled

\* updateMarketData
UpdateMarketData(s) ==
  [s EXCEPT !.bestBid = IF Levels(s.bids) = {} THEN NoPrice ELSE BestBidOf(s),
            !.bestAsk = IF Levels(s.asks) = {} THEN NoPrice ELSE BestAskOf(s)]

\* updateOrderStatus(orderId, status, filledQty)
UpdateOrderStatus(s, id, st, dq) ==
  IF id \in DOMAIN s.tracker
  THEN [s EXCEPT !.tracker[id].status = st, !.tracker[id].filled = @ + dq]
  ELSE s

\* fault variant of Fill: the FILLED test reads filledQty before the increment
FillStale(s, id, q) ==
  UpdateOrderStatus(s, id, IF s.tracker[id].filled = s.tracker[id].qty THEN "FILLED" ELSE "PARTIAL", q)

\* the fill bookkeeping of one leg: filledQty += q, then FILLED or PARTIAL
Fill(s, id, q) ==
  LET f == s.tracker[id].filled + q
  IN UpdateOrderStatus(s, id, IF f = s.tracker[id].qty THEN "FILLED" ELSE "PARTIAL", q)

\* fault variant of Leg: the position of the anonymous client is kept too
LegAllClients(pos, c, dq, px) ==
  LET nq == pos[c].qty + dq
  IN [pos EXCEPT ![c] = [qty |-> nq, cost |-> IF nq = 0 THEN 0 ELSE @.cost + dq * px]]

\* one leg of updatePosition: the cost basis is lost when the position is flat
Leg(pos, c, dq, px) ==
  IF c = Anonymous THEN pos
  ELSE LET nq == pos[c].qty + dq
       IN [pos EXCEPT ![c] = [qty |-> nq, cost |-> IF nq = 0 THEN 0 ELSE @.cost + dq * px]]

\* updatePosition(trade): buyer first, then seller
UpdatePosition(s, t) ==
  LET afterBuy == Leg(s.positions, s.tracker[t.buy].client, t.qty, t.price)
  IN Leg(afterBuy, s.tracker[t.sell].client, -t.qty, t.price)

\* tradeHistory.push_back(trade); updatePosition(trade); notifyTradeListeners
RecordTrade(s, t) ==
  [s EXCEPT !.trades = Append(@, t), !.positions = UpdatePosition(s, t)]

\* erase the FIFO front of a level (the order at the front is filled)
Dequeue(s, side, p) ==
  WithBook(s, side, [BookOf(s, side) EXCEPT ![p] = Tail(@)])

\* bids[price].push_back(order) / asks[price].push_back(order)
Insert(s, id) ==
  LET o == s.tracker[id]
  IN WithBook(s, o.side, [BookOf(s, o.side) EXCEPT
                            ![o.price] = Append(@, [id |-> id, status |-> o.status])])

\* fault variant of ValidateOrder: the quantity check is missing
ValidateOrderNoQty(price, qty, type, stop) ==
  /\ type \notin {"MARKET", "STOP"} => price > 0
  /\ type = "STOP" => stop > 0

(***************************************************************************)
(* validateOrder: quantity positive (and a lot multiple); for types other *)
(* than MARKET and STOP a positive price (a tick multiple); for STOP a     *)
(* positive stop price.  A STOP's limit price is not checked.              *)
(***************************************************************************)
ValidateOrder(price, qty, type, stop) ==
  /\ qty > 0
  /\ type \notin {"MARKET", "STOP"} => price > 0
  /\ type = "STOP" => stop > 0

\* getAvailableQty(side): unfilled quantity on the opposite side, all prices
LevelQty(s, lvl) == FoldLeft(LAMBDA acc, e : acc + Remaining(s, e.id), 0, lvl)
GetAvailableQty(s, side) ==
  LET book == IF side = "buy" THEN s.asks ELSE s.bids
  IN MapThenSumSet(LAMBDA p : LevelQty(s, book[p]), DOMAIN book)

(***************************************************************************)
(* matchOrders, the crossing loop: while both sides are non-empty and the *)
(* best bid is >= the best ask, trade the FIFO fronts of the two best      *)
(* levels at the price of the order with the earlier timestamp (the bid   *)
(* price on a tie), for min of the two remainders, at the maker fee rate. *)
(***************************************************************************)
Crossed(s) ==
  /\ Levels(s.bids) # {}
  /\ Levels(s.asks) # {}
  /\ BestBidOf(s) >= BestAskOf(s)

\* fault variant of CrossFronts: a filled ask is not erased from its level
CrossFrontsKeepAsk(s) ==
  LET bp == BestBidOf(s)
      ap == BestAskOf(s)
      b  == Head(s.bids[bp]).id
      a  == Head(s.asks[ap]).id
      q  == MinOf(Remaining(s, b), Remaining(s, a))
      t  == [buy |-> b, sell |-> a, qty |-> q, fee |-> "maker",
             price |-> IF s.tracker[a].ts < s.tracker[b].ts THEN s.tracker[a].price ELSE s.tracker[b].price]
      s1 == Fill(Fill(RecordTrade(s, t), b, q), a, q)
  IN IF s1.tracker[b].filled >= s1.tracker[b].qty THEN Dequeue(s1, "buy", bp) ELSE s1

CrossFronts(s) ==
  LET bp == BestBidOf(s)
      ap == BestAskOf(s)
      b  == Head(s.bids[bp]).id
      a  == Head(s.asks[ap]).id
      bo == s.tracker[b]
      so == s.tracker[a]
      q  == MinOf(Remaining(s, b), Remaining(s, a))
      t  == [buy |-> b, sell |-> a, qty |-> q, fee |-> "maker",
             price |-> IF so.ts < bo.ts THEN so.price ELSE bo.price]
      s1 == Fill(Fill(RecordTrade(s, t), b, q), a, q)
      s2 == IF s1.tracker[b].filled >= bo.qty THEN Dequeue(s1, "buy", bp) ELSE s1
  IN IF s2.tracker[a].filled >= so.qty THEN Dequeue(s2, "sell", ap) ELSE s2

RECURSIVE MatchLoop(_)
MatchLoop(s) == IF Crossed(s) THEN MatchLoop(CrossFronts(s)) ELSE s

\* fault variant of MatchOrders: `if` for `while`, one crossing per pass
MatchOrdersOnce(s) == UpdateMarketData(IF Crossed(s) THEN CrossFronts(s) ELSE s)

\* matchOrders up to its closing checkStopOrders call
MatchOrders(s) == UpdateMarketData(MatchLoop(s))

(***************************************************************************)
(* executeMarketOrder: walk the opposite side best price first, FIFO      *)
(* within a level, taking min(remaining, order remainder) at the level's  *)
(* price and the taker fee rate; the market order is never inserted.      *)
(* Returns the engine state and the unfilled remainder.                   *)
(***************************************************************************)
RECURSIVE ExecuteMarketOrder(_, _, _)
ExecuteMarketOrder(s, id, rem) ==
  LET side == s.tracker[id].side
      book == BookOf(s, Opp(side))
  IN IF rem = 0 \/ Levels(book) = {}
     THEN [st |-> s, rem |-> rem]
     ELSE LET p  == IF side = "buy" THEN Min(Levels(book)) ELSE Max(Levels(book))
              o  == Head(book[p]).id
              q  == MinOf(rem, Remaining(s, o))
              t  == [buy |-> IF side = "buy" THEN id ELSE o,
                     sell |-> IF side = "buy" THEN o ELSE id,
                     price |-> p, qty |-> q, fee |-> "taker"]
              s1 == Fill(RecordTrade(s, t), o, q)
              s2 == IF s1.tracker[o].filled >= s1.tracker[o].qty
                    THEN Dequeue(s1, Opp(side), p) ELSE s1
          IN ExecuteMarketOrder(s2, id, rem - q)

\* fault variant of PlaceMarketOrder: the requested quantity is booked as filled
PlaceMarketOrderAllFilled(s, id) ==
  LET q  == s.tracker[id].qty
      r  == ExecuteMarketOrder(s, id, q)
      st == IF r.rem = q THEN "REJECTED" ELSE IF r.rem > 0 THEN "PARTIAL" ELSE "FILLED"
  IN UpdateMarketData(UpdateOrderStatus(r.st, id, st, q))

\* placeMarketOrder, up to its closing checkStopOrders call
PlaceMarketOrder(s, id) ==
  LET q  == s.tracker[id].qty
      r  == ExecuteMarketOrder(s, id, q)
      st == IF r.rem = q THEN "REJECTED" ELSE IF r.rem > 0 THEN "PARTIAL" ELSE "FILLED"
  IN UpdateMarketData(UpdateOrderStatus(r.st, id, st, q - r.rem))

\* removeOrder(bids, id) || removeOrder(asks, id); an emptied level is erased
RemoveOrder(book, id) == [p \in DOMAIN book |-> SelectSeq(book[p], LAMBDA e : e.id # id)]

\* fault variant of CancelOrder: best bid/ask are not refreshed
CancelOrderNoRefresh(s, id) ==
  IF InBook(s.bids, id) \/ InBook(s.asks, id)
  THEN UpdateOrderStatus([s EXCEPT !.bids = RemoveOrder(@, id), !.asks = RemoveOrder(@, id)],
                         id, "CANCELLED", 0)
  ELSE s

\* fault variant of CancelOrder: any tracked id is marked CANCELLED
CancelOrderAnyTracked(s, id) ==
  IF id \in DOMAIN s.tracker
  THEN UpdateMarketData(UpdateOrderStatus(
         [s EXCEPT !.bids = RemoveOrder(@, id), !.asks = RemoveOrder(@, id)],
         id, "CANCELLED", 0))
  ELSE s

\* cancelOrder(id): only an order resting in the book can be cancelled
CancelOrder(s, id) ==
  IF InBook(s.bids, id) \/ InBook(s.asks, id)
  THEN UpdateMarketData(UpdateOrderStatus(
         [s EXCEPT !.bids = RemoveOrder(@, id), !.asks = RemoveOrder(@, id)],
         id, "CANCELLED", 0))
  ELSE s

(***************************************************************************)
(* checkStopOrders(lastPrice): a STOP order still OPEN fires when a buy   *)
(* stop sees lastPrice >= stopPrice or a sell stop lastPrice <= stopPrice.*)
(***************************************************************************)
Triggers(o, lp) ==
  \/ o.side = "buy" /\ lp >= o.stop
  \/ o.side = "sell" /\ lp <= o.stop

Armed(s) == {id \in DOMAIN s.tracker : s.tracker[id].type = "STOP" /\ s.tracker[id].status = "OPEN"}

\* the tail of the public call once no scan is running: the IOC check of
\* placeOrder (cancel if still OPEN) and its final updateMarketData
Finish(s, ioc) ==
  UpdateMarketData(IF ioc # 0 /\ s.tracker[ioc].status = "OPEN" THEN CancelOrder(s, ioc) ELSE s)

(***************************************************************************)
(* The closing `if (!tradeHistory.empty()) checkStopOrders(last price)`   *)
(* of a top-level matchOrders/placeMarketOrder: if a stop may fire, start *)
(* a scan in an unspecified hash order; otherwise the scan does nothing   *)
(* and the handler's tail runs at once.                                   *)
(***************************************************************************)
StartScan(s, ioc) ==
  IF s.trades # <<>> /\ Armed(s) # {}
  THEN \E ord \in SetToSeqs(Armed(s)) :
         /\ Commit(s)
         /\ frames' = <<[lp |-> Last(s.trades).price, todo |-> ord]>>
         /\ scanOrder' = ord
         /\ pendingIoc' = ioc
  ELSE /\ Commit(Finish(s, ioc))
       /\ UNCHANGED scanVars

Idle == frames = <<>>

(***************************************************************************)
(* placeOrder(side, price, quantity, type, clientId, stopPrice)            *)
(***************************************************************************)
PlaceOrder(side, price, qty, type, client, stop) ==
  /\ Idle
  /\ submissions < MaxSubmissions
  /\ ValidateOrder(price, qty, type, stop)
  /\ submissions' = submissions + 1
  /\ LET id == counter + 1
         o  == [side |-> side, price |-> price, qty |-> qty, filled |-> 0,
                type |-> type, status |-> "OPEN", client |-> client,
                stop |-> stop, ts |-> clock + 1]
         s0 == [Engine EXCEPT !.tracker = (id :> o) @@ @]
         s1 == Insert(s0, id)
     IN /\ counter' = id
        /\ clock' = clock + 1
        /\ UNCHANGED snapshot
        /\ CASE type = "MARKET" -> StartScan(PlaceMarketOrder(s0, id), 0)
             [] type = "STOP"   -> Commit(s0) /\ UNCHANGED scanVars
             [] type = "LIMIT"  -> StartScan(MatchOrders(s1), 0)
             [] type = "IOC"    -> StartScan(MatchOrders(s1), id)
             [] type = "FOK"    ->
                  IF GetAvailableQty(s1, side) >= qty
                  THEN StartScan(MatchOrders(s1), 0)
                  ELSE /\ Commit(UpdateMarketData(
                            UpdateOrderStatus(CancelOrder(s1, id), id, "REJECTED", 0)))
                       /\ UNCHANGED scanVars

(***************************************************************************)
(* modifyOrder(id, newPrice, newQuantity): only an OPEN order; cancel it  *)
(* (which fails silently for an order not in the book) and place a new    *)
(* LIMIT order for the same side and client under a fresh id.             *)
(***************************************************************************)
ModifyOrder(id, price, qty) ==
  /\ Idle
  /\ submissions < MaxSubmissions
  /\ tracker[id].status = "OPEN"
  /\ ValidateOrder(price, qty, "LIMIT", 0)
  /\ submissions' = submissions + 1
  /\ LET old == tracker[id]
         nid == counter + 1
         o   == [side |-> old.side, price |-> price, qty |-> qty, filled |-> 0,
                 type |-> "LIMIT", status |-> "OPEN", client |-> old.client,
                 stop |-> 0, ts |-> clock + 1]
         s0  == CancelOrder(Engine, id)
     IN /\ counter' = nid
        /\ clock' = clock + 1
        /\ UNCHANGED snapshot
        /\ StartScan(MatchOrders(Insert([s0 EXCEPT !.tracker = (nid :> o) @@ @], nid)), 0)

\* cancelOrder(id), called directly
Cancel(id) ==
  /\ Idle
  /\ Commit(CancelOrder(Engine, id))
  /\ UNCHANGED <<scanVars, counter, clock, snapshot, submissions>>

(***************************************************************************)
(* The steps of a running checkStopOrders scan.  The top frame visits its *)
(* next armed stop against the lastPrice it was called with.              *)
(***************************************************************************)
Top == frames[Len(frames)]
\* fault variant of Fires: the type test is missing, a fired stop fires again
FiresAnyOpen(id, lp) ==
  /\ tracker[id].status = "OPEN"
  /\ Triggers(tracker[id], lp)
Fires(id, lp) ==
  /\ tracker[id].type = "STOP"
  /\ tracker[id].status = "OPEN"
  /\ Triggers(tracker[id], lp)
AdvanceTop == [frames EXCEPT ![Len(frames)].todo = Tail(@)]

\* the visited entry does not fire: move to the next
ScanSkip ==
  /\ ~Idle
  /\ Top.todo # <<>>
  /\ ~Fires(Head(Top.todo), Top.lp)
  /\ frames' = AdvanceTop
  /\ UNCHANGED <<engineVars, scanOrder, pendingIoc, counter, clock, snapshot, submissions>>

\* fault variant of ScanTrigger: the fired stop is inserted but not matched
ScanTriggerNoMatch ==
  /\ ~Idle
  /\ Top.todo # <<>>
  /\ Fires(Head(Top.todo), Top.lp)
  /\ LET id == Head(Top.todo)
         s  == UpdateMarketData(Insert([Engine EXCEPT !.tracker[id].type = "LIMIT"], id))
     IN /\ Commit(s)
        /\ frames' = AdvanceTop
  /\ UNCHANGED <<scanOrder, pendingIoc, counter, clock, snapshot, submissions>>

\* fault variant of ScanTrigger: the fired stop turns LIMIT but is not inserted
ScanTriggerNoInsert ==
  /\ ~Idle
  /\ Top.todo # <<>>
  /\ Fires(Head(Top.todo), Top.lp)
  /\ LET id == Head(Top.todo)
         s  == MatchOrders([Engine EXCEPT !.tracker[id].type = "LIMIT"])
     IN /\ Commit(s)
        /\ frames' = Append(AdvanceTop, [lp |-> Last(s.trades).price,
                                         todo |-> scanOrder])
  /\ UNCHANGED <<scanOrder, pendingIoc, counter, clock, snapshot, submissions>>

\* the visited stop fires: it becomes a LIMIT order, is inserted, and
\* matchOrders runs, ending in a nested checkStopOrders of the newest price
ScanTrigger ==
  /\ ~Idle
  /\ Top.todo # <<>>
  /\ Fires(Head(Top.todo), Top.lp)
  /\ LET id == Head(Top.todo)
         s  == MatchOrders(Insert([Engine EXCEPT !.tracker[id].type = "LIMIT"], id))
     IN /\ Commit(s)
        /\ frames' = Append(AdvanceTop, [lp |-> Last(s.trades).price, todo |-> scanOrder])
  /\ UNCHANGED <<scanOrder, pendingIoc, counter, clock, snapshot, submissions>>

\* a nested checkStopOrders returns into the loop of its caller
ScanReturn ==
  /\ Len(frames) > 1
  /\ Top.todo = <<>>
  /\ frames' = Front(frames)
  /\ UNCHANGED <<engineVars, scanOrder, pendingIoc, counter, clock, snapshot, submissions>>

\* the outermost checkStopOrders returns: the public call finishes
ScanFinish ==
  /\ Len(frames) = 1
  /\ Top.todo = <<>>
  /\ Commit(Finish(Engine, pendingIoc))
  /\ frames' = <<>>
  /\ scanOrder' = <<>>
  /\ pendingIoc' = 0
  /\ UNCHANGED <<counter, clock, snapshot, submissions>>

ScanStep == ScanSkip \/ ScanTrigger \/ ScanReturn \/ ScanFinish

(***************************************************************************)
(* saveSnapshot: a BIDS section (bids map order: price descending, FIFO   *)
(* within a level) and an ASKS section (price ascending), one row per     *)
(* resting book copy.  The status written is the book copy's, which is    *)
(* the status the order had when it was inserted.                         *)
(***************************************************************************)
\* fault variant of Row: filledQuantity is written as 0
RowNoFill(s, e) ==
  LET o == s.tracker[e.id]
  IN [id |-> e.id, side |-> o.side, price |-> o.price, qty |-> o.qty,
      filled |-> 0, type |-> o.type, status |-> e.status,
      client |-> o.client, stop |-> o.stop]

Row(s, e) ==
  LET o == s.tracker[e.id]
  IN [id |-> e.id, side |-> o.side, price |-> o.price, qty |-> o.qty,
      filled |-> o.filled, type |-> o.type, status |-> e.status,
      client |-> o.client, stop |-> o.stop]

SectionRows(s, side) ==
  LET book == BookOf(s, side)
      ps   == IF side = "buy" THEN SetToSortSeq(Levels(book), LAMBDA x, y : x > y)
                              ELSE SetToSortSeq(Levels(book), LAMBDA x, y : x < y)
  IN FlattenSeq([i \in 1..Len(ps) |-> [j \in 1..Len(book[ps[i]]) |-> Row(s, book[ps[i]][j])]])

SaveSnapshot ==
  /\ Idle
  /\ SnapshotOps
  /\ snapshot' = [exists |-> TRUE, bids |-> SectionRows(Engine, "buy"),
                  asks |-> SectionRows(Engine, "sell")]
  /\ UNCHANGED <<engineVars, scanVars, counter, clock, submissions>>

(***************************************************************************)
(* loadSnapshot: clear bids, asks and orderTracker; replay every row into *)
(* the tracker with a fresh timestamp, and into the side of its section   *)
(* unless it is a STOP; orderCounter = max id loaded (0 if none); refresh *)
(* market data.  Trades and positions are kept.  The timestamps are the  *)
(* row numbers: they replace every timestamp in the tracker, so only      *)
(* their order matters.                                                   *)
(***************************************************************************)
\* fault variant of LoadedBook: a row replaces its level instead of joining it
LoadedBookLast(rows) ==
  [p \in BookPrices |->
     LET lvl == SelectSeq(rows, LAMBDA r : r.price = p /\ r.type # "STOP")
     IN IF lvl = <<>> THEN <<>> ELSE <<[id |-> Last(lvl).id, status |-> Last(lvl).status]>>]

LoadedBook(rows) ==
  [p \in BookPrices |->
     LET lvl == SelectSeq(rows, LAMBDA r : r.price = p /\ r.type # "STOP")
     IN [i \in 1..Len(lvl) |-> [id |-> lvl[i].id, status |-> lvl[i].status]]]

LoadSnapshot ==
  /\ Idle
  /\ SnapshotOps
  /\ snapshot.exists
  /\ LET rows == snapshot.bids \o snapshot.asks
         ids  == {rows[i].id : i \in 1..Len(rows)}
         s    == [Engine EXCEPT
                   !.tracker = [id \in ids |->
                      LET i == CHOOSE i \in 1..Len(rows) : rows[i].id = id
                      IN [side |-> rows[i].side, price |-> rows[i].price,
                          qty |-> rows[i].qty, filled |-> rows[i].filled,
                          type |-> rows[i].type, status |-> rows[i].status,
                          client |-> rows[i].client, stop |-> rows[i].stop, ts |-> i]],
                   !.bids = LoadedBook(snapshot.bids),
                   !.asks = LoadedBook(snapshot.asks)]
     IN /\ Commit(UpdateMarketData(s))
        /\ counter' = IF ids = {} THEN 0 ELSE Max(ids)
        /\ clock' = Len(rows)
  /\ UNCHANGED <<scanVars, snapshot, submissions>>

-----------------------------------------------------------------------------
Init ==
  /\ tracker = <<>>
  /\ bids = [p \in BookPrices |-> <<>>]
  /\ asks = [p \in BookPrices |-> <<>>]
  /\ trades = <<>>
  /\ positions = [c \in Clients |-> [qty |-> 0, cost |-> 0]]
  /\ bestBid = NoPrice
  /\ bestAsk = NoPrice
  /\ counter = 0
  /\ clock = 0
  /\ frames = <<>>
  /\ scanOrder = <<>>
  /\ pendingIoc = 0
  /\ snapshot = [exists |-> FALSE, bids |-> <<>>, asks |-> <<>>]
  /\ submissions = 0

\* The price a caller passes: main passes 0.0 for MARKET; stopPrice defaults
\* to 0.0 for every type but STOP.  0 is the invalid input the validator sees.
PriceInputs(type) == IF type = "MARKET" THEN {0} ELSE {0} \cup Prices
StopInputs(type)  == IF type = "STOP" THEN {0} \cup Prices ELSE {0}
\* the quantities a caller passes, with the invalid 0
QtyInputs == {0} \cup Quantities

Next ==
  \/ \E side \in Sides, type \in OrderTypes, qty \in QtyInputs, c \in Clients :
       \E price \in PriceInputs(type), stop \in StopInputs(type) :
         PlaceOrder(side, price, qty, type, c, stop)
  \/ \E id \in DOMAIN tracker, price \in PriceInputs("LIMIT"), qty \in QtyInputs :
       ModifyOrder(id, price, qty)
  \/ \E id \in DOMAIN tracker : Cancel(id)
  \/ SaveSnapshot
  \/ LoadSnapshot
  \/ ScanStep

Spec == Init /\ [][Next]_vars

-----------------------------------------------------------------------------
(***************************************************************************)
(* Properties                                                              *)
(***************************************************************************)
Entry == [id : Nat, status : Statuses]
Order == [side : Sides, price : BookPrices, qty : Nat, filled : Nat, type : Types,
          status : Statuses, client : Clients, stop : {0} \cup Prices, ts : Nat]

TypeOK ==
  /\ \A id \in DOMAIN tracker : tracker[id] \in Order
  /\ bids \in [BookPrices -> Seq(Entry)]
  /\ asks \in [BookPrices -> Seq(Entry)]
  /\ \A i \in 1..Len(trades) :
       trades[i] \in [buy : Nat, sell : Nat, price : BookPrices, qty : Nat \ {0},
                      fee : {"maker", "taker"}]
  /\ positions \in [Clients -> [qty : Int, cost : Int]]
  /\ bestBid \in BookPrices \cup {NoPrice} /\ bestAsk \in BookPrices \cup {NoPrice}
  /\ counter \in Nat /\ clock \in Nat /\ submissions \in 0..MaxSubmissions
  /\ pendingIoc \in Nat
  /\ snapshot.exists \in BOOLEAN

\* The set of order ids resting in the book, over both sides.
BookIds == {e.id : e \in UNION {Range(bids[p]) \cup Range(asks[p]) : p \in BookPrices}}

(* After every public call returns, and after every matchOrders pass of a *)
(* stop cascade, the book is not crossed: the best bid is below the best  *)
(* ask, or a side is empty (matchOrders' loop condition, the stop        *)
(* cascade, cancelOrder and loadSnapshot).                                *)
BookUncrossed == ~Crossed(Engine)

(* An order of a type that rests (LIMIT, IOC, FOK) is in the book exactly *)
(* when the tracker holds it OPEN or PARTIAL, on its own side at its own  *)
(* price, once, with quantity left: matchOrders/executeMarketOrder        *)
(* dequeue what they fill, cancelOrder removes what it cancels, and a     *)
(* fired stop enters the book as it turns LIMIT.                          *)
LiveOrdersRest ==
  \A id \in DOMAIN tracker :
    LET o == tracker[id]
        n == Cardinality({i \in 1..Len(BookOf(Engine, o.side)[o.price]) :
                            BookOf(Engine, o.side)[o.price][i].id = id})
    IN /\ o.type \in {"LIMIT", "IOC", "FOK"} =>
            (n = 1 <=> o.status \in {"OPEN", "PARTIAL"})
       /\ n = 1 => Remaining(Engine, id) > 0
       /\ id \in BookIds => n = 1

(* The status the tracker reports agrees with the filled quantity:       *)
(* 0 <= filled <= quantity, OPEN orders are unfilled, PARTIAL ones part   *)
(* filled and FILLED ones complete (updateOrderStatus after each trade,  *)
(* placeMarketOrder's final status).                                      *)
StatusReflectsFill ==
  \A id \in DOMAIN tracker :
    LET o == tracker[id] IN
    /\ 0 <= o.filled /\ o.filled <= o.qty
    /\ o.status = "OPEN" => o.filled = 0
    /\ o.status = "PARTIAL" => 0 < o.filled /\ o.filled < o.qty
    /\ o.status = "FILLED" <=> o.filled = o.qty

(* Every order's filled quantity is exactly the sum of the trades in the *)
(* trade history that name it as buyer or seller: each trade of          *)
(* matchOrders and executeMarketOrder is booked to the right two ids.    *)
TradedQty(id) ==
  FoldLeft(LAMBDA acc, t : acc + (IF t.buy = id \/ t.sell = id THEN t.qty ELSE 0), 0, trades)
FillsMatchTrades ==
  \A id \in DOMAIN tracker : tracker[id].filled = TradedQty(id)

(* When no call is running, the cached best bid and best ask that        *)
(* getBestBid/getBestAsk/getSpread report are those of the book.          *)
MarketDataFresh ==
  Idle => /\ bestBid = UpdateMarketData(Engine).bestBid
          /\ bestAsk = UpdateMarketData(Engine).bestAsk

(* Every stop cascade terminates, whatever the hash order: each step of *)
(* a running checkStopOrders decreases a measure over the naturals, so   *)
(* the call returns (with deadlock checking, which shows that a running *)
(* scan always has a step).  A fired stop leaves the armed set and adds  *)
(* one frame of at most Len(scanOrder) entries; a skip consumes one      *)
(* entry; a return pops an exhausted frame.                              *)
ScanMeasure ==
  Cardinality(Armed(Engine) \cap Range(scanOrder)) * (Len(scanOrder) + 2)
    + FoldLeft(LAMBDA acc, f : acc + Len(f.todo) + 1, 0, frames)
CascadeTerminates ==
  [][~Idle => Idle' \/ ScanMeasure' < ScanMeasure]_vars

Terminal == {"FILLED", "CANCELLED", "REJECTED"}

(* An order that reached FILLED, CANCELLED or REJECTED keeps that status *)
(* and stays queryable by its id from then on (spec 3: the statuses are  *)
(* terminal; an order is kept in the id index until teardown).  Broken   *)
(* by any call that touches an order it should not: cancelOrder of an    *)
(* order outside the book, the IOC tail, a status written over an old id.*)
TerminalStaysTerminal ==
  [][\A id \in DOMAIN tracker :
       tracker[id].status \in Terminal =>
         id \in DOMAIN tracker' /\ tracker'[id].status = tracker[id].status]_vars

(* Spec 4.4/8: no IOC order remains in the book after its placeOrder     *)
(* returns.  placeOrder cancels the IOC only if it is still OPEN.        *)
IocNeverRests ==
  Idle => \A id \in BookIds : tracker[id].type # "IOC"

(* Spec 4.4/8: an FOK order either fills completely or is rejected with  *)
(* no trade.  placeOrder checks the liquidity of the whole opposite side *)
(* (getAvailableQty), not the liquidity at or better than the FOK price. *)
FokAllOrNothing ==
  Idle => \A id \in DOMAIN tracker :
            tracker[id].type = "FOK" => tracker[id].status \in {"FILLED", "REJECTED"}

(* Spec 4.5: armed stops are scanned against the latest trade price.     *)
(* The loop of an outer checkStopOrders keeps the lastPrice it was       *)
(* called with after a nested cascade has traded at other prices.        *)
StopFiresAtLatestPrice ==
  [][ScanTrigger => Triggers(tracker[Head(Top.todo)], Last(trades).price)]_vars

(* Spec 3: a trade is priced at the resting order's price.  When a stop  *)
(* fires it is the incoming order, and every trade of that matching pass *)
(* should be at the price of its resting counterparty; matchOrders picks *)
(* the order with the earlier timestamp, and the stop kept the timestamp *)
(* of its submission.                                                    *)
TriggeredStopTradesAtRestingPrice ==
  [][ScanTrigger =>
       LET id == Head(Top.todo)
       IN \A i \in (Len(trades) + 1)..Len(trades') :
            LET t == trades'[i]
            IN t.price = tracker[IF t.buy = id THEN t.sell ELSE t.buy].price]_vars

(* Spec 4.4: a modify cancels the old id for good and submits a new one. *)
(* modifyOrder accepts any OPEN order, an armed STOP included, and its   *)
(* cancelOrder only searches the book.                                   *)
ModifyRetiresOld ==
  [][\A id \in DOMAIN tracker :
       (\E p \in PriceInputs("LIMIT"), q \in Quantities : ModifyOrder(id, p, q))
         => tracker'[id].status = "CANCELLED"]_vars

(* Spec 8: saving and then loading the snapshot reproduces the best bid  *)
(* and ask and every price level of the book: the same orders, in the   *)
(* same FIFO order, with the same unfilled quantity.  The rows carry     *)
(* filledQuantity and the load replays them section by section.          *)
LevelView(s) ==
  [side \in Sides |-> [p \in BookPrices |->
     [i \in 1..Len(BookOf(s, side)[p]) |->
        <<BookOf(s, side)[p][i].id, Remaining(s, BookOf(s, side)[p][i].id)>>]]]
SnapshotRoundTrip ==
  [][(LoadSnapshot /\ snapshot.bids = SectionRows(Engine, "buy")
                   /\ snapshot.asks = SectionRows(Engine, "sell"))
       => /\ LevelView(Engine') = LevelView(Engine)
          /\ bestBid' = bestBid /\ bestAsk' = bestAsk]_vars

(* Spec 3: order ids are unique and assigned monotonically, so no id     *)
(* that a trade of the history names is handed out again: orderCounter   *)
(* never falls below it.  loadSnapshot recomputes orderCounter from the  *)
(* resting orders only.                                                  *)
IdsNeverReused ==
  \A i \in 1..Len(trades) : trades[i].buy <= counter /\ trades[i].sell <= counter

(* Spec 4.6: each client's net position is what its orders bought minus *)
(* what they sold over the trade history, leg by leg (updatePosition is  *)
(* applied to every trade of matchOrders and executeMarketOrder); the    *)
(* anonymous client "" keeps no position.                                *)
NetTraded(c) ==
  FoldLeft(LAMBDA acc, t :
             acc + (IF tracker[t.buy].client = c THEN t.qty ELSE 0)
                 - (IF tracker[t.sell].client = c THEN t.qty ELSE 0), 0, trades)
NetPositionsMatchTrades ==
  \A c \in Clients : positions[c].qty = IF c = Anonymous THEN 0 ELSE NetTraded(c)

(* Spec 3: a position's average price is its volume-weighted average     *)
(* ENTRY price, so a trade that only reduces a position (same sign, not  *)
(* flat) leaves it unchanged: cost'/qty' = cost/qty.  updatePosition     *)
(* subtracts the exit value from the cost basis.                         *)
Reduces(c) ==
  /\ positions'[c].qty # 0
  /\ positions[c].qty * positions'[c].qty > 0
  /\ positions'[c].qty * positions'[c].qty < positions[c].qty * positions[c].qty
PositionAvgKeptOnReduce ==
  [][Len(trades') = Len(trades) + 1 =>
       \A c \in Clients :
         Reduces(c) => positions'[c].cost * positions[c].qty = positions[c].cost * positions'[c].qty]_vars
=============================================================================
