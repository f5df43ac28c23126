# TLA+ models of hft-101

This directory holds TLA+ models of the repository's code and the TLC
configurations that check them. `PROJECT.json` lists every component, run, fault
variant, source mapping, finding and hazard. This file explains them.

## The system

The repository has two kinds of code.

1. **The matching engine** (`src/Orderbook_Task/Exchange_OrderBook.cpp`,
   class `OrderBook`). It is a single-instrument limit order book. Its parts:
   - **OrderValidator** (`validateOrder`): checks quantity and price (tick and
     lot multiples), and the stop price of a STOP.
   - **OrderBookStore**:
     - `bids` and `asks` are `std::map`s from price to a `vector` FIFO of
       *copies* of orders.
     - `orderTracker` is an `unordered_map` from id to the authoritative
       order.
     - Helpers: `removeOrder`, `getAvailableQty`, and `updateMarketData`
       (the cached best bid and ask).
   - **MatchingEngine**:
     - `matchOrders` crosses the FIFO fronts of the best levels. The trade
       price is the price of the order with the earlier timestamp, and the
       maker fee is charged.
     - `executeMarketOrder` walks the opposite side for a MARKET order and
       charges the taker fee.
   - **OrderTypeHandlers**: `placeOrder` for LIMIT, MARKET, STOP, IOC and
     FOK, plus `modifyOrder` (cancel, then a fresh LIMIT) and `cancelOrder`.
   - **StopOrderMonitor** (`checkStopOrders`): it runs after every matching
     pass, with the last trade price. It walks the tracker in hash order and
     turns each triggered STOP into a LIMIT, which it inserts and matches.
     That matching recursively scans again.
   - **PositionLedger** (`updatePosition`): per client, a net quantity and
     an average price, updated per trade leg. Orders with the empty client
     id `""` keep no position.
   - **SnapshotStore**: `saveSnapshot` writes the resting book copies, one
     row each. `loadSnapshot` clears the book and tracker, replays the rows
     and recomputes `orderCounter`. It keeps trades and positions.
   - **EventBus and reports**: listener callbacks and the print, depth and
     support/resistance views.

   Every public call runs to completion before the next (spec §5). The only
   nesting is the stop cascade: `matchOrders → checkStopOrders →
   matchOrders → …`.

2. **Stand-alone programs.** These are:
   - a second exchange simulation with user balances
     (`HFT_company_OrderBook.cpp`);
   - small concurrent programs: a lock-free and a locked stack, a
     producer/consumer queue, double buffering, spinlock and mutex list
     draining, and a CAS counter;
   - micro-benchmarks: single-threaded array and arithmetic kernels, an
     allocation loop with a separate slow path, and four threads on two
     atomic counters (`thread-affinity/os.cpp`);
   - a thread-pinning benchmark and a kernel-bypass network demo, neither
     of which compiles.

   None of them interacts with the matching engine.

## Modules

### `OrderBook.tla`: the matching engine

**State**

| Variable | Code |
|---|---|
| `tracker` | `orderTracker` |
| `bids`, `asks` | price → sequence of book copies `[id, status]`. A copy keeps the status the order had when it was inserted, because the code never updates it. Its `filledQty` always equals the tracker's, so the model reads that from `tracker`. |
| `trades` | `tradeHistory`. Each trade is a record of buy id, sell id, price, quantity and fee class. |
| `positions` | `clientPositions`, kept as quantity and cost basis (`cost = quantity * avgPrice`). This is what the code's `totalCost` recomputes; it is exact on integers. |
| `bestBid`, `bestAsk` | the cached `optional<double>`; `NoPrice` means no value. |
| `counter` | `orderCounter` |
| `clock` | a logical clock standing for `system_clock::now()`; only the order of timestamps is compared. |
| `frames`, `scanOrder`, `pendingIoc` | the running stop cascade (see below). |
| `snapshot` | the snapshot file: whether it exists, and its BIDS and ASKS rows. |
| `submissions` | a counter that bounds the number of `placeOrder`/`modifyOrder` calls. |

**Actions.** Every public call is one action. Its guard comes from the code's
early returns; an invalid order changes nothing and is not a step. The
actions are:
- `PlaceOrder(side, price, qty, type, client, stop)`
- `ModifyOrder(id, price, qty)`
- `Cancel(id)`
- `SaveSnapshot`
- `LoadSnapshot`

The loops of `matchOrders` and `executeMarketOrder` are RECURSIVE operators
over an engine-state record (`MatchLoop`, `ExecuteMarketOrder`).

**The stop cascade.** It is *not* atomic in the model, for two reasons:
- its outcome depends on the unspecified iteration order of the
  `unordered_map`;
- the outer loop's `lastPrice` can go stale.

When a top-level matching pass ends with armed stops present, `StartScan`
does three things:
- it chooses a permutation of the armed stops (`scanOrder`);
- it pushes a frame `[lp, todo]`;
- it leaves the tail of `placeOrder` pending: the IOC check (`pendingIoc`)
  and `updateMarketData`.

Four steps then run the scan. While a scan runs, only these steps are
enabled, because the call has not returned.
- `ScanSkip` visits an entry that does not fire.
- `ScanTrigger` fires a stop. This makes it LIMIT, inserts it, runs
  `matchOrders`, and pushes a nested frame with the newest trade price.
- `ScanReturn` pops an exhausted nested frame.
- `ScanFinish` runs the pending tail.

**Data abstraction.**
- Prices are integer ticks and quantities integer lots, so the epsilon
  checks reduce to positivity.
- Callers' inputs include the invalid 0.
- Fees are kept as their class (maker or taker), not their amount.
- Clients are model values; `Anonymous` stands for `""`.

### `BalanceExchange.tla`: the balance-settling exchange

It models `HFT_company_OrderBook.cpp`, a BTC/USD book in which each trade
moves funds between registered users.

**State**

| Variable | Code |
|---|---|
| `bids`, `asks` | `vector<Order>`, in vector order. Each order is `[user, price, qty, id, ins]`, where `ins` is the side's insertion number. Vector order is state: the calls sort the vectors in place, and the sorts differ in stability. |
| `users` | the `users` map: name to `[usd, btc]` |
| `trades` | `trade_history`, without the timestamp |
| `orderCtr`, `bidCtr`, `askCtr` | the static counters of `Order` |
| `deposited` | a history variable: all USD and BTC credited by the constructor and `addBalanace` |
| `calls` | the number of menu calls, for the bound |

**Actions.** Each state-changing menu call is one action:
- `MakeUser`, `AddBalance`, `AddBid`, `AddAsk`, `MarketBid`, `MarketAsk`;
- `CancelBid` and `CancelAsk`, by id or by price and quantity;
- the in-place sorts of the views `GetDepth`, `GetQuote` and `GetSpread`.

`Init` is the constructor followed by the `getDepth` that `main` runs first.

The matching loops are RECURSIVE operators over `[users, trades]`:
`LimitWalk` for `add_bid`/`add_ask` and `MarketWalk` for the market calls.
`FlipBalance` settles a trade only if both users exist and can pay.
Otherwise it only prints. The loop has already reduced or erased the resting
order either way.

**Sorts.**
- `std::stable_sort` is `StableSort`, a sort by key and then position.
- `std::sort` is `UnstableSorts`, the set of all permutations sorted by the
  key. The standard leaves the order of equal keys unspecified. libstdc++
  uses insertion sort below 17 elements, which happens to be stable, but the
  constructor already puts 17 orders on each side.

**Data abstraction.**
- Prices and quantities are small integers, not doubles.
- Balances hold only USD and BTC.
- User names are model values. `u1` is unregistered until it signs up.

### `MC_OrderBook.tla`

This module instantiates `OrderBook` for TLC. It provides:
- prices `{1, 2}` and quantities `{1, 2}`, or `{1}` for the stop run;
- client sets;
- the order-type subsets each run submits.

### `MC_BalanceExchange.tla`

It replaces the constructor's 34 orders with one ask of `mm1` at 2 above one
bid of `mm2` at 1. Both market makers hold 20 USD and 5 BTC. A third user,
`u1`, can sign up. Prices and quantities are `{1, 2}`, and `addBalanace`
adds 2.

### The concurrent programs

Each thread is a set of actions, one per step at the granularity of the
code's locks and atomics. A thread's program counter and locals are
functions of the thread. A lock is a `holder` variable, and taking it is
enabled only while it is free. spec.md lists these programs as external
collaborators of the matching engine, so their properties come from what the
programs themselves rely on: comments, the `main` that joins the threads, and
the C++ library contracts.

- **`Stack.tla`** is what both stack benchmarks promise
  (`src/lock-free-hft`). Each worker runs `OPERATIONS_PER_THREAD`
  operations on one shared stack: a push of `i * id` for even `i` and a pop
  for odd `i`. Each operation takes effect atomically. It has no code of its
  own beyond the worker loop. It is the abstract specification.
- **`LockedStack.tla`** models `class LockedStack` and its workers
  (`lock_free_stack.cpp`). `Acquire` is the `lock_guard`. The
  `std::stack` calls under it are the steps `DoPush`, `CheckEmpty` and
  `TopPop`, and `Release` is the guard's destructor plus the loop
  increment. The refinement mapping lets `done[t]` count an operation as
  complete once its stack change is made. `Abstract == INSTANCE Stack WITH
  done <- ...` and `StackRefinement == Abstract!Spec` state that the locked
  stack implements `Stack`, including its fairness.
- **`LockFreeStack.tla`** models `class LockFreeStack`
  (`lock_free_queue.cpp`), a Treiber stack. Memory is a set of addresses
  `Addrs`. `new` (`Alloc`) returns any address not in use, so an address
  freed by `delete` can come back at once, as with `malloc`. Each load,
  each `compare_exchange_weak` of `head_` (with spurious failure), and each
  plain read or write of a node is a step. Reading `old_head->next` after
  another thread deleted `old_head` is undefined behaviour, modelled as any
  address. `ReachableLive` says every node reachable from `head_` is
  allocated.
- **`OrderQueue.tla`** models `src/order-queue/main.cpp`. The producer
  takes the mutex (`ProducerLock`), then pushes and releases
  (`ProducerPush`). The consumer takes the mutex (`ConsumerLock`). In
  `ConsumerTake` it either finds the deque empty and leaves the scope
  (`continue`), or it pops the front, counts it, and logs its seqno.
  `cv` has no waiter, so `notify_one` changes nothing. Orders are their
  seqno.
- **`ListDrain.tla`** models the work loop of `src/spinlocks/1_spinlock.cpp`.
  Its steps are `SpinLock`, `Test` (on an empty list: unlock and leave),
  `PopBack` and `Unlock`. The list is its length, since values are never
  read. `0_mutex.cpp` takes the same steps: its `lock_guard` releases on
  `break` and at the end of each pass.
- **`CasCounter.tla`** models `src/non-blocking/main.cpp`. The steps are
  `Load`, `Check` (return at `num_iterations`) and `Cas`. A failed `Cas`
  refreshes `expected` and loops back to `Check`. `work` and `slow_work` are
  the same loop.
- **`DoubleBuffer.tla`** models `double_buffering()` of
  `src/double-buffering/main.cpp`. The two vectors own two storage blocks.
  `Swap` exchanges them, and a block's `contents` is the iteration that
  last filled it. `generate_data` and `process_data` each take a start step,
  where the `std::span` captures the block, and an end step, so a block in
  use by both threads at once is visible.

`MC_LockedStack` uses three workers (ids 0..2; id 0 pushes zeros).
`MC_LockFreeStack` uses two workers and three addresses. `MC_OrderQueue`
extends `OrderQueue` unchanged. `MC_Kernels` instantiates `ListDrain`,
`CasCounter` and `DoubleBuffer` side by side. The three share no variables,
and each step is a step of one of them, so a property of one holds in the
product exactly when it holds of that program alone.

**Fairness.** The threads are OS threads, which the scheduler runs, so each
thread gets weak fairness. Weak fairness is enough wherever the step a
thread waits for stays enabled once it is:
- a semaphore that only that thread acquires (`DoubleBuffer`);
- a CAS loop, which is always enabled (`CasCounter`);
- the drain's lock, which is free forever once the list is empty
  (`ListDrain`);
- an atomic increment, which is always enabled until its loop ends, and
  a join, which stays enabled once its thread has finished
  (`AtomicWorkers`).

In `OrderQueue` the consumer takes and drops the mutex in a tight loop, so
the producer's `ProducerLock` is enabled only now and then. Only strong
fairness on taking the mutex would make the producer finish, and
`std::mutex` does not promise it, so `Spec` has weak fairness only and no
passing run claims that both threads finish. `MC_queue_weak.cfg` checks
`Termination` under `Spec`, and TLC shows the consumer spinning forever while
the producer never gets the mutex. What weak fairness does give is
`DrainsAfterProducer`: once the producer has pushed its last order, nothing
competes for the mutex, and the consumer takes every order left and exits.

### The micro-benchmark kernels

Six of the single-threaded benchmarks compute something a comment, or the
shape of the code, makes a claim about. Each kernel is a constant operator.
`MC_Benchmarks` is a driver whose variable `call` is the call a `main`
makes next. `CallAbs`, `CallSimdAdd`, `CallHotLoop`, `CallStridedSum`,
`CallSpeedLoop` and `CallHeavy` each draw an input from what that `main`
can produce. The invariants say that the current call computes what is
promised.

The same module runs `os_scheduler` (`AtomicWorkers`). The variable `prog`,
chosen in `Init`, says which of the two programs a behaviour runs. They
share nothing, so their state spaces are added rather than multiplied.

- **`BranchlessAbs.tla`** models `compute_abs_branchless`
  (`branch_reduction.cpp` lines 11-20). `Mask` is the arithmetic shift
  `x >> 31`, and `ComputeAbs` is `(x + mask) ^ mask` on two's-complement
  bit patterns, using `Bitwise`'s `^^`. `Overflows` says when `x + mask`
  leaves `int`. The identity is bit-parallel, so `Width` 8 stands for 32.
- **`BlockedLoops.tla`** models two loops as RECURSIVE operators, one pass
  per call, returning the indices they touch and the `i` they leave with:
  - `SimdPasses`/`SimdStores`: `add_arrays_simd`'s 8-float blocks and its
    scalar tail (`simd_example.cpp` lines 14-29);
  - `HotPasses`/`HotUpdates`/`WarmUp`: the warm-up prefetch, the 4-way
    unrolled loop with its guarded prefetch 16 ahead, and the remainder
    loop (`hotpath_optimization.cpp` lines 61-91);
  - `StridedPasses`/`StridedWarmUp`: `sum_array_prefetch`, reading every
    stride-th element with a prefetch 32 strides ahead
    (`prefetching_example.cpp` lines 16-39);
  - `VelocityIndex`/`SpeedReads`: the accessors `i * 3 + k` and the
    particle loop of `inlining_example.cpp` (lines 10-48).

  The float data is left out, because what can go wrong is which indices
  are touched.
- **`HeavyOperation.tla`** models the integral branch of
  `compute_heavy_operation` (`compile_time_dispatch.cpp` lines 11-19). TLC's
  integers stop at 2^31, so the `long long` product is a sequence of 21-bit
  limbs. `MulSmall` multiplies it, and `FitsLongLong` says it has at most
  63 bits.
- **`AtomicWorkers.tla`** models `os_scheduler` (`os.cpp` lines 11-35).
  `Spawn` constructs the next `std::thread`, and `Work(w)` is one pass of
  `atomic.val++`, a single fetch_add on the counter `Shared[w]`. `Join` is
  the next `tk.join()`, which waits for that thread's loop to end. `Return`
  is the benchmark loop calling `os_scheduler` again with fresh counters.
- **`SlowpathRemoval.tla`** models `slowpath_removal.cpp`'s `main`. In
  `Allocate`, `allocate_memory_optimized` succeeds or fails. In
  `SlowpathReturn`, `handle_allocation_failure` reaches its end. That
  function is declared `[[noreturn]]`, so returning from it is undefined,
  and the action chooses between the outcomes builds produce: the loop
  continues (unoptimised), or control does not come back (optimised code
  drops what follows the call). No run checks it; see the kept
  configurations.

## Runs

### Passing runs

Every property of a passing run is paired with a fault variant in
`OrderBook.tla`. A fault variant is a plausible bug in the mapped definition
(for example `MatchOrdersOnce`: an `if` in place of the `while`). TLC finds
the property violated when the variant replaces the definition.

| Run | Bounds | Properties | What it shows |
|---|---|---|---|
| core | named + anonymous client, LIMIT/MARKET/IOC/FOK, 3 calls | TypeOK, BookUncrossed, LiveOrdersRest, StatusReflectsFill, FillsMatchTrades, MarketDataFresh, TerminalStaysTerminal, NetPositionsMatchTrades | Matching, market walks, IOC/FOK handling, modify and cancel keep book, tracker, trade history and cached best prices consistent with each other. No terminal order changes status. Each position's quantity is the client's net traded quantity, and the anonymous client has none. |
| stops | 1 client, LIMIT/STOP, quantity 1, 4 calls | BookUncrossed, LiveOrdersRest, CascadeTerminates | Cascades of up to two fired stops, in every hash order, leave the book uncrossed after every matching pass, and every cascade returns. |
| snapshot | 1 client, LIMIT/MARKET, snapshots on, 3 calls | LiveOrdersRest, SnapshotRoundTrip | Save followed by load reproduces the same FIFO levels, remainders and best prices (spec §8). Live orders stay in the book across a restore. |

| stack | 3 workers, 4 operations each | TypeOK, StackRefinement | The mutex stack implements the atomic `Stack`, and every worker finishes. |
| queue | 10 orders | TypeOK, FifoDelivery, DrainsAfterProducer | Every order reaches the consumer once and in seqno order. The deque always holds exactly the sent, unreceived orders. Under weak fairness, once the producer is done the consumer empties the queue and leaves its loop. |
| kernels | 2 threads each; list of 2, target 2, 3 buffer iterations | TypeOK, PopsMatchTests, Drained, NoLostUpdate, ReachesTarget, NoSharedBuffer, ProcessedInOrder, BothFinish | The drain never pops an empty list, accounts for every element, and ends with every thread out and the list empty. The counter equals the number of successful exchanges and ends at exactly its target. The double buffer never lets both threads use one block, keeps both semaphores at most 1, processes batch k on the k-th call, and both threads finish. |
| benchmarks | abs on -127..127 at 8 bits; lengths 0..40; strides 1..3 to 40 strides; 4 threads, 2 increments each | TypeOK, AbsMatchesReference, SimdAddCoversOnce, UnrolledLoopCoversOnce, StridedPrefetchInBounds, SpeedReadsEachOnce, EveryCallReturnsFull | Branchless abs is abs, with no overflow, for every value main can draw. `add_arrays_simd` stores each element once, and every 256-bit access is 8-aligned and in bounds. The unrolled loop and its tail update each entity once, and no prefetch forms an address past the end. The strided sum reads each stride-th element once and prefetches only inside `data`. The particle loop reads each float once. Every `os_scheduler` call returns, with both counters at twice the loop bound. |
| exchange | 3 users, prices and quantities {1, 2}, 3 calls (views unbounded) | TypeOK, BookNotCrossed, SettlementConserves, FifoLimitMatching | Every resting bid stays below every ask. Matching calls conserve total USD and BTC. Limit orders fill older same-price orders first. |

The fault variants for `exchange` are in `BalanceExchange.tla`: `CancelByPriceUnchecked`, `CrossesStrict`, `FlipBalanceNoCredit` and `AskPriorityPriceOnly`. The fault variants for
the concurrent runs sit in the modules they change. Among them:
- `TopPopNoPop`: `top()` without `pop()`;
- `ProducerPushOffByOne`: `<=` in the loop bound;
- `ConsumerTakeBack`: the log takes the back of the deque;
- `ConsumerTakeNoCount`: the count is never incremented;
- `SpinLockNoWait`;
- `TestNoUnlock`: `break` without unlocking;
- `CasAsStore`: a plain store;
- `CheckOffByOne`;
- `GenAcquireNoWait`;
- `InitSwappedSignals`;
- `ProcReleaseWrongSignal`.

The fault variants for `benchmarks` are these:
- `MaskLogical`: a logical shift in place of the arithmetic one;
- `SimdPassesToEnd`: `i < n` as the vector loop's bound;
- `HotPassesNoGuard`: the prefetch ahead without its bound test;
- `StridedPassesLe`: `<=` in the look-ahead's bound test;
- `VelocityIndexFlat`: the accessors without the factor 3;
- `WorkOffByOne`: `<=` in the worker's loop bound.

### Violation runs

Each violation run checks one claim of the spec or of a comment that the code
breaks. The details are in "findings" in `PROJECT.json`. The first table lists
the runs. The second lists configurations kept beside them; their findings
have no run.

| Run | Property | The code |
|---|---|---|
| ioc_rests | IocNeverRests | A partially filled IOC stays in the book: only OPEN is cancelled (line 250). |
| fok_partial | FokAllOrNothing | FOK liquidity is counted at all prices, so an FOK rests or part-fills (line 252). |
| exchange_liquidity | ConsumedOnlyByTrades | A bid from an unknown or underfunded user erases the ask it crossed, with no trade (`HFT_company_OrderBook.cpp` line 208). |
| aba | ReachableLive | In the lock-free stack, `head_` comes to point at a deleted node (`lock_free_queue.cpp` line 32). Thread 1 pops and deletes `a2`; thread 2 then reads `a2->next` from freed memory (a use-after-free, whose value the model leaves open) and gets `a3`, an address no live node has. A push gets `a2` back from `new`, thread 2's CAS succeeds, and `head_` becomes `a3`. |

| Configuration | Property | The code |
|---|---|---|
| `MC_stale_stop.cfg` | StopFiresAtLatestPrice | The outer scan fires a stop on a stale `lastPrice` after a nested cascade (line 170). |
| `MC_dispatch_overflow.cfg` | HeavyResultFits | `compute_heavy_operation<int>` overflows `long long` (undefined behaviour) for every value from 74 to 100 that `int_dist(1, 100)` can draw (`compile_time_dispatch.cpp` line 17). |
| `MC_slowpath_noreturn.cfg` (module `SlowpathRemoval`) | SlowpathContinues | `handle_allocation_failure` is `[[noreturn]]` but returns, as its comment intends (`slowpath_removal.cpp` line 19). This is undefined behaviour, and in an optimised build the loop does not resume after a failure. |
| `MC_id_reuse.cfg` | IdsNeverReused | After a load, ids already in the trade history are issued again (line 611). |
| `MC_queue_weak.cfg` | Termination | Under weak fairness only, the busy-polling consumer can keep the producer off the mutex forever (`order-queue/main.cpp` line 66). This is the scheduling caveat above, not a finding. |
| `MC_stop_price.cfg` | TriggeredStopTradesAtRestingPrice | A fired stop keeps its old timestamp and trades at its own price (line 328). |
| `MC_modify_stop.cfg` | ModifyRetiresOld | Modifying an armed STOP leaves it armed and adds a LIMIT order (line 276). |
| `MC_snapshot_status.cfg` | StatusReflectsFill | A PARTIAL order is restored as OPEN, because the book copy's status is written (line 554). |
| `MC_ledger_avg.cfg` | PositionAvgKeptOnReduce | Reducing a position moves its average price (line 95). |
| `MC_exchange_fifo_market.cfg` | FifoMarketMatching | `getDepth`'s `std::sort` swaps equal-price bids, and a market ask then takes the younger one first (line 357). |
| `MC_exchange_funds.cfg` | FundsConserved | Signing up an existing name resets its balances to zero (line 184). |
| `MC_exchange_negative.cfg` | NoNegativeBalance | Prices read with `cin >>` are never checked for sign (line 538). With a bid at -2, `flipBalance`'s test `USD >= price * quantity` passes and the seller pays: a re-signed-up market maker that sells into it ends at -1 USD (line 108). A negative deposit does the same in one call (line 388). |

**Bounds.** Three calls are enough for every two-order interaction plus a
third order (resting, crossing, then a modify, cancel, IOC, FOK or market
order against the remainder). Quantities `{1, 2}` give partial fills. Four
calls with quantity 1 are needed for a cascade of two fired stops, which is
what exercises `ScanReturn` and the stale outer frame. Two prices give
crossing, non-crossing and stop-trigger and no-trigger cases.

In `MC_stale_stop.cfg`, `PriceInputs <- ValidStopPriceInputs` limits the
submitted prices to ones `validateOrder` can accept for each type:
- MARKET orders get price 0;
- STOP orders get a positive limit price.

Invalid inputs change nothing. They only multiply the states of a four-call
run.

In `exchange`, three calls cover these cases:
- a same-price order by another user, followed by a crossing order (FIFO);
- an underfunded or unknown taker;
- a sign-up followed by funding and trading.

The amounts deposited and the prices typed are positive in this run; the
negative ones the prompt also accepts are in `MC_exchange_negative.cfg`.

The views do not count against the bound. They only reorder the vectors, so
they cannot grow the state space.

**Termination of cascades.** It is stated as a safety property,
`CascadeTerminates`: every scan step decreases `ScanMeasure`, a natural
number. Deadlock checking adds that a running scan always has a step. No
fairness is assumed.

Liveness under weak fairness was tried. TLC's evaluation of ENABLED for the
recursive matching operators grew beyond the time limit even at three calls,
so the variant argument replaces it.

**Bounds of the concurrent runs.**
- `stack`: three workers of four operations. Each worker pops twice, so a
  pop can find the stack empty, or find another worker's value on top.
- `aba`: two workers and three addresses. This is the least that lets a
  popped address be reused by a push while the other worker's pop still
  holds it. Four operations give each worker two pushes and two pops.
- `queue`: ten orders, so the deque fills and empties many times, in every
  interleaving of pushes and polls. Its states grow only linearly with the
  number of orders, because the two threads strictly alternate on one mutex.
- `kernels`: two threads each, the least that can race. The drain's list
  has two elements, so both threads can pop, or one can pop both. The
  counter's target is two, so a thread's CAS can fail against each of the
  other's increments. The double buffer runs three iterations, so each
  block is refilled after its first batch was processed. The product has
  about 212,000 states and takes under a minute.
- `benchmarks`: each kernel is evaluated on every input in its range.
  - Abs: 8-bit `int` over -127..127. Main's values (±10^6) never reach
    `INT_MIN`, and neither do these. With -128 added, TLC reports the
    overflow.
  - Loops: the schedules depend only on `n mod 8`, `n mod 4` and whether
    `n` exceeds 16. Lengths 0..40 pass through each case several times. The
    builds fix `N` at 2^20 and 2^18, both multiples of 16.
  - Strided sum: the look-ahead is 32 strides, so for each stride 1..3,
    `n` runs to 40 strides. Longer recursions overflow TLC's stack.
  - Particle loop: lengths 0..40.
  - Heavy: `int_dist(1, 100)`, main's whole range. This is why the property
    fails and lives in a kept configuration.
  - `os_scheduler`: two increments per thread, so the two threads on one
    counter can interleave theirs, and every spawn and join order happens.
    The loop bound is 2^12 in the code.


## Not modelled

| Part | Why |
|---|---|
| EventBus | The callbacks only print. The spec forbids reentrant callbacks. |
| Report and query methods | They only read state. |
| `main` | It is one fixed call sequence. |
| Snapshot I/O failures | The file is always one written by `saveSnapshot`. |
| Floating-point residue | Quantities are integer lots in the model. |
| `getBalance`, `getTradeHistory` (balance exchange) | They only print. |
| Floating-point balances (balance exchange) | Prices, quantities and balances are integers. |
| `~LockFreeStack` | It drains the stack after all threads have joined, single-threaded. |
| Memory orders (`lock_free_queue.cpp`) | The models are sequentially consistent. Relaxed and acquire/release reorderings are not represented. |
| The dangling `order` reference (`order-queue/main.cpp` line 71) | The model takes the read after `pop_front` to see the popped order. Whether the block was freed depends on the library's block size and the allocator. |
| `baseline()` (double buffering) | It is sequential and never called. |
| Timing and logging in the concurrent programs | They only measure and print. |
| `src/kernel-bypass/main.cpp` | It does not compile. `port_init` redeclares its parameters `rx_rings` and `tx_rings` (line 42) and leaves a `const rte_eth_dev_info` uninitialised (line 45), and line 108 passes the undeclared `pkts`. Beyond that, it is DPDK/mTCP packet I/O. |
| Float arithmetic in the benchmarks | The vector adds, `update_entity_hot`, `compute_speed` and the float branch of `compute_heavy_operation` compute floats. No claim is made about their values. |
| Cache warming and constexpr table | Each times one pass of float arithmetic or a table lookup. Their only outcome is a duration and a float sum. |
| Short-circuit benchmark | Its only control is `index < data.size() && expensive_check(...)`, and `expensive_check` reads `data[index % data.size()]` anyway. A property would restate the guard. |
| `src/thread-affinity/affinity.cpp` | It does not compile: `CPU_ZERO` takes one argument and is given two (lines 20-21). Its threads are those of `os.cpp`, with pinning added. |

## Plan

1. Done: the balance-settlement exchange (`BalanceExchange.tla`).
2. Done: the concurrent programs, with the locked stack refining `Stack`.
3. Done: the micro-benchmarks that compile and have control to explore
   (`MC_Benchmarks`, `SlowpathRemoval`).
4. A refinement of `Stack` by the lock-free stack with a hazard-pointer or
   tagged-pointer fix, so the ABA fix itself can be checked. This would be
   a model of a design, not of this code.
5. An abstract order-book specification (price-time priority over a set of
   resting orders), with `OrderBook` shown to refine it through
   `INSTANCE ... WITH`.
