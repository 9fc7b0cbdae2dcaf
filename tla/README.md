# Leviathan matching engine: TLA+ models, checks and proofs

Models of the matching engine in `src/`: a price-time priority limit order book
(`OrderBook`), a blocking queue (`ThreadSafeQueue`), the engine that runs the book
on one thread fed by the queue (`MatchingEngine`), and the recorder and the replay of
a log of calls.  TLC checks the models on small instances; TLAPS proves most of the
invariants, and two of the action properties, for every instance.

    tlc -workers 2 -config book_any_adds.cfg OrderBook     # any run of the table below
    tlapm OrderBookProofs.tla                              # any module of theorems

## 1. The system

| Component | State | Operations | Who calls it |
|---|---|---|---|
| `OrderBook` (`order_book.*`) | `bids_`, `asks_`: price -> FIFO deque of orders; `order_index_`: id -> side and price | `addOrder`, `cancelOrder`, `submitOrder` (LIMIT, MARKET, IOC, FOK), `modifyOrder`; queries `bestBid`, `bestAsk`, `totalOrderCount`, `getDepth` | one thread: the matching thread, `RecordingOrderBook`, the replay, tests |
| `ThreadSafeQueue` (`thread_safe_queue.hpp`) | `queue_`, `shutdown_`, `mutex_`, `cv_` | `push`, `pop`, `shutdown` | many producers, one consumer, the owner |
| `MatchingEngine` (`matching_engine.*`) | a book, a queue, the thread, `started_`, `stopped_`; a promise in each request | `start`, `stop`, destructor; seven requests: four mutations that return a future (`addOrderAsync` returns nothing), three reads that wait for theirs | clients of any thread, one owner |
| `Order`, `Trade` (`order.hpp`) | values; a process-wide timestamp counter | construction | clients |
| `RecordingOrderBook`, event log | a book, a stream, a line counter | the book's operations, each logged before the call and its trades after | one thread |
| Replay (`replay.*`), `replay_tool` | the replayed book, the two lists of trades | parse a line, run it, compare the trades | one thread |
| Tests, benchmark | | | |

What is hard here.  The book is sequential, and its difficulty is two redundant
structures (the maps and the index) changed by separate statements, four order
types with their own rules of crossing and resting, a preview that must agree with
the loop it announces, a modification that is a cancellation and a submission, and
callers that `addOrder` trusts completely.  The queue notifies after it unlocks,
is woken for no reason, and must drain before it ends.  The engine adds the race
of its clients with `start`, `stop` and the destructor.  The log and the replay
add a crash between two lines or inside one, lines that are skipped, and prices that
are rounded.  A timestamp is given to an order before the book sees it.
`PROJECT.json` lists each hazard at its line with the properties that cover it.

What makes each component correct:

* book: index and maps agree; no crossed book; nothing rests that must not; fills
  in price-time order inside the limit; FOK all or nothing; places are kept; every
  call has the effect that price-time priority gives it;
* queue: each item once and in order; no lost wakeup; drained before the end;
  every consumer ends after a shutdown;
* engine: everything pushed before the shutdown is answered when `stop` returns; a
  client's calls take effect in its order; nothing runs after `stop`; a running
  engine answers; `stop` returns; all told, clients see a service that runs one
  request at a time;
* timestamps: a level is in the order of its timestamps, but for orders that were kept;
* log and replay: the replayed book is the recorded book, whatever line the
  recorder stopped at.

## 2. Plan

Done, in this order:

1. `OrderBook` and its runs;
2. `PriceTimePriority`, the abstract book, and `OrderBookRefinement`;
3. `OrderBookProofs`;
4. `ThreadSafeQueue`, its runs, `ThreadSafeQueueProofs`;
5. `MatchingEngine`, which composes the queue and the book, and its runs;
6. `RecordingOrderBook`, `Replay`, and `RecordAndReplay`, which composes them through
   a file;
7. `OrderClock`, the timestamp counter around the book;
8. `EngineService`, an engine that serves each request in one step between its call and its
   answer, and `EngineRefinement`, which shows that `MatchingEngine` implements it;
9. torn request lines and `replay_tool`'s exit status in the replay's modules;
10. `OrderBookPriorityProofs`, `FiniteSums` and `FillOrKillProofs`: prices, places and FOK
    orders of the book; `MatchingEngineProofs`: the engine's promises, and that it implements
    its queue and its book; `OrderClockProofs`: the timestamps; `RecordAndReplayProofs`: the
    replayed book is the recorded one;
11. the types of the log and the verdict of the replay, in `RecordAndReplayProofs`, and the
    queries, in `FillOrKillProofs`: a theorem now states every invariant of the passing runs.

To do: the refinements of `PriceTimePriority` and `EngineService`, which need facts about
concatenations that the provers cannot show by induction (section 5).

## 3. The modules

### OrderBook

`levels["BUY"]` and `levels["SELL"]` are `bids_` and `asks_`: functions from the
prices that have a level to the sequence of its orders.  The code writes every
operation twice, for the two sides; the model writes it once with a side parameter
and `Better`, the maps' comparator.  `orderIndex` is `order_index_`.  The frame of
the call in progress is `pc`, `incoming` (the by-value parameter of `submitOrder`,
counting down), `trades` and `result`.

| Code | Definition |
|---|---|
| `addOrder` | `AddOrder`, `PushBack` |
| `cancelOrder`, `eraseFromSide` | `CancelOrder`, `Located`, `Erase` |
| `submitOrder` up to the loop | `SubmitOrder`, `Refused`, `CanFullyFill` |
| one iteration of either while loop | `ConsumeMaker` (the maker is used up: `removeFrontOrder_`), `ReduceMaker` |
| after the loop | `RestRemainder`, `DropRemainder` |
| `modifyOrder`, cases 3, 1, 2 | the last three disjuncts of `ModifyOrder`; case 2 erases and enters the loop in the same step, as nothing can be seen in between |
| return to the caller | `Return` |
| `bestBid`, `bestAsk`, `totalOrderCount`, `getDepth` | `BestBid`, `BestAsk`, `TotalOrderCount`, `GetDepth` |

Sums of quantities wrap modulo `MaxUint + 1` where the code adds `uint64_t`.  Prices
are integers, because the code only compares them; timestamps, which it never reads, are
in `OrderClock`.

The book checks little of what it is given.  The constant `Discipline` says which
conventions its callers follow: `fresh_ids`, `limit_adds`, `positive_adds`,
`passive_adds`.  The tests and the benchmark follow all four.  The runs and theorems
name the conventions each property needs; `book_any_adds`, `order_clock` and
`book_duplicate_ids` drop some.  Without `passive_adds` the book can be crossed, because
`addOrder` rests what it is given and does not match.

### PriceTimeRules, PriceTimePriority and OrderBookRefinement

`PriceTimeRules` says what a call to a book has to do, without variables: a side is one list
in priority order, `Placed`, `Cancelled` and `Modified` give the lists after the call and
its answer, and what a maker gets of a taker is a formula over the quantities ahead of
it, with no loop and no index.  `PriceTimePriority` is the book that serves every call in one
step by these rules.  `OrderBookRefinement` adds two history variables (the book when the
loop was entered, the request) and the mapping: the levels of a side, best first, are
concatenated; a call is served in the step that produces its answer, and until then the
abstract book is the one before the call.

### OrderClock

The book with the constructor of `Order` around it.  The counter of `nextTimestamp` only
grows and only comparisons of its values mean anything, so the model keeps the comparisons:
`older` has the pairs of ids of which the first has the older timestamp.  `Construct` is a caller that
makes an order and keeps it (`held`); `Place` hands one over, kept or made on the spot;
`Modify` stamps again when case 2 of `modifyOrder` constructs the order it resubmits.  `late`
is a history of the orders that were kept.  order_book.hpp:37-38 says that the earliest
timestamp of a level is at its front: that holds only for callers that pass each order on
before they construct the next, which clients of the engine's queue need not do.
`OnlyLateOrdersMisplaced` is what remains: an order stands behind a younger one only if its
caller kept it.

### ThreadSafeQueue

A call is cut where another thread can see the difference: taking the mutex; the
critical section with the unlock that ends it; the notification.  `stage[t]` is where
thread `t` is.  `push` is `EnterPush`, `Enqueue`, `NotifyOne`; `shutdown` is
`EnterShutdown`, `SetShutdown`, `NotifyAll`; `pop` is `EnterPop`, then `PopItem`,
`PopNothing`, or `Block` (the atomic unlock-and-wait of `cv_.wait`), from which
`NotifyOne`, `NotifyAll` or `WakeSpuriously` leads to `Reacquire` and a new look.
`sent` and `received` are histories.

### MatchingEngine

Instances of `ThreadSafeQueue` (clients produce, the matcher consumes, the owner
closes) and of `OrderBook` (with no convention: clients may ask for anything in
`Requests`).  A request is a ticket, the client and the number of its call; its promise
and its future are `futures[ticket]`.  Clients: `Call`, `Push`, `PushReturns`, and
`ReadReturns` for the reads, which wait in `future.get()`.  Owner: `Start`, `Stop`,
`Shutdown`, `Join`, `Destroy`; a second `start` or `stop` changes nothing and is a
stuttering step; the destructor calls `stop` first, so `Destroy` follows `Join`, or
comes before `Start`.  The promises of requests still queued are broken by `Destroy`.
Matching thread: `Pop`, `Process` (the call), `Match` (the loop inside the book),
`Fulfil` and `FulfilRead` (`set_value`).

A client's call is taken to be over when the engine is destroyed, as C++ requires of
any object.  The owner is one thread.  `Pending` is what is in the queue or in hand.
`RequestsAssumption` and `BookAssumption` say that clients pass values of the
parameters' types; `Requests` may hold any of them.

### EngineService and EngineRefinement

`EngineService` is the engine as a client may think of it: a request is accepted in one step
inside the call, has its effect and its answer in one step (by `PriceTimeRules`, in the order
of acceptance), and a call returns after that; taking the service down breaks what is still
unanswered.  `EngineRefinement` maps the engine to it: a request is accepted when it enters
the queue and served when its promise is fulfilled; a history variable keeps the levels
from before the book's operation in progress, which are the abstract lists until then.  So
threads, mutex, wakeups and the iterations of the loop cannot be told from outside; in
particular a read never shows a book inside an operation (matching_engine.hpp:104-106).  The
mapping needs the clients to follow the book's conventions: `OrderIdsDiffer` keeps a
second order with the same id from being sent, and the requests have no `addOrder` that
crosses.

### RecordingOrderBook, Replay and RecordAndReplay

`RecordingOrderBook` has an instance of the book and `log`, the lines written, of which the
first `flushed` are flushed.  A call is `WriteRequest`, `FlushRequest`, `Delegate` and
`Match` (the call of `book_`), `CallReturns`, then one `LogTrade` per trade and
`FlushTrades`.  A line is a record with the request or the trade; its sequence number is
its place in the log, which the replay reads and ignores, and its price is `Printed`:
rounded to a multiple of `Grid`, as six decimals do.  `completed` is a history of the book
after each call.

`Replay` has another instance of the book.  `RunLine`, `ReplayMatch` and `LineDone` run a
request line and collect its trades; `CollectTrade` takes a TRADE line; `SkipLine` passes
one that does not parse; `Compare` counts the places where the two lists of trades differ.
`Exit` and `Refuse` are the two ways `replay_tool` ends, by that count or without a file.

`RecordAndReplay` joins them.  `OpenFile` takes what a file can hold at that moment: all
that is flushed and any part of the rest, its last line cut short, and up to `MaxDamaged`
lines that no longer parse.  A line that is cut does not parse, unless the cut is in the
number it ends with: then it parses with fewer digits (`Torn`, `Cut`).  A crash of the recorder is a
recorder that takes no further step, and the file is one it left behind; a recorder that has
not crashed finishes its call, after which the two books are compared.  One that had
not flushed its request when the file was taken has crashed.  The assumptions say that
requests have the parameters' types and that a line that was written is not the malformed one.

### MC modules

`MCOrderBookRefinement`, `MCOrderClock` and `MCEngineRefinement` add the symmetry sets;
`EngineRequests` has the requests of `MCMatchingEngine` and `MCEngineRefinement`, and
`MCRecordAndReplay` those of the log.  The other runs take their module as it is.

## 4. The runs

| Run | Instance | Shows |
|---|---|---|
| `book` | 4 ids, 3 prices, quantities 0 to 2, all conventions | `TypeOK`, `BookUncrossed`, `OnlyLiveLimitsRest`, `NoTradeThrough`, `FokAllOrNothing`, `FokRefusedOnlyIfShort`, `QueuePositionsKept`, `ImplementsPriceTimePriority` |
| `book_any_adds` | 3 ids, 2 prices; `addOrder` with crossing and empty LIMIT orders | `IndexTracksBook`, `QueriesAgree`, `OperationsReturn` |
| `order_clock` | 3 ids, 2 prices, quantities 0 to 2, crossing and empty adds; 2 orders kept at a time | `OnlyLateOrdersMisplaced` |
| `queue` | 3 producers, 2 consumers, 1 closer, 3 items, 2 spurious wakeups | `TypeOK`, `NothingLostOrReordered`, `NoLostWakeup`, `DrainedBeforeNothing`, `Delivered`, `ConsumersEnd` |
| `engine_safety` | 2 clients, 2 calls each of buy, sell, modify, best bid | `TypeOK`, `EarlyRequestsAnswered`, `ProgramOrder`, `QuietAfterStop`, `ImplementsService` |
| `engine_liveness` | 2 clients, one call each of all seven kinds | `RunningEngineAnswers`, `StopReturns` |
| `log_replay` | 4 calls out of 9 requests with 3 ids and 2 prices; a torn line and a damaged TRADE line | `TypeOK`, `ReplayFollowsRecording`, `CrashLosesNothing`, `VerdictIsRight` |

Runs that show where the code and what it says of itself part:

| Run | Violated | Disagreement |
|---|---|---|
| `book_duplicate_ids` | `LiveOrdersCounted` | order_book.cpp:83 "the index tracks every live order": not when an id rests twice |
| `book_fok_overflow` | `FokRefusedOnlyIfShort` | order_book.hpp:132-133: the sum of the preview wraps and a FOK order that can be filled is refused |
| `engine_late_reader` | `ReadersReturn` | matching_engine.hpp:127-130 "no future is left forever pending": a read that is pushed after the drain waits for ever |
| `log_rounded_prices` | `ReplayFollowsRecording` | recording_order_book.cpp:8-9 prices "parse back to the same floating-point representation": six decimals make two close prices one |
| `log_torn_request` | `NoCorruptedCall` | replay.cpp:14-16 "do NOT ... call any OrderBook method with corrupted data": a CANCEL of 12 that is cut after its 1 calls `cancelOrder(1)`. The comment's condition, `iss.fail()`, is not met by a cut number; its purpose is missed. In the shortest trace that call finds nothing, so the trace shows the call and not an effect of it |

**Bounds.** Four orders at three prices give a taker that sweeps a level and part of the
next with an order left on its own side, and two orders of a level with a third that
joins or leaves; the loop's steps depend on the best level and its front alone.
Quantities 0 to 2 give an empty, an equal, a smaller and a larger maker.  `MaxUint` (7 or 255)
exceeds every sum of the passing runs, so nothing wraps in them; `book_fok_overflow`
takes `MaxUint = 2` to make three makers wrap.  `book_any_adds` has three ids because
every quantity and crossing add multiplies the states.  Three producers and two
consumers are the fewest for which two items wait while one consumer is on its way and
another blocks.  `MaxCalls`, `MaxSpurious` and `Items` bound counters that the code does
not bound; two calls per client are needed for `ProgramOrder`, one is enough for liveness.
`engine_safety` has no spurious wakeup (`MaxSpurious = 0`), which `engine_liveness`, `queue` and
the queue's theorems have; its requests trade, rest, resubmit a modified order and fail to
find one.  `MaxHeld = 2` lets two kept orders be handed over in the other order.
Four calls of the log are enough to rest two orders, to fill both with a third, which
logs two trades, and to follow that with one more call; the requests reach every operation,
trades of a modification and a repeated id included.  Ids 1 and 12 and quantities 1, 112 and 113 give
lines that parse after they lost one digit or two.  `Cut` itself has no bound: a number may lose
any of its digits but the first.  Prices of `log_replay` are multiples
of `Grid`, as prices with at most six decimals are.
Order ids and clients are interchangeable; symmetry is used in `book`,
`order_clock` and `engine_safety`, which check no liveness.

**Deadlock** is checked in the book's runs, where a caller may always call.  The queue, the
engine and the replay may stop: all consumers ended, the engine destroyed, the file read.

**Fairness.** `OperationsReturn`: weak fairness of the running call, since nothing in the
book blocks.  Queue and engine: weak fairness of each thread's steps inside a call,
which is a scheduler that runs every thread that can run.  The mutex is not assumed fair,
no thread has to call `push`, `shutdown`, `start` or `stop`, and spurious wakeups are
never required.

The liveness properties of the queue and of the engine hold for finitely many pushes (`Items`,
`MaxCalls`), which the code does not bound.  They could not hold without: `pop` drains before it
leaves and `push` does not look at the flag, so clients that push for ever can keep
`stop()` from returning, or, as the mutex is not fair, a thread from the mutex.  It is listed as a hazard.

Every property of a passing run has a mutant: a definition of the model changed as a bug
in that code would change it (`..._Strict`, `..._Kept`, next to the definition), which
makes the run fail.

## 5. The proofs

Eight modules hold theorems.  Each theorem is about the specification that TLC checks, for
every value of its constants that satisfies the named assumptions of the modules, which TLC
evaluates in the runs, and the conditions the theorem itself names: a convention of the
book's callers, or a condition on prices.

**`OrderBookProofs`**, for any ids, prices (a set of integers whose non-empty subsets have a
least and a greatest element), quantities, integer width and discipline that contains
what each theorem assumes:

* `IndexAlwaysTracksBook`, from `fresh_ids`.  `IndexTracksBook` alone is not inductive: the
  loop's step needs that the taker's id does not rest (it was taken out of the book by
  `modifyOrder`, or is fresh), and that maps and index are functions of the right kind.
  `IndexInv` adds both and the types; each action is one lemma, and the four effects on
  the containers (push back, erase, overwrite a quantity, drop the front) have lemmas of
  their own.
* `TypeCorrect`, from `fresh_ids`: the subtraction in `Fill` does not underflow and
  `Head` is taken of a non-empty sequence, which again rests on the index invariant.
* `BookNeverCrosses`, from `fresh_ids` and `passive_adds`.  Inside the loop the book stays
  uncrossed because it only shrinks on one side; when the remainder rests, the negated
  loop condition says that the best opposite price, hence every one, is out of reach.
* `OnlyLiveLimitsEverRest`, from `fresh_ids`, `limit_adds`, `positive_adds`: the amended
  quantity is positive, the maker left by a partial fill has something left, and the
  remainder that rests is of a LIMIT order.

**`OrderBookPriorityProofs`** needs no convention but for places:

* `TypeCorrectForAnyCaller`.  With ids that rest twice the index may miss orders, so
  `ShapeInv` asks less of it: no level is empty, each order is of its level's side and
  price, and no taker is left between operations.  `Located` is then all that `Erase` and
  `ModifyInPlace` need to find their order.
* `NeverTradesThrough`: `PriceInv` adds the property itself.  A fill is at the best
  price; nothing of that side becomes better in the loop, and a remainder that rests joins
  the other side.
* `PlacesAlwaysKept`, from `fresh_ids`: one lemma for each thing that can happen to a
  deque (nothing, an order at the back, one out, a smaller quantity, the front gone), over
  `IndexInv`, which says that ids differ.  With an id that rests twice "the same order" means
  nothing.

**`FiniteSums`** and **`FillOrKillProofs`**, for any caller and any integer width.  The preview
sums quantities with `MapThenSumSet`, a fold whose order is that of CHOOSE.  `FiniteSums` shows
that the order does not matter and what a sum becomes when an element goes, changes or is
renamed.  Its inductions are over a set of subsets or of numbers that have the property, since
the library's induction theorems, which take an operator, cannot be instantiated.

* `FokFillsCompletelyOrNotAtAll`: `FokInv` adds that inside the loop the crossing makers have at
  least what a FOK taker still wants.  A fill takes the same from both, whether its maker goes
  (the sum loses a slot and the others of its level are renamed) or stays.  A
  preview that wrapped is smaller than the true sum, so it promises no more than there is.
* `FokKilledOnlyIfShortOrHuge`: a FOK order is refused only if the crossing makers are short, or
  if they offer more than `MaxUint`.  `FokRefusedOnlyIfShort` alone is false, as the run
  `book_fok_overflow` shows.
* `QueriesAlwaysAgree`, from `fresh_ids`.  `GetDepth` takes a price by its rank, one more than the
  number of better prices.  Different prices have different ranks, so among finitely many each rank
  up to their number is taken (`RankedFacts`): the depth shows each level once, and its counts are
  the lengths of the levels in another order.  `IndexTracksBook` makes the length of a level the
  number of ids indexed there (`LevelIsCounted`), and summing over levels and sides gives the index.

**`OrderClockProofs`**: `LevelsFollowTimestamps`, from `fresh_ids`.  `PlacesAlwaysKept` says who
stays in a level and in which order; what is left is who joins it, one order at a time
(`OnlyJoin`).  `ClockInv` has the index invariant and says that the stamps of the orders in
use are ordered (`IsStampOrder`), that a kept order rests nowhere (`KeptApart`), and
that the order in the matching loop, unless it was kept, is the youngest but for orders that
are kept (`TakerIsYoungest`): so it is right that it stands last when its remainder rests.

**`ThreadSafeQueueProofs`**, for any finite sets of threads and any items:

* `QueueTypeCorrect`, mutual exclusion included;
* `QueueIsFifo` and `QueueDrainsBeforeNothing`;
* `QueueLosesNoWakeup`: with the types, the counting invariant is inductive.  `Enqueue`
  adds an item and a watcher, `NotifyOne` replaces the notifier by the consumer it wakes,
  `PopItem` takes one of each, `Block` finds the queue empty.

**`MatchingEngineProofs`**, for any number of clients and calls and any requests:

* `EngineTypeCorrect`, `StopAnswersEarlyRequests`, `RequestsAnsweredInProgramOrder` and
  `EngineQuietAfterStop`.  `EngineInv` says where each thread is, in its own code and in the
  queue's, and relates what was pushed, received and answered: `ClientInv` counts what
  a client has pushed; `SentInOrder` makes that its program order; `OwnerInv` ties the owner's
  place to the flag; `MatcherInv` says that the matching thread leaves only with every early
  request received; `AnswerInv` that what was received is answered but for the one in hand.
* `EngineRunsQueue` and `EngineRunsBook`: each step of the engine is a step of its queue or
  none, and of its book or none.  So what is proved of the queue and of the book for any
  caller is proved of the engine: `MatcherMissesNoWakeup`, `EngineNeverTradesThrough`,
  `EngineFillsOrKills`.  The theorems of `ThreadSafeQueueProofs` and `FillOrKillProofs` are
  instantiated; two instances of a module are two sets of definitions, hence the `Same...` lemmas.

**`RecordAndReplayProofs`**, for any requests and any number of calls, whatever rests and
wherever the file is cut.  What the theorems say of the replay needs that the prices are multiples
of `Grid` (`PrintablePrices`; without it the run `log_rounded_prices` is a counterexample) and that
only TRADE lines are damaged (`OnlyTradesDamaged`); the last two theorems need neither:

* `ReplayAlwaysFollows` and `CrashesLoseNothing`.  The replay runs a request long after the
  recorder did, so no invariant can compare the two step by step.  What they share is that a
  call is a function of the book and the request: `Called` gives the frame after the
  first step and `Advanced` the next one in the loop, and the actions of both books follow
  them.  `Leads(x, y)` says that `y` is in the loop that starts at `x`, without a number of
  iterations, and two loops that start alike end alike (`LoopsEndAlike`), with no induction and no
  bound on the loop.  `LogInv` then has, for each call, the place of its request in the log,
  below `flushed` once the call began (`WrittenAhead`); each recorded book as the
  effect of its request on the one before (`Recorded`); each flushed request in the file
  (`FileInv`); and the replayed book as the effect of the last request run on the recorded
  book before it (`Followed`).
* `VerdictAlwaysRight` adds the trades.  `TradeInv` says that the log is one call after the other,
  each a request and the trades its loop made (`LogTrades`; `Yields` is `Leads` up to the end of the
  loop, and has one outcome), that the replay collected the trades of the requests it ran
  (`ReplayTrades`), and that it collected those of the file (`FileTrades`).  A trade at line i of the
  n-th call has place i - n in both lists.  A file that lacks lines, or has one that cannot be
  read, gives a list that is shorter than the replay's; a TRADE line that lost digits gives another
  trade at its place; so equal lists mean that the file is the log.  That a call of the recorder makes
  trades with prices of `Prices`, which are read as they were written, comes from `RecorderRunsBook`.
* `LogTypeCorrect`: `LogTypeInv` adds that the log, the file and the lists are sequences and that the
  request in progress is a request; `Requested` counts one more with each request line.
* `RecorderRunsBook`: each step of the recorder is a step of its book or none, so
  `TypeCorrectForAnyCaller` holds of the recorded book (`RecordedBookTypes`).

Four details of the models are there for the proofs: recursion only through functions and
folds, named assumptions on constants, ranks instead of a sorted sequence in `GetDepth`, and
parentheses around `SUBSET P` before a set difference, which the two parsers group differently.

**Only model-checked**, and why:

* All liveness (`OperationsReturn`, `Delivered`, `ConsumersEnd`, `RunningEngineAnswers`,
  `StopReturns`): the prover has no rule for ENABLED.
* `ImplementsPriceTimePriority` and `ImplementsService`: the mapping sorts the levels with
  `SetToSortSeq` and concatenates them with `FlattenSeq`, so a step of the mapping is a fact about
  a fold over every level, which takes an induction over data.  The second one also needs, as conditions on the requests, the
  conventions its run chooses them by.
* That the FOK preview is right when the liquidity fits (`FokRefusedOnlyIfShort` as it stands) is
  what `FokKilledOnlyIfShortOrHuge` says; the run checks it where nothing can wrap.

## 6. Not modelled

* A trade's timestamp, which is the taker's and which the replay does not compare.
* NaN prices, on which the maps' comparators are undefined, and the rounding of doubles
  other than the log's six decimals: prices are integers.
* Exceptions of allocation, `std::thread` and the promises.
* `start` and `stop` from two threads at once: a data race on two plain bools.
* The log's text, but for lines that parse after they lost digits.  Numbers outside an
  enumeration, which a foreign log could hold, and failing writes are left out: nothing says
  what the code owes then.
* Request lines damaged after they were flushed.  test_replay.cpp:215-274 says that malformed ADD
  and CANCEL lines are skipped and the rest replays without mismatches; its malformed lines stand for
  no call of a recorder, and `SkipLine` passes them so.  What the verdict is worth when the line's
  call did have an effect, nothing says.
* What `replay_tool` prints, which are the queries of the replayed book, formatted.
* The tests and the benchmark: input, output and measurement.
