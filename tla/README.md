# Specifications of crypto-trading-bot

TLA+ models of the trading program in `src/`, the TLC configurations that check them, and the
theorems TLAPS proves about them. The modules follow the Go code; every definition that stands
for code is listed with its lines in `PROJECT.json` under `map`.

## 1. The system

`cmd/web` is a process of several goroutines around one Binance futures account:

| Component | Source | State | Operations | Talks to |
|---|---|---|---|---|
| Trading loop | `cmd/web/main.go` | none of its own; the goroutine "main" | minute ticker, `runTradingAnalysis` | everything below, by calls |
| Scheduler | `internal/scheduler` | timeframe, minutes, RWMutex | `IsOnTimeframe`, `GetNextTimeframeTime`, `UpdateTimeframe` | asked by the loop, changed by the web server |
| Agent graph | `internal/agents/graph.go` | `AgentState` with a mutex | four analysts (one goroutine per symbol) and a trader | market data, executor, LLM |
| Decision parser | `internal/agents/decision_parser.go` | none | parse and validate decisions | called by the loop |
| Trade coordinator | `internal/executors/coordinator.go` | none | `ExecuteDecisionWithParams` | executor |
| Binance executor | `internal/executors/binance_executor.go` | position mode, history | orders, positions, leverage, retries | Binance |
| Stop-loss manager | `internal/executors/stoploss_manager.go` | `positions` map behind `sm.mu`, shared `*Position` objects | register, initial stop, update, close, reconcile | executor, storage; called by main and trail |
| Trailing stop manager | `internal/managers` | ATR cache; one goroutine per symbol and round ("trail") | 3-minute rounds | stop-loss manager |
| Storage | `internal/storage` | SQLite tables for sessions, positions, balances | insert, full-row update, queries | called by all |
| Web server | `internal/web` | login sessions | pages, hot reload of the interval | scheduler, storage, stop-loss manager |
| Portfolio manager | `internal/portfolio` | balances, positions | numbers for log and history | executor |
| Market data | `internal/dataflows` | none of its own | candles, indicators, reports | asked by the analysts and the trailing goroutines |
| Config, logger | `config`, `logger` | none that matters | .env, output | |

What is hard in it:

* Two goroutines, the trading loop and the trailing round, work on one position through calls
  that take `sm.mu` for some steps, hold it across exchange calls in others and do without it
  in the rest. Objects are shared by pointer, rows are written whole from copies read earlier.
* Every exchange call can fail, can take effect and lose its answer, and takes place while
  server-side stop orders may trigger.
* A decision goes through four readings of the position, each of which may be wrong or stale.
* The loop, the trailing round, the caches and the sessions run on clocks of their own.
* The process can die between an order and the row that names it, and a start rebuilds its memory
  from rows and the exchange's answer, which may belong to different moments.
* One cache time serves the ATR of all symbols, whose goroutines read and store it side by side.
* An indicator over too few candles is NaN, or a zero that nothing wrote, or a panic that no
  goroutine recovers, which ends the trading loop and the stops with it.

What makes each component correct: the stop-loss manager keeps at most one position per symbol,
moves its stop one way only, works on no position that was closed meanwhile, and lets go of a
position that is gone. The coordinator and executor never send an opening twice, report what is
true unless an error they do not recognise hides a filled order, and do not add to a position. A loop that waits misses no boundary and runs when it said. The graph
gives the trader this run's reports. A restart finds the position that exists, revives none that
is closed and comes to the right side in the end. A cached ATR is neither fetched too often nor
taken for fresh too long, unless another symbol refreshed the time they share. A value in a report is computed from enough candles or is missing.
`PROJECT.json` lists the hazards line by line, with the properties that watch them.

## 2. Modules

```
StopGuard            what stop-loss management promises
   ^ implemented by (GuardSpec)
StopLossManager      main, trail, exchange, rows   <- StopPricing (price arithmetic)
MCStopLoss           its TLC instance (VIEW)
StopLossTyping, StopLossManager_proofs
DurableGuard         StopGuard over several lives of the program   <- StopGuard
   ^ implemented by (DurableSpec)
StopLossRestart      crash, restoration, the lives of StopLossManager   <- StopLossManager
MCStopLossRestart    its TLC instance
StopLossRestart_proofs
OrderGuard           which orders a decision may send
   ^ implemented by (OrderSpec)
TradeExecution       coordinator and executor, one decision after the other
MCTrade              its TLC instance
TradeExecution_proofs
Decisions            from the model's answer to one decision per symbol (operators)
RunLedger            which rows a run may write
   ^ implemented by (LedgerSpec)
AnalysisRun          graph and trading loop, run after run, all symbols   <- Decisions
MCAnalysis           its TLC instance
AnalysisRun_proofs
TradingClock         tickers, scheduler and signals: when the two loops run
MCClock              its TLC instance
TradingClock_proofs
Indicators           the indicator series and the reports (operators)
Indicators_proofs
MarketWatch          cache of the ATR, trailing goroutines, analyst   <- Indicators
MCMarket             its TLC instance
MarketWatch_proofs
```

### StopPricing

The arithmetic of stops on integer prices (a unit is 100 USDT in the instances): direction
(`IsValidUpdate`, `Worsens`), threshold (`ShouldUpdate`), both together as `UpdateStopLoss` asks
for them (`Improves`), distance from the entry
(`ValidateStopDistance`), trailing price, default stop, and the "safe side" that
`validateStopLossPrice` and the exchange compare with the market.

### StopLossManager

One symbol (symbols share nothing but `sm.mu`, whose other users only delay a step). Variables
and code: `managed` is the symbol's entry in `sm.positions`; `pos` the `*Position` objects,
shared by whoever holds one; `db` their rows; `mu` the holder of `sm.mu` across steps; `exch`,
`orders`, `price` the exchange; `pc` and `loc` the two goroutines and their local variables
(the object at hand, the row read, the position seen). A step lies between two points where the
other goroutine can intervene, i.e. it is a critical section, an exchange call or a database
call. The actions have the names of the functions; a function that makes several calls has one
action per call (`UpdateStopLoss`, `ValidateStopLossPrice`, `CancelOldOrder`, `CheckNewStop`,
`PlaceNewOrder`, `ReadForStop`, `WriteStop` are `UpdateStopLoss` from top to bottom).
`Faults` says which calls may fail without effect, lose their answer, or fail at the database.

Two points of the code the model keeps and a reader may miss: a `Position` of the trading
loop has a `Quantity` and no `Size`, and orders are placed for `Size`; and after adopting a
position `UpdateStopLoss` reads the map a second time without a check.

`OpenDecision` and `CloseDecision` are undisturbed trades, whose outcome TradeExecution's
`SuccessIsTrue` establishes; `UnreportedTrade` is one whose answer was lost or taken for a failure.
`FillPrices` is what a trade reports as its price: the market price, or 0 when neither the answer nor
the query after it has one ("fill" in `Faults`). `InitialStop` is the proposed stop, or 2.5% away from
that price when the model proposes none.

Two things promise less than one might expect. `ClosePosition` deletes by symbol, without the lock
since it looked, so that a position registered in between is deleted instead; no property forbids it
(the code says nothing of it and does not prevent it), and `NoPanic` shows one consequence. And
`FixPosition` takes any difference of quantity for one beyond the tolerance of `ReconcilePosition`,
which quantities this far apart are.

`OwnSteps` gives for each label the number of steps to the end of its call, and `CallsBounded` says
that no step of a goroutine goes back: it is the part of `CallsReturn` that needs no fairness.
`ReconcilePosition` and `ClosePosition` return to several callers, hence `StepsFrom`.

### StopLossRestart and DurableGuard

`StopLossRestart` adds to every step of StopLossManager that the process may die there (`Crash`):
the map, the `Position` objects, the mutex and the goroutines' local variables are gone, the
exchange and the rows stay. `boot` is where `main` of `cmd/web` is on its way up and `starts`
counts its starts. `LoadPositions` registers the row that the loop over `GetActivePositions` keeps of the symbol
(`KeptRow`): the newest, unless that has no entry price and an older one has; `SyncPositionsFromBinance` registers what the exchange holds and
no row accounts for. Both come before any goroutine starts, as in the code, and both go on after an
error. `TradeByHand` changes the position while the program is down.

`DurableGuard` says what a restart may do to the promise of `StopGuard`: a crash ends the guard, and
only a start may guard a position again that was guarded before. The refinement mapping shows the
managed position with its side and stop, and takes for `used` every position ever registered.

### TradeExecution

One symbol in one-way position mode (the documentation recommends it and says that hedge mode
"has bugs"). `net` is the signed position on the exchange in steps of the quantity precision,
`lev` its leverage; `pc` is the exchange call that comes next; `seen` is the position as last
read by whoever reads it: the loop's check, the coordinator's, `SetupExchange`'s,
`ExecuteTrade`'s, the refresh of `executeSell` and the recheck after a network error.
`before` and `calm` are history: the signed position when the decision came, and whether all
readings since succeeded and no stop triggered. `Disturbances` says what may happen: a reading that
fails four times ("read"), a call that fails ("call"), an order that is filled and whose answer is lost
with an error `isNetworkError` recognises ("answer") or with one it does not ("unrecognised"), a stop
that triggers between any two calls ("stop"). The executor looks at the position again after the first
kind of error only. The second kind is the HTTP client's own timeout (`Client.Timeout exceeded`, with
a proxy) and the exchange's `Timeout waiting for response`: the search is for lower-case words.

`OrderGuard` is the same with nothing between the orders: a decision passes through the stages
"deciding", "closing", "opening" and "sent", in this order only; while closing it may send one order,
of what was held when it was taken, while opening one of the size settled before. `Stage` maps the
labels to the stages. Checks, readings, retries and lost answers are stutters or `Pass`.

### Decisions and AnalysisRun

`Decisions` holds the two places that read an answer of the language model. `Kept` is the check of
`makeLLMDecision`, which looks at one entry and hands on the answer or the simple decision;
`Parsed` is `ParseMultiCurrencyDecision`, with its JSON (`FromJSON`) and its text branch
(`FoundInText`). An answer is a record of what the two tell apart: its form, whether it is fenced,
its entries in order with the actions their reasonings name, and how far the search for a symbol
reaches. Go's random map order is a choice. The text branch is modelled for JSON in a fence and for
the simple decision, the only texts that `makeLLMDecision` hands on.

`AnalysisRun` is `runTradingAnalysis` for all symbols. Phase "graph" is the Eino graph: `started`
holds the nodes whose lambda was called, `todo` the goroutines that have not ended, `Triggered` is
`AllPredecessor` over the edges of `BuildGraph`. Reports and positions hold the number of the run
that wrote them, 0 for an empty one. The phases "save", "trade" and "record" are the loops over the
symbols that follow, with `left` the symbols still to come (a loop over a slice is taken in any
order like those over maps; nothing depends on it). `Execute` is the body of the trading loop with
an outcome for what TradeExecution models in detail; `sessions` are the rows of `trading_sessions`,
in the order of `created_at`, for which the clock is taken to be monotone. A result is the number
of the run it belongs to: `resultBuilder` makes one text of the results of all symbols.
`Crash` kills the process between any two steps; the rows remain.

`RunLedger` says what the runs leave in the table: a run appends one row of a symbol at most,
before it trades; a result goes into the last row of its symbol, and no other row is written again.
It does not say whose row the last one is: that is `ResultOfItsRun`.

### TradingClock

The trading loop ("main") and the trailing stop manager ("trail") as their tickers see them: a loop
waits, takes a tick, asks its `TradingScheduler` whether the minute is a boundary, and if so runs for
any length of time. The code divides the minute of the day by the timeframe, and so does the model:
`minute` is the minute of the local day and `slot` a part of it, which separates the start of a
minute from the moment `TickAt` at which the ticker started in its middle. `Tick` puts a tick in the
channel unless one is there; `Pass` lets time go on when nobody has something to take at once, so
that a waiting loop takes a tick in the slot in which it comes. `next` is the time the trading loop
logged last and the minute in which it said so, `NotSaid` after `UpdateTimeframe`; `begun` counts the
runs of the current minute and `held` names the loops whose interval has not changed in it: these
three serve the properties. `HandleSignal` ends both loops, since the process ends.

What the properties do not promise: a run longer than the period takes the tick of a later minute
when it ends and skips the boundaries it slept through. And a run that ends within a boundary minute
may find a tick there and run again; `AtMostTwo` is all that holds. Changes of the local time
(daylight saving, the clock being set) and a process delayed for more than a slot are left out.

### Indicators and MarketWatch

`Indicators` holds the functions of `market_data.go` that make the series and the three reports,
as to what an entry is worth: `"nan"`, `"num"` (computed from candles) or `"zero"` (left as `make`
allocated it, or computed from such an entry). That is all the reports tell apart, and it depends on
the number of candles only. `WarmUp` is the reference: how many candles each indicator takes by its
textbook definition, written without the functions. `IndexOutOfRange` is the index that the first
sum of `calculateADX` writes.

`MarketWatch` is the state around them: `cache` and `cacheTime` are `atrCache` and `atrCacheTime`,
an entry being the time its candles were fetched and the time it was stored; `pc` and `job` are the
goroutines of one round and their local variables (`cachedATR`, the ATR at hand); `analysed` is the
number of candles of the last analysis; `died` the number that ended the process. `ReadCache`,
`FetchATR` and `StoreATR` are `getATRWithCache` cut where it holds no lock. A round starts when that
before has ended (`wg.Wait()` in `updateAllPositions`). How many candles come is open: of a coin
listed lately there are few, however many are asked for.

## 3. Runs

| Run | Expect | Shows |
|---|---|---|
| `stop_faults` | pass | Long and short positions, all faults, flips of a managed position, stops moved more than once: the safety properties, the inductive invariant with the types, the refinement of StopGuard, and that no call goes back to an earlier step |
| `stop_lives` | pass | Two lives with a crash at any step, trades by hand and trades without a known price: no closed position comes back, DurableGuard is implemented; under fairness calls return, a position that is gone is released, a wrong side is put right |
| `stop_panic` | violation | The second reading of the map finds nothing: the process dies |
| `stop_unprotected` | violation | The initial stop fails and the position stays managed |
| `stop_reopened` | violation | A stale row is written over a closed one |
| `trade` | pass | All disturbances, leverages in and out of the configured range: bounded exposure, truthful reports of success, a failure that hides a position only after an unrecognised error, orders the balance carries, no pyramiding, the refinement of OrderGuard |
| `trade_reversed` | violation | A close without reduce-only after a stop opens the opposite position |
| `analysis` | pass | Two runs with failing fetches, saves and trades and crashes: the branches are joined, reports and results belong to their run, every symbol is answered, nothing is traded unasked, rows are written as RunLedger says, a run ends |
| `clock` | pass | Runs of any length, hot reload and signals: no boundary missed while waiting, two runs a minute at most, announcements kept across midnight, the loop goes on and ends on a signal |
| `analysis_fenced` | violation | A fenced JSON answer is searched as prose: one symbol is traded as another's entry says |
| `market` | pass | Two goroutines share the cache while an analyst works over any number of candles at a boundary: an ATR is fetched no earlier than its time and passes for fresh no longer, except through another symbol; indicators and reports are warmed up; only 2 to 14 candles end the process; a round ends |
| `market_short` | violation | 14 candles, as many as the goroutine makes sure of, end the process |

Each violation run checks one property, taken from a comment or document of the repository
(quoted in `PROJECT.json` under `findings`). `ManagerInv`, `LifeInv`, `TradeInv`,
`AnalysisInv`, `ClockInv` and `WatchInv` are the inductive invariants of the proofs; `TypeOK` is the
first conjunct of each.

### Bounds

* `MaxPositions` = 2: one position and the one that replaces it, which is what every race
  between close, adopt and register needs. `OpenDecision` is disabled beyond it and
  `AdoptPosition` ends like a failed call.
* `MaxOrders` = 2 in `stop_faults` and the violations: a stop is moved and moved again, so that an
  update computed from a stop that another goroutine has replaced meanwhile meets the better one
  (`RatchetStop`). It is 1 in `stop_lives`, whose questions are about the position. Beyond the bound the
  exchange refuses orders, which the code handles as any refusal.
* `MaxStarts` = 2: a life, a crash at any of its steps, a start and the life that follows, which is
  what it takes for a row, an order or a position to be met by a program that did not make it. A
  crash during a start, and any number of lives, are covered by the theorems.
* Two prices and one or two proposed stops suffice to trigger a stop, to place one on the wrong
  side and to move it: with `Prices` = {1000, 1020} and `StopDistances` = {20} the trailing stops are
  980 and 1000 for a long position, 1020 and 1040 for a short one, and the proposed stop 1010 improves
  each of them at one price. `Stops` has 0, no proposal, in `stop_reopened` and `stop_unprotected`, and
  the proofs cover it for every set of stops. `Requests` = {2} against one filled unit exercises the
  difference of quantity that `ReconcilePosition` repairs.
* `Spikes` = {980} in `stop_lives` is a price that lasts for a step: it triggers a stop, and no
  request or kline is computed from it. With one lasting price beside it the run stays small enough
  for liveness.
* `MCStopLoss!View` leaves out objects nobody can reach, orders nobody can name that have ended, and
  columns of rows that are read by a start only; it is used in `stop_faults`, which has no start and no
  liveness property.
* A step of the quantity is a tenth, worth 48 USDT at `Price` = 480. `Percents` = {1, 19, 100, 101}
  gives orders below the minimum value, orders that are rounded down and up to whole steps, the largest
  order, and a refused percentage. `MaxHeld` = 42 tenths is the largest order, at a leverage of 20,
  and twice the largest at 10: a second opening of that size would be accepted; the exchange refuses
  what is larger, as it does for want of margin. `Leverages` = {0, 5, 10, 20} has no proposal, both
  ends of a range of 5-10, and one that no such range allows, which no check on the way to the exchange
  refuses.
* `MaxRuns` = 2 and two symbols: a run and the one before it, whose rows, reports and results
  could be mixed up with it, and a symbol that fails beside one that does not. It is the only bound
  of `analysis`, which therefore stops (`CHECK_DEADLOCK FALSE`); the program does not.
* `Day` = 15 minutes of three slots, divisible by the timeframes 1, 3, 5 and 15 as 1440 is by the
  code's: a timeframe of one minute, one of the whole day, and two whose boundaries meet at midnight
  only. The trading loop ticks inside a minute, the trailing manager at its start. A signal ends the
  program, hence `CHECK_DEADLOCK FALSE`. The theorems hold for `Day` = 1440.
* `TTL` = 2 and `MaxTime` = 4 give two symbols room for an ATR that is fresh, one that has expired,
  and one stored in between. `Boundaries` is no candle, one, two, and for each indicator as many as
  it takes and one less, the numbers at which a value appears. The bound on the
  time stops the clock, not the goroutines. The theorems hold for every number of candles.
* `MCAnswers` has one answer of every kind the code treats differently: failed, no JSON, empty
  map, an entry without an action, plain maps and objects, fenced ones with each reach of the
  search.

### Fairness

`FairLifeSpec` of StopLossRestart assumes weak fairness of a start (`main` goes on) and strong
fairness of each goroutine's steps: the Go runtime runs a goroutine that can run, calls return, and
`sync.RWMutex` starves no waiter, so a goroutine that can take the mutex again and again gets it.
Crashes, trading decisions, prices, orders that trigger and failures are not fair. The run is without
faults: a call that fails for ever would keep any manager from releasing a position. Deadlock is
checked in all passing runs but `analysis`, `clock` and `market`, where it is off for the reasons
given above: the number of runs, the signal, the end of the process.

`Spec` of AnalysisRun assumes weak fairness of the steps of a run taken together: while one of its
goroutines can go on, one does. That a run begins, or that the process is killed, is not assumed.

`Spec` of TradingClock assumes weak fairness of `Pass`, `TakeTick` and `EndRun`, each loop for itself
(time passes, a waiting goroutine runs, a run ends), and strong fairness of `HandleSignal`: while
ticks and the signal are both there, Go's `select` chooses at random and so not for ever the tick.
Signals and changes of the interval are not fair.

`FairSpec` of MarketWatch assumes weak fairness of each goroutine of a round: its calls return, with
an answer or an error. That a round starts, that an analysis does, and that time passes is not
assumed.

All assume that calls return. With a proxy the HTTP clients have a timeout of 30 seconds, the
sentiment client has one of 10; the others notice a dead peer by TCP keep-alive only, and a service
that stays silent on a live connection would stop the loop. That is a hazard of its own in
`PROJECT.json` and outside the models.

## 4. Theorems

All hold for every value of the constants allowed by `StopLossAssumption`, `RestartAssumption`,
`TradeAssumption`, `AnalysisAssumption`, `ClockAssumption` and `WatchAssumption`; where a theorem
has a hypothesis of its own, it is named here with it. Section 5 sorts them by the question they
answer.

* `StopLossManager_proofs`: `Invariance` proves `ManagerInv` inductive. It adds to the types what
  the properties need: an object is at hand where a label needs one (`AtHand`); `sm.mu` is held
  exactly at the labels of the locked stretch (`LockHeld`); objects are created in order and known
  to their maker only until registered (`Created`, `PendingAlone`); the stop on its way to the
  exchange is still worth the present one, in direction and by the threshold (`StopChecked`); a row
  is marked closed, or about to be, only for an object that is out of management for good
  (`ClosedRetired`). From it: `TypeCorrect`, `UpdateHoldsManaged`, `ManagedIsOpen`, the action
  property `StopRatchets` and `Refinement`, that every step of the manager is a step of StopGuard or
  a stutter. `CallsAreBounded` goes through every label: a round calls `ReconcilePosition` and
  `ClosePosition` in its middle and goes on after them, which is why a label of these two counts,
  beside its own steps, those of the label it returns to. `ReopenedAreRetired` follows from
  `ClosedRetired`; `ExactFillsUnprotected` has an invariant of its own about the size of a position.
  `ChecksAgree` and `ValidatedIsSafe` are about the arithmetic of `StopPricing`.
  `StopLossTyping` holds the typing lemmas, one per action.
* `StopLossRestart_proofs`: `LivesInvariant` carries `ManagerInv` through any number of crashes and
  starts. `Starting` says that a start finds no goroutine at work and no entry in the map, so that
  what it registers is all there is; `RowsKnown` that a row belongs to a position registered once,
  which makes the object restored from it one that was guarded before. From it:
  `LivesManagedIsOpen`, `LivesStopRatchets`, `LivesReopened` and `DurableRefinement`. The steps of
  one life are taken from `StopLossManager_proofs` as they are.
* `TradeExecution_proofs`: `TradeInvariance` proves `TradeInv` inductive. Before the first order, the
  position is what was held or a stop has closed it; a close is of exactly what was held and against
  the decision's side, so that even a close that finds nothing leaves at most that size
  (`HeldBefore`); before the opening order there is nothing, what was held, or what was held turned
  round (`OpensOnce`); an opening order is of the size computed for the decision (`AmountSettled`).
  From it: `TradeTypeCorrect`, `ExposureBounded`, the refinement `OrdersGuarded` and
  `OrdersAffordable`. The leverage is nonzero because it is changed only on a proposal
  (`LeverageProposed`). `CalmInvariance` is a second invariant, for decisions since which no reading
  failed and no stop triggered: an opening that was let through goes against no position of its own
  side, a close is of exactly what was read, an opening order starts from nothing, and after a
  network error there is nothing or what was asked for. From it the action properties
  `SuccessHolds`, `HidingTakesUnrecognised` and `NothingAdded`; failed orders and lost answers of both
  kinds are allowed in all of them. `DecisionsEnd` counts the calls that are left, `OnlyStopsReverse` assumes
  that "stop" is not in `Disturbances`.
* `AnalysisRun_proofs`: `AnalysisInvariance` proves `AnalysisInv` inductive, for any symbols, answers and
  number of runs. `JoinInv` says what a goroutine that has ended has written and which nodes have
  ended when another has started; `RowsInv` and `NotYetWritten` that rows are in the order of the
  runs and that this run's are not there before it writes them, so that the latest row is the run's
  own if it could be saved; `DecisionInv` that results come from decisions and decisions from the
  answer. From it: `AnalysisTypeCorrect`, `TraderIsInformed`, `ReportsAreCurrent`, `ResultsBelong`,
  `TradesAreAsked` (which goes through both readings of an answer), `AllAnswered` and the
  refinement `SessionsAreLedger`. `RunsComeToAnEnd` adds the goroutines, nodes and symbols that are
  left, with cardinalities, for any finite number of symbols. `OnlyFencesMislead`,
  `OnlyFailedSavesMislead` (with the invariant `LastIsOwn`) and `OnlyAutoTrades` are the causes of
  what goes wrong, see below.
* `TradingClock_proofs`: `ClockInvariance` proves `ClockInv` inductive, for every length of the day and
  all timeframes that divide it. `NextBoundary` is the arithmetic: the next time is a boundary of this
  day or midnight, with none between. `CountInv` counts the tick still to come in this minute beside
  the one in the channel; `ServedInv` says that in a boundary minute a tick stays until it leads to a
  run; `AnnouncedInv` that the waiting loop is between its announcement and the time it announced.
  From it: `ClockTypeCorrect`, `TwoAtMost`, `BoundariesServed` and `AnnouncementsKept`.
* `Indicators_proofs`: for every number of candles, `LastEntries` says of each of the 18 indicators
  that its last entry is a number exactly when the candles suffice for it and where it may be a zero
  that stands for nothing, `SeriesEntries` which of the last ten entries a series of a report shows.
* `MarketWatch_proofs`: `WatchInvariant` proves `WatchInv` inductive, for any symbols and any time to
  live. `CacheDated` says that the one time of the cache is that of the ATR stored last, `FetchedOld`
  that the entry being replaced is still the one that was read and is old enough, because no other
  goroutine has the same symbol. From it: `FetchesAreSpaced` and `StaleThroughOthers`. With the lemmas
  of `Indicators_proofs`, for any set of candle counts: `PanicRange`, `ShortDeaths`,
  `AnalysisWarmedUp`, `ReportsDoAgree`, `LongHistoriesLive` and `OnlyFourteen`. `AloneIsFresh` takes
  one symbol, `RoundsGoForward` says that a goroutine of a round only goes forward.

### Only model-checked

Liveness, which the provers cannot reach (`CallsReturn`, `GoneIsReleased`, `SideSettles`, `RunEnds`,
`RunsAgain`, `SignalHeeded`, `RoundEnds`), and the violations. Every invariant and every other action
property or refinement of a passing run is also a theorem. Conversely, the theorems that name no
property of a run are about definitions of the model or the proof modules that TLC has agreed to
before, as an invariant or a property added to the configuration of their module; the runs keep to
what a mutation of the code can break in a few minutes.

## 5. What the theorems answer

**What can an account lose by a decision?** `OrdersGuarded`: at most two orders go out, the first of
what was held when the decision was taken and against its side, the second of the size settled
before, whatever was lost or failed between. `ExposureBounded` and `OrdersAffordable` bound it: at
most `amount` beside what was held, an `amount` worth 100 USDT at least and, up to the rounding to half
a step, no more than the balance times the leverage.

**Why does a violation happen, and what would prevent it?** A counterexample shows a way; a theorem
that it is the only one.

| Violation | Theorem | Needs |
|---|---|---|
| `trade_reversed` | `OnlyStopsReverse` | a stop that triggers while a decision is carried out; no failed reading, failed call or lost answer leads there |
| filled order reported as a failure (allowed by `OnlyUnrecognisedHides`) | `HidingTakesUnrecognised` | an answer lost with an error `isNetworkError` does not recognise; the other lost answers are made good by the second look at the position |
| `analysis_fenced` | `OnlyFencesMislead` | an answer in a fence whose search for a symbol reaches beyond its own entry, or whose reasoning names another action; without one (`ReadAlike`), `ActsAsAnswered` holds |
| result in another session (allowed by `ResultOfItsRun`) | `OnlyFailedSavesMislead` | a `SaveSession` that failed; a crash alone mixes nothing up |
| `market_short` | `OnlyFourteen`, `PanicRange`, `LongHistoriesLive` | exactly 14 candles at a trailing goroutine; 2 to 14 for a panic at all |
| stale ATR (allowed by `StaleOnlyThroughOthers`) | `AloneIsFresh` | a second symbol |
| `stop_unprotected` | `ExactFillsUnprotected` | nothing out of the ordinary: where orders are filled as requested (`Requests` = {`Filled`}), no position of the trading loop has a size or a stop order for as long as it lives |
| `stop_reopened` | `ReopenedAreRetired`, `LivesReopened` | a position that is out of management: within a life the reopened row harms nobody, it takes a restart to read it |

`OnlyAutoTrades` belongs here too: without `AutoExecute` nothing is executed.

**Does it come to an end?** That something ends needs fairness, which the proofs cannot use. What the
code itself contributes is that no step goes back, and that is proved without: `CallsAreBounded` for
the calls of the stop-loss manager (part of `CallsReturn`), `DecisionsEnd` for a decision,
`RunsComeToAnEnd` for an analysis (part of `RunEnds`), `RoundsGoForward` for a round (part of
`RoundEnds`). TLC adds under fairness that steps are taken.

**Do two pieces of code that decide the same thing agree?** `ChecksAgree`: `UpdateStopLoss` and the
calculator accept the same new stops. `ValidatedIsSafe`: a stop of valid distance passes the check of
the exchange at the entry price. `ReportsDoAgree` for the reports, `LastEntries` for the indicators.

## 6. Not modelled

* Hedge mode and the detection of the position mode, which the documentation warns of.
* The numbers of the indicators (what is modelled is whether there is one), the HTTP calls for
  funding, order book, open interest and sentiment, whose results only enter prompts, and the prompts.
  Which 1000 candles come when a range holds more is decided by the exchange.
* Reports, logs and pages. The login sessions of the web server: each operation is one critical
  section of one mutex, and the expiry is checked where a session is used.
* `cmd/main.go`, which does once what the loop does again and again; `MonitorPositions` and what only
  it calls, which the program does not start; the portfolio manager, whose numbers decide nothing;
  the balance goroutine.
* Configuration, which is read once; its values are CONSTANTS.
* Confidence, leverage, stop and reason as read from an answer (leverage and stop are constants of
  TradeExecution and StopLossManager).

What the properties leave out, although the hazard is real, and why:

* That the position deleted by `ClosePosition` is the one it looked at: see StopLossManager above.
* `GoneIsReleased` is checked without failing calls: a call that fails for ever keeps a position from
  being released, and how often calls may fail is nowhere said.
* A sized decision may be rounded up by half a step beyond what the balance carries; `Affordable`
  allows exactly that.
* The decision saved for the pages and the one executed come from two readings of the same text
  (`main.go:499` and `565`) and may differ where the order of a Go map decides; only the executed one
  is modelled.
* With several symbols an ATR may be older than 15 minutes, and signal and ADX may have zeros that
  stand for nothing; `StaleOnlyThroughOthers` and `WarmedUp` say that this is all.

Two things met while modelling are stated by no run. `README_EN.md:158` gives a range of leverages from
which the model chooses, and nothing between its answer and the exchange enforces it: a decision with
a leverage of 20 is in the state space of `trade`. And a crash between the cancellation of a stop and
the order that replaces it leaves the position without one at least until the next update.

## 7. Plan

Done, in the order in which they matter to an account: stop-loss management and its restart, the
execution of a decision, the analysis, the clocks, the market data. Proved: every safety property of
a passing run, the four refinements, and the causes of the violations. What is left:

1. The cause of `stop_panic`, as for the other violations: which calls have to meet for the second
   reading of the map to find nothing.
2. The calculator's `CalculateTrailingStop` against `ValidateStopDistance`: for which distances a
   computed stop lies on the side of the market that the exchange accepts.
3. The text branch of `Decisions`: which symbols a fenced answer can be mistaken for.
4. `TradeExecution` and `StopLossRestart` in one instance, so that a decision cut short by a crash is
   followed by the start that finds its position. Today a start finds any position (`TradeByHand`),
   which includes it.
5. Several symbols in one stop-loss instance, to show that `sm.mu` is all they share.
