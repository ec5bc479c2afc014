# DEX-Limit-Order-manager: TLA+ models, checks and proofs

The repository is a Go keeper that holds stop-loss and take-profit levels of
DEX positions, watches pool prices, and swaps a portion of a position when a
price reaches a level. `src/` below is the root of the repository's sources;
`mgr` stands for `src/pkg/positionmanager/manager.go`, `exec` for
`executor.go` beside it.

The language of all modules is plain TLA+. Levels are numbered from 1 in the
models and from 0 in the code.

## 1. Inventory

### The system's parts

| Part | Source | State | Operations |
|---|---|---|---|
| Position record | `types.go` | `Position`, `Level` (in the host's `Store`) | `IsTerminal`, `ActiveSL`, `ActiveLevels`, `PermitExpired`, the arithmetic in `executeTrigger` |
| Trigger engine | `trigger.go` | `pairs`: per pair two price-sorted slices | `Register`, `Unregister`, `UnregisterPosition`, `UpdateTriggerPrice`, `OnPrice` |
| Position manager | `manager.go` | `store`, `engine`, `execChs`, `posLocks`, `pairSubs`, `currentPermitNonce` | `Run`, `runChain`, `handlePriceUpdate`, `executeTrigger`, `OpenPosition`, `CancelPosition`, `UpdateLevel`, `AddLevel`, `RemoveLevel`, `RenewPermit`, `checkPermitExpiry`, `MarketSwap` |
| Per-position locks | `manager.go` (`positionLockMap`) | map from position to mutex | `Lock`, `Unlock`, `CleanupClosedPositionLocks` |
| Circuit breaker | `circuitbreaker.go` | `state`, `failures`, `successes`, `lastFailureTime` | `Allow`, `RecordSuccess`, `RecordFailure` |
| Executor | `executor.go` | `nextNonce`, `nonceInit` | `acquireNonce`, `rollbackNonce`, `resyncNonce`, `executeSwap`, `activatePermit`, `waitForReceipt` |
| Pair subscription, life of a chain | `manager.go` (`Run`, `runChain`, `ensurePairSubscribed`) | `pairSubs`, `execChs`, `subWg`, price goroutines | `Run`, `runChain`, `subscribePair`, `ensurePairSubscribed` |
| Pool price feed | `pricefeed_uniswapv3.go` | subscriber lists, poll loops, cached price | `Subscribe`, `Latest`, `Close`, `pollLoop` |
| Dual price feed | `pricefeed_dual.go` | the same, and the last quote of OKX, its source and its age | `Subscribe`, `Latest`, `Close`, event listener, fallback poll, watchdog, OKX poller |
| RPC rate limiter | `ratelimiter.go` | token bucket | `Wait`, `Allow` |
| Permits | `permit.go`, `manager.go`, Permit2 | permit of a position, Permit2's allowance and nonce | `ValidatePermitForPosition`, `activatePermit`, `RenewPermit`, EIP-712 hashing |
| Amounts and fees | `executor.go`, `fees.go` | none | `computeMinAmountOut`, `computeFeeResult` |
| SwapExecutorV2 | `contracts/` | roles, pause, fee cap | swap, permit activation |
| Store, chain, host | external | database, account nonces, calls | used through interfaces |

### How they interact

One goroutine per (chain, pair) receives price updates from the feed, calls
`OnPrice`, which *removes* what fires from the engine, and sends one event per
removed entry into the chain's bounded channel. `ExecutorWorkers` goroutines
take events and run `executeTrigger`: lock the position, read it from the
Store, check that the level is still active, ask the circuit breaker, handle
the permit, swap on chain and wait for the receipt, write the record back with
retries, unregister what was cancelled, move the stop-loss, report to the
host. Every failure before the swap registers the trigger again. CRUD calls
come from host goroutines and **do not take the position lock**; all of them
but `OpenPosition` read the record, change the engine, then overwrite the
record. A ticker goroutine suspends the levels of expired permits the same way.

### What is hard, and what makes each part correct

| Part | Hard behaviour | Correct when |
|---|---|---|
| Trigger execution | a level's trigger may be registered more than once (after a restart, by a CRUD call); events wait in a channel while the record changes; a send fails though the node has the transaction; persist fails; the process dies between swap and persist | no level is swapped twice unless the record of a swap was lost; what is sold and what remains add up; the host hears only of recorded executions; no active level is left without a trigger |
| CRUD, expiry monitor | lost updates against a worker and each other, in both directions | a terminal position stays terminal unless such a call overlapped something; a level is forgotten only then, or after a failed Store call |
| Channel, locks, workers | price goroutine blocks on a full channel while workers wait for one position | every event is dealt with, every mined swap is reported |
| Position locks | a sweep deletes mutexes in use; one chain's list used for all chains | executions of a position are serialized, no `Unlock` fails, only terminal positions' mutexes go |
| Circuit breaker | results arrive long after their call was admitted | trips at the threshold and not before, stays quiet, closes after enough successes without a failure |
| Nonces | senders take nonces under a lock and send outside of it; rollback and resync meet other senders | no gap, no reuse; every sent transaction gets a receipt |
| Pair subscription | `OpenPosition` on any goroutine while `Run` starts, serves and stops; maps written without their lock; `Subscribe` fails or the feed closes | at most one price goroutine per pair; none missing; no trigger lost between engine and worker; `Run` returns when its context ends |
| Permits and amounts | allowance and nonce are shared by an owner's positions; activations and swaps are mined after the keeper gave up; renewals, level changes, cancellations and the expiry monitor write records back without the lock; fee and minimum are computed on two sides | "activated" means activated on chain; a spent permit has a known reason; the allowance covers what remains; a swap at the trigger price goes through; fees reported are fees collected |
| Dual price feed | three goroutines publish into one price, logs are lost or late, generations overlap, OKX stands in for the chain | one generation while there are subscribers; a subscriber ends with the cached price, which becomes the pool's; what is called confirmed by OKX is near its quote; old generations end |
| RPC rate limiter | several goroutines refill one bucket lazily and wake for one token | never more than burst plus inflow; somebody always proceeds |
| Pool price feed | a loop publishes without the lock while subscribers leave and the feed is closed; slow subscribers; a new loop beside a cancelled one | one loop exactly while there are subscribers; a subscriber ends with the latest price; no older price replaces a newer one; `Close` returns |
| Trigger engine | splicing, binary search, duplicates, equal prices | slices stay sorted and hand out exactly what fires |

`PROJECT.json` lists every hazard at its line, with the property that is about
it or the reason why there is none yet.

## 2. Modules

| Module | Contents |
|---|---|
| `Position` | the record, level statuses and the pure computations on them |
| `Triggers` | the engine as a bag of entries: `Registered`, `Unregistered`, `Fires`, `Fired`, `Kept`, `EmittedBefore` |
| `TriggerBag` | abstract specification of the engine: a bag and the events the last call handed out |
| `TriggerEngine`, `TriggerEngineProofs` | the sorted slices of `trigger.go`; refines `TriggerBag` |
| `PositionManager` | price goroutine, channel, workers, CRUD, permit monitor, restart, on one chain and one pair |
| `PositionManagerProofs` | type correctness and safety theorems of `PositionManager` |
| `PositionLocks`, `PositionLocksProofs` | the lock map, references to mutex objects, the sweep |
| `CircuitBreaker` | the breaker with late results |
| `NonceManager` | the nonce counter, senders, the node's pool |
| `UniswapV3PriceFeed`, `UniswapV3PriceFeedProofs` | subscribers, poll loops, channels and `Close` of the pool price feed |
| `DualPriceFeed`, `DualPriceFeedProofs` | listener, fallback, watchdog and OKX poller of the dual price feed around one cached price |
| `PairSubscription`, `PairSubscriptionProofs` | `Run`, `runChain` and `ensurePairSubscribed`: who starts a pair's price goroutine, channel and shutdown |
| `PermitExecution`, `PermitExecutionProofs` | positions of one owner, the contract and Permit2: activation, swaps, every call that writes the record back, fees and slippage in the units of both tokens |
| `RateLimiter` | the token bucket |
| `GuardProofs` | the theorems of `CircuitBreaker`, `RateLimiter` and `NonceManager`, through which every transaction passes; the breaker's and the limiter's specifications have names of their own (`BreakerSpec`, `LimiterSpec`) so that one module can extend all three |
| `*MC` | instances for TLC |

`Position` and `Triggers` are shared: `PositionManager` composes them with the
manager's goroutines and uses the bag of `Triggers` where the code has sorted
slices. The refinement `TriggerEngine => TriggerBag` (run `TE`, theorem
`EngineIsABag`) is what justifies that. `PositionManager` takes the lock as given (`posLock`);
`PositionLocks` shows when that is so: until a sweep deletes a mutex in use.
In the same way the circuit breaker is an environment in `PositionManager`
(fault `circuitOpen`), and the nonce counter an environment (`swap`,
`sendAccepted`). `PairSubscription` shows what `PositionManager` assumes of
its only price goroutine and its channel: there is never a second one for a
pair, and an event put into the channel is not lost. `PermitExecution` takes
the lock and the single execution per position from `PositionLocks`, and keeps
of the levels only their number.

Several modules define an unused variant of an operator just before it, with a
comment that calls it the mutant: a plausible slip in that piece of code. They
serve mutation testing: for each property of a passing run `PROJECT.json`
names one that breaks the property under that run's own configuration.

### PositionManager and the code

A goroutine's step ends where another one could interfere: at the position
lock, a Store call, an engine call, the chain.

| Action | Code |
|---|---|
| `OnPrice`, `Dispatch` | `handlePriceUpdate`: engine call, then blocking sends in order |
| `TakeEvent`, `LockPosition`, `Load`, `Allow` | start of `executeTrigger`: `Store.Get`, terminal and status checks, `GetFee`, breaker |
| `PermitIsExpired`, `SuspendLevel`, `SaveSuspension` | the branch of an expired permit |
| `PermitIsActivated`, `ActivatePermit`, `SaveActivation` | on-chain activation |
| `SubmitSwap`, `SwapMined`, `SwapReverted` | `executeSwap`: send, receipt |
| `PersistFill` | `storeUpdateWithRetry`; a fault is the failure of all its attempts |
| `RetireLevel`, `ReportExecution` | unregistering, stop-loss move, `OnExecution`, deferred `Unlock` |
| `SavePosition`, `CancelPosition`, `UpdateLevel`, `AddLevel`, `RemoveLevel`, `RenewPermit`, `SuspendExpired` | the part of each CRUD call, and of the expiry monitor, up to its first engine call |
| `ApplyToEngine`, `OpenReturns`, `SaveCall` | their engine calls one by one, and the final `Store.Update` |
| `ListActive`, `RegisterListed`, `StartRun` | `Run`: read the open positions; register their levels one by one, with calls of `OpenPosition` between them; start the goroutines |
| `Crash` | the process dies; any subset of the transactions in flight is mined all the same |

History variables (`swaps`, `moved`, `reported`, `lost`, `raced`, `missed`)
are read by properties only. `lost` collects levels whose record of a swap is lost, at the
four places where that can happen: a send that failed but was taken
(`SubmitSwap`), a persist that failed for good (`PersistFill`), a crash between
transaction and record (`Crash`), and a CRUD write over a "triggered" mark
(`SaveCall`). `raced` collects positions on which, since the keeper was
started, a call of the host or the monitor had read the record and not yet
written it back while an execution or another call had read it too; `missed`
those on which since then `Store.Get`, `GetFee` or a `Store.Update` failed
with an early return. A restart registers what the Store says and empties both.

### UniswapV3PriceFeed and the code

One pair. A step is a critical section of `mu`, one non-blocking send, or one
chain call: `Subscribe`, `removeSub` and `Close` are the methods of these
names; `Poll`, `Publish`, `Send`, `SendingEnds` and `LoopEnds` are `pollLoop`
from its `select` over the chain call, the cached price and the copied
subscribers back to `select`. A cancelled loop goes on where it is, as in the
code, until it next takes `ctx.Done()`. `missed` and `raced` are history:
who was not sent the latest price, and whether two loops overlapped.

### DualPriceFeed and the code

One pair. A generation is what the first `Subscribe` of a pair starts and the
departure of the last subscriber cancels; the fallback and the listener are
one goroutine (`runSwapListener`), the watchdog another. `Subscribe`,
`removeSub`, `Close` and `Cache` (with `Publish` and `TakeLog`) are critical
sections of `mu`; `Dial`, `PollFallback` and `ReadIfStale` are chain calls;
`Send` is the sends of one `publishPrice` together, since nothing the
properties look at distinguishes an interruption between two of them. The
buffer of a subscriber is not counted: a send may find it full at any time.
`by`, `missed`, `overtaken` and `quoted` are history. `OKXPoll` stores every
quote, also one that is not positive, and compares the positive ones only.
`ChainFails` may or may not take the event subscription down with it.

### PairSubscription and the code

One chain. `OpenPosition` is cut where its goroutine releases or takes a lock
or a Store call returns: `Save`, `registerPositionTriggers`,
`ensurePairSubscribed` (one critical section up to the call of
`PriceFeed.Subscribe`), `SubscribeDynamic`. `Run` is `StartRun`, `ListActive`,
`BeginMarks`, `EndMarks` (its unlocked writes of `pairSubs`); `runChain` is
`StartChain`, `SubscribeInitial`, `AllSubscribed`, `CloseChannel`. A price
goroutine is `OnPrice`, `Dispatch`, `NextUpdate`, `FeederEnds`; a worker
`TakeEvent`, `executeTrigger`, `WorkerEnds`. `crashed` is the end of the
process by the Go runtime: a concurrent map access, or a send on a closed
channel. `early`, `late`, `unfed` and `dropped` are history: the reasons the
properties allow.

### PermitExecution and the code

Positions of one owner and one token. An execution is `Execute` (the Store
read and the expiry check), then `SaveSuspension`, or `SendActivation`,
`ActivationMined`, `SaveActivation`, then `SendSwap`, `SwapMined`,
`PersistSwap` and `ReportSwap`; between any two of them other positions, the
clock, crashes and the calls without the lock move. Those are `RenewPermit`,
`UpdateLevel`, `AddLevel`, `RemoveLevel`, `CancelPosition` and the expiry
monitor (`SuspendExpired`): each reads the record (`ReadForUpdate`) and later
writes the whole of it (`SaveRenewal` for the first, `SaveCall` for the
others), or fails (`CallFails`). `spent`, `unrecorded` and `unreported` are
history: a write that takes an activation, a renewal or a fill back
(`Outdated`) puts its position into the first two; a report is lost only when
the process dies before `ReportSwap`, the persist fails, or the keeper had
given up on the swap.

`PermitAccepted` and `SwapAccepted` are the contract and
Permit2; they are evaluated when a transaction is sent, because `EstimateGas`
runs it, and again when it is mined. `Orphan` and `Crash` leave a transaction
that `LateMined` may mine at any later time. `sound` stands for the signature
check, which the keeper and the contract make alike. `Worth` is the conversion
of an amount by price, 10^8 and decimals, with its floor;
`computeMinAmountOut` applies the slippage to it, with a second floor.

### RateLimiter and the code

Time is relative: `elapsed` since `lastTime`, and `timer` of each
`time.After`. `Grant` and `Sleep` are the two outcomes of the critical section
of `Wait`, `Allow` is the method of that name. `meter` is history: a leaky
bucket that rises with each token and falls with the rate, so that its
height is the largest excess of tokens over inflow in any period up to now.

## 3. Runs

Every failure kind is switched on by `Faults` and counted against `MaxFaults`;
`OnlineOps` and `OfflineOps` say which host calls are made while the keeper
runs and while it is down.

| Run | Shows | Bounds |
|---|---|---|
| `PM_race` | `DoubleSwapOnlyIfRecordLost`, `SizeConserved`, `ReportedIsRecorded`, `ActiveLevelWatched`, `TerminalStaysTerminal` while a call of any kind, before or after `Run` was called, or the expiry monitor meets two workers, and `Get`, `GetFee`, the breaker, an activation, a swap, an `Update` or the process fails, or a refused transaction is mined | one position, with a stop-loss and a take-profit that moves it or with a stop-loss under a permit that expires; two prices; one call or suspension by the monitor; one failure; a clock of two instants |
| `PM_live` | `EventsAreHandled`, `SwapsAreReported` under fairness | channel of capacity one, two levels that fire together and cancel each other; one failure of a swap, `Get`, `GetFee` or an open breaker |
| `TE` | slices stay sorted and implement the bag, duplicates and equal prices included | two positions of two levels, three entries |
| `CB` | the breaker opens with the failure that reaches the threshold and with no other, is quiet for the timeout, and closes only when the latest outcomes of anybody are successes and the latest failure is old, with late results | three workers, time 0..7, runs of failures up to 5 |
| `CB_trial` | a violation: three calls are on trial in half open, where the comment of `HalfOpenMaxAttempts` allows two (finding in `PROJECT.json`) | as `CB` |
| `NM` | no gap, no reuse, receipts arrive, unless the counter was changed under another sender | three senders, four nonces |
| `UF` | one poll loop exactly while there are subscribers; a subscriber gets the cached price, or one of the four reasons in `UpToDate` holds; no older price replaces a newer one unless loops overlap; only open channels are copied; `Close` returns | two subscribers, two loops, two prices, a pool that moves twice, channels of capacity one |
| `DF` | one generation exactly while there are subscribers; a subscriber gets the cached price, or a reason in `UpToDate` holds; each goroutine publishes the pool's prices in order; a confirmed price is near OKX's last positive quote or 16 bits away; the cached price becomes the pool's; old generations end | two subscribers, two generations, a pool of two prices that moves twice, OKX quotes of zero and of 60 times the lower price (so that 16 bits wrap), eight units of events |
| `PS` | at most one price goroutine per pair; the pair of an open position has one, but for three reasons; no trigger is lost on its way to a worker; the process crashes in two ways only; `Run` returns | two positions of one pair, either of them in the Store from before or not; one worker, channel of capacity one |
| `PX` | an "activated" record is activated on chain; a permit spent without a record has a known reason; the allowance covers what remains of the position; the trigger price of a long position is not refused for the roundings when the fee is within the slippage and that within 100%; fees reported are fees collected, position by position, unless the report was lost | two positions of one owner and two levels, permits of two nonces, amounts and deadlines, two fee rates (one above the contract's cap, one whose referrer's share is above the whole), units of four and one in place of the powers of ten so that both floors cut, one call of any kind, suspension by the monitor or market swap, one fault |
| `RL` | burst plus inflow is never exceeded; somebody gets a token again and again | four callers, three tokens, two thirds of a token per unit of time; deadlock checked |
| `PL` | executions are serialized, waiters get the lock, unless a sweep deleted a mutex in use | two positions, two chains, two workers, three mutexes, two sweeps |

Why the bounds suffice: a double execution needs two events of one level (two
registrations), two workers and one overwritten or failed write; each of these
happens in `PM_race`. So does every exception of `ActiveLevelWatched` and
`TerminalStaysTerminal` but the overlap of two calls, which needs a second
caller; the theorems have any number of them. A channel of capacity one is the
smallest that can be full while both workers wait for the same lock. Three
workers are one more than `HalfOpenMaxAttempts` and `MaxFailures`; three
senders let two fail while a third sends. Two loops and two moves of the pool
let a cancelled loop publish an old price after its successor's newer one; a
channel of capacity one is full after one price. In `DF` two moves and one
failure let a log of the first move wait while the second one is read after a
redial. In `PS` the race for a mark takes two calls of `OpenPosition` and
`Run`; further pairs share only the lock, the channel and the workers. In `PX` two positions are what it takes
to replace each other's allowance, one fault to lose a record or orphan a
transaction, and the rest of the run to be hurt by it. `CHECK_DEADLOCK FALSE` is given where
the bounds (clock, calls, faults, nonces, sweeps, moves) let the instance stop; `TE` and `RL` are checked for deadlock.

Fairness: the Go scheduler runs every goroutine that can run (weak fairness of
worker and caller steps and of `Dispatch`); `sync.Mutex` hands the lock to a
starving waiter (strong fairness of `LockPosition`); a submitted transaction is
mined or reverted, and `waitForReceipt` polls for it; `select` picks at random
among what is ready, so a cancelled poll loop sees `ctx.Done()` although its
ticker may fire again and again (strong fairness of `LoopEnds`). In `DF` the
goroutines of a generation and the clock (`Age`) proceed; in `PS` so do `Run`,
the calls of `OpenPosition`, price goroutines and workers, and a `select` whose
context has ended finds that in the end (weak fairness of `FeederEnds`, which
stays enabled). In `RL` time passes and `Wait` proceeds. `PX` has no liveness
property: whether a position is ever executed is up to chain and user. Nothing obliges the feed
to report a price, the host to call, or the environment to fail.

### What the models show beside the properties

`DoubleSwapOnlyIfRecordLost`, `SoundUnlessRaced`, `SerializedUnlessSwept`,
`OpenPairsFed`, `CrashOnlyIfLate` and `SpentOnlyIfLost` say that the listed way is the *only*
way a promise is broken. The unconditional promises stand beside them in the
modules; adding one to the run's configuration shows a trace in seconds:

| Promise | Add to | What the code does, and what it says |
|---|---|---|
| `NoDoubleSwap` (`PositionManager`) | `PM_race` | `Run` registers again what an `OpenPosition` in progress has registered, and when the record of the first swap is lost (a send that failed though the node took it, a persist that failed for good) the second event swaps the level again and succeeds; so does a restart after it; mgr:581-582 says "the swap will fail on-chain (tokens already moved), which is safe" |
| `NoGap` (`NonceManager`) | `NM` | two failed sends rolled back in the order of their nonces leave a gap; exec:238 says "so the next call reuses it" |
| `NoUnlockFails` (`PositionLocks`) | `PL` | a sweep during the execution that closes a position makes its `Unlock` panic; mgr:1022 says "Safe to call concurrently with Run()" |

More that a maintainer should know of; it explains restrictions in the runs
and exceptions in the properties:

* `CancelPosition` does not take the position lock (mgr:812): a worker that
  loaded the record before writes its copy over the cancellation, and the
  position is partially closed again; the expiry monitor's write (mgr:1161) and
  every other call bring a closed one back in the same way. These overlaps are
  `raced`, and `TerminalStaysTerminal` says that there is no other way.
* `UpdateLevel` during an execution overwrites the record of the swap and
  registers a fresh trigger, and the level is swapped again (`SaveCall` puts
  the level into `lost`; without that `PM_race` fails).
* `UpdateLevel` while an event of the level is queued: the event is executed,
  at a price that does not fire the moved trigger. `executeTrigger` compares
  the status only (mgr:327).
* A `Store.Get` or `GetFee` that fails returns without registering the trigger
  again (mgr:346), as every other failure before the swap does: nothing watches
  the level until a restart. The same is so of a persist that failed for good
  (mgr:573), of a suspension whose `Update` failed (mgr:388) and of a call whose
  `Update` failed after its engine calls (mgr:839); these are `missed` in
  `ActiveLevelWatched`.
* `AddLevel` and `RenewPermit` register before they write: an event that comes
  in between finds no active level and is dropped, and nothing watches the
  level then (an overlap, hence `raced`).
* The sweep takes the open positions of one chain at a time and collects every
  tracked position outside that list (mgr:1037): with two chains it deletes
  all mutexes (`CollectTerminal`).
* Half-open admits every call; `HalfOpenMaxAttempts` is the number of successes
  that close the breaker, not of trials as its comment says
  (circuitbreaker.go:39, run `CB_trial`). Late successes of calls admitted
  earlier count towards it.
* `pollLoop` copies the subscribers under its lock and sends after it
  (pricefeed_uniswapv3.go:277-289): a subscriber whose context ends in between,
  or `Close`, closes the channel and the send panics (`Send`).
* A price that a full channel drops, or that was published before somebody
  subscribed, is not sent again until the pool's price changes
  (pricefeed_uniswapv3.go:271): the disjunct `s \in missed` of `UpToDate`.
* When the last subscriber leaves and another one comes, the cancelled loop may
  still read and publish beside the new one, and an older price may replace a
  newer one until the next poll (`raced` in `NewestWins`).
* A position opened after `ListActive` and before its chain is ready gets no
  price goroutine: `ensurePairSubscribed` returns (mgr:273) and `Run` has
  already listed the Store (`early` in `OpenPairsFed`). The comments say
  "triggers will be picked up when Run initializes" (mgr:258) and "Safe to call
  from OpenPosition after Run has started" (mgr:253).
* `Run` writes `pairSubs` and its inner map without `pairSubsMu` (mgr:134-154),
  which `ensurePairSubscribed` reads under it: Go's runtime may end the process
  with "concurrent map read and map write" (`ConcurrentMapRead`).
* A failed `Subscribe`, or a feed that closes its channel, leaves the pair
  marked (mgr:230, mgr:245, mgr:278): no later `OpenPosition` subscribes it again.
* `OpenPosition` after the context has ended starts a price goroutine that may
  send on the closed execution channel (mgr:224, mgr:297).
* Two positions of one owner that sell one token share Permit2's allowance and
  nonce, so the second activation replaces the first's amount, and permits
  signed with the same nonce shut each other out (`holder` and `usedBy` in the
  properties of `PermitExecution`). The README of the repository says
  "per-position amount caps" (README.md:247).
* An activation that was mined but not recorded makes every later execution of
  the position revert until `RenewPermit`, which itself validates nothing
  (mgr:1066). So does an activation that a call or the expiry monitor has
  written over with the record it read before (`spent`).
* `OnExecution` comes after the persist and is not repeated: a process that
  dies between the two (mgr:573-606) never reports the swap (`unreported`).
* A fee above the contract's 5% is refused for ever; a fee above the slippage
  makes the swap at the trigger price revert, because the minimum is computed
  from the gross amount (exec:532).
* `publishPrice` of the dual feed also stores a price of OKX as `onChain`
  (pricefeed_dual.go:406); the poller then compares OKX with itself and says
  "onchain+okx". A cancelled watchdog's read fails because of its context, and
  it publishes OKX's price to the subscribers of the next generation.
* `computeDeviationBps` cuts to 16 bits (pricefeed_dual.go:553): a quote about
  656% off counts as equal (`d > 65535` in `ConfirmedByOKX`).
* A waiter of the rate limiter may starve while others are served, and a rate
  or burst of zero never grants.
* Both slices of the trigger engine are ascending; the comment on the below
  slice says descending (trigger.go:31). `EmittedBefore` is the order that
  results.

## 4. Proofs

All theorems are for arbitrary constants that satisfy the named `ASSUME`s:
any positions, level slots, prices, workers, callers, plans, failure kinds and
bounds.

**PositionManager.** `TypeCorrect` is the type invariant.
`Inductive` proves `IInv`, from which `NoUnexplainedDoubleSwap`
(`DoubleSwapOnlyIfRecordLost`) and `HostHearsOfRecorded`
(`ReportedIsRecorded`) follow. `IInv` is the type invariant and

* `LockInv`: a worker between `Store.Get` and its return holds the position's
  lock, so at most one worker has a live copy of a record;
* `CopyInv`: that copy has the level active until the swap is mined and
  "triggered" after, and it knows of every swap of the position that is not
  lost. This is what a CRUD write may break, and then the level is in `lost`;
* `RecordInv`: a swap that is not lost was made once and is "triggered" in the
  Store, or its worker is about to write it;
* `ReportInv`: reports count at most the swaps, strictly fewer while an
  execution is under way;
* `SaneInv`: a record that was never saved has no triggered level, so
  `OpenPosition` erases nothing.

The safety property alone is not inductive: without `CopyInv` a worker could
hold a copy that misses an earlier swap and swap again.

`SizesAddUp` is `SizeConserved`, from `SizeInv`, which adds to `IInv`

* `OwnerInv`: the holder of a lock executes on that position, so a mined swap
  is counted for one position only;
* `SharesInv`: no level sells more than the whole, and of a position that was
  never saved all remains;
* `SoundInv`: every record of a position that a goroutine may yet write, or
  that is in the Store, marks only swapped levels, and if it marks all of them
  its `RemainingSize` is right. A stale copy need not know of every swap, but
  then writing it erases a mark and the level is lost.

`SizesAddUp` has a hypothesis, `PortionsAreShares`, that the other theorems do
not need: `AddLevel` takes any portion (mgr:857), and one above 10000 basis
points sells more than remains, which the clamp of `RemainingAfter` hides.

`TerminalStays` (`TerminalStaysTerminal`) and `LevelsStayWatched`
(`ActiveLevelWatched`) have no hypotheses: all calls of the host, the monitor
and all failures are in. Their exceptions are in the properties, `raced` and
`missed`, and the code breaks both promises in those cases, as section 3 lists.

* `OverlapInv` is `IInv` with `FeedInv` (events exist only while the keeper
  runs), `HostInv` (what a call has yet to do to the engine), `AloneInv` (on a
  position that was not raced a call has the record for itself) and `LivingInv`
  (what is executed or changed is open, in the copy and, unless raced, in the
  Store). From it a step that writes over a terminal record is impossible on a
  position that was not raced.
* `WatchInv` adds to it `FreshInv` (what a worker's copy is of the record in the
  Store, at each place: the same, the same with the permit activated, or a fill
  of it), `CallCopyInv` (an active level of a call's copy is the Store's, has yet
  to be registered, or is in the engine or on its way) and `CoverInv` (an active
  level is registered as the Store has it, or an event of it is on its way, or
  `Run`, `OpenPosition`, a worker or a call is in the middle of changing it).
  `CoverInv` also speaks of the time between `ListActive` and `StartRun`.
  Without `FreshInv` a worker could write back a level whose trigger is gone,
  without `CallCopyInv` a call could.

The proof goes through the kinds of steps (`WorkerKinds`, `CallKinds`,
`CallerKinds`, `NextKinds`): what each of them does to the Store, the engine and
the goroutine, stated once and used by every invariant.

**CircuitBreaker.** `ThresholdInv` ties `failures` to the failures in a row
while closed, and `successes` in half open to the successes that anybody recorded
since the latest failure, which is `ResetTimeout` old; the three properties
follow step by step. `ClosesAfterQuiet` looks at the outcomes themselves
(`goodInRow`, `failedAt`), not at the counters.

**NonceManager.** `Ahead`: the counter is ahead of every nonce in use; before
the first use the pool is contiguous, so `PendingNonceAt` is right.
`NonceSound` is `SoundUnlessRaced`.

**PositionLocks.** Until a sweep deletes a mutex in use, the map is injective,
every goroutine's reference is the map's entry, and the mutex of a running
execution is locked and belongs to no other. `LocksSerialize` is
`SerializedUnlessSwept`.

**UniswapV3PriceFeed.** `IInv` adds to `PolledIffSubscribed` and `UpToDate`
that loops not yet started are at "none" and at most one runs unless two
overlapped (`LoopInv`), that a subscriber's channel is open (`ChanInv`), and
that what a loop has read is a past price of the pool, no older than the cached
one, and equal to it while it is sent (`QuoteInv`). Without `QuoteInv` neither
`UpToDate` nor `NewestWins` is preserved by a step. `CopySafety` is
`CopiesOnlyOpen`, which needs `ChanInv`.

**PairSubscription.** `OneFeeder` alone is not inductive: a step that starts a
price goroutine must know that the pair has had none. `IInv` says so:
`BeforeReady` (nothing is subscribed before the chain is ready), `MarkInv`
(a pair is marked before it is subscribed and only one goroutine is about to
subscribe it, which has not happened yet), `OneGoroutine` (a pair has never
had two), `MarkedIsFed` (a marked pair has its goroutine, will have it, or
lost it) and `OpenIsKnown` (the pair of an open position is marked, will be
listed, or the position came early). The last two give `OpenPairsAreFed`. `IInv` was checked with TLC before.
`TriggersAreKept` (`NoTriggerLost`) needs `NothingForgotten`: a position is
known to nobody before it is saved, and a price goroutine that selects has
sent all its events, so the next update overwrites none. `CrashTakesALateStart`
(`CrashOnlyIfLate`) needs `ClosedAfterAll`: the channel is closed after every
worker and every price goroutine that `subWg` counts has ended, so one that
runs then was started too late. This needs a worker (`Workers # {}`), as
mgr:180-183 sees to.

**DualPriceFeed.** `GenInv` (all generations but the active one are cancelled,
and there is one exactly while there are subscribers) gives
`ListenersFollowSubscribers`. `DeliveryInv` gives `SubscribersAreUpToDate`:
only the goroutine that published the cached price can still bring it to a
subscriber that has it not. `ConfirmationIsTrue` is inductive with the
types; its point is the cut to 16 bits, `MaxDeviation` below 65536 (a
`uint16` in the code), and that a quote of zero, which is stored but not
compared, leaves a confirmation by an earlier quote standing. `OneGoroutineStaysInOrder` is the action property
`OlderOnlyFromAnother`, from `OrderInv`: what is read is a past price of the
pool, the logs of a generation are in order, and the goroutine that published
the cached price has none older in its hands.

**RateLimiter.** `MeterInv`: what has been taken in excess and what the bucket
would hold if it were filled now are together at most the burst. It is
preserved by a look that grants, by one that does not, and by time;
`WithinRate` alone is not, as a full bucket beside a full meter shows.

**TriggerEngine.** `IInv` is that each slice is a sequence of entries of its
own side and ascending. `SlicesStaySorted` is `Sorted`, one operation at a time:
`insertSorted` puts an entry where `sort.Search` finds the first dearer one, and
a removing loop or a cut keeps the order of what it keeps. `EngineIsABag` is
`ImplementsBag`: `Init` maps to the empty bag and every operation to the
operation of that name of `TriggerBag`. It rests on three groups of lemmas:

* `SearchFinds`: over an ascending slice the binary search has exactly one
  boundary, all entries before it fail the predicate and all from it on meet it.
  That is why `Sorted` is part of the invariant: on an unsorted slice `OnPrice`
  would hand out the wrong entries (`OnPriceSeparates`);
* `CompactedPlaces`: a removing loop moves the n-th entry it keeps to index n,
  so it maps the kept indexes one to one onto the new slice, keeps every copy of
  the other entries and no copy of those removed;
* `CopiesOf...`: how inserting, cutting and appending change the number of
  copies of an entry, from which the bag of both slices follows.

`Search` and `Compacted` are stated without recursion for this proof: what the
loops return is said by the boundary and by the number of kept entries before
an index, and is the same.

**PermitExecution.** `IInv` adds to the properties what an execution holds at
each place: `PhaseInv` (it works on an open position; until its activation is
recorded nobody else records one, but for a write from an older record),
`CallInv` and `NoneInv` (what a call is about to write; a position never opened
left no trace), `UsedInv` (a record, a copy of an execution or of a call that
says "activated" names a used nonce of its position), `OrphanInv` (an
activation that may still be mined has a nonce too old for a position that is
already activated) and `CoverInv` (the allowance covers the copy of an
execution, its swap included). `AllowanceCoversPosition` needs `OrphanInv`:
otherwise a late activation could replace the allowance that later levels draw
on. `FeesMatch` counts a swap that is mined and not yet reported, at "swapped"
and at "persisted". `TriggerPriceSuffices`, `PartOfWhole` and `SharesOfFee` are
the arithmetic: they hold for every amount, price, scale and unit, so the four
floors (two of the minimum, the fee's, the pool's) never disagree.

The type invariant of every specification is proved; no configuration lists
it.  Every safety invariant, every action property and the refinement that the
runs check is stated by a theorem.

Only model-checked: liveness (`EventsAreHandled`, `SwapsAreReported`,
`ReceiptsArrive`, `WaitersGetTheLock`, `CloseWillReturn`, `Converges`,
`OldGenerationsEnd`, `RunReturns`, `SomebodyProceeds`), because fairness is
beyond TLAPS.

## 5. Left out, and why

* One chain and one pair in `PositionManager`: chains share nothing but the
  lock map (see `PositionLocks`) and pairs nothing but the engine's mutex.
* A second `Run` on the same `Manager`, and a chain without executor. A crash
  is modelled only of a running keeper: before that it leaves nothing but a
  Store write, which is a step of its own. Graceful shutdown is in
  `PairSubscription`, not in `PositionManager`.
* `MarketSwap` touches no position: its nonces are in `NonceManager`, its fee in
  `PermitExecution`.
* A `Store.Update` that fails although it was applied.
* CRUD calls that fail before they change anything: no step. Token addresses,
  events of the host's listeners, metrics and logs.
* In `PositionManager` amounts are whole units with basis-point portions;
  slippage and fees are in `PermitExecution`, for long positions (what the unit
  of a short position's trigger price is the code does not say). Gas prices, calldata and receipt parsing are left out.
* The price feeds: the arithmetic from ticks and square roots to prices,
  `Latest` and `LookupPool` (they change nothing), a chain without a client
  (its loop ends at once and `polling` stays set, pricefeed_uniswapv3.go:242-245:
  such a pair never has a price), a second `Close`, and the deadline of `Shutdown`; of
  the dual feed also the HTTP call and JSON of OKX and the poller of a
  cancelled generation, whose only effect a successor's has too; its end, for
  which `Close` waits as well, is not part of `OldGenerationsEnd`.
  `PositionManager` is not composed with a feed: there a feed may report any price
  at any time, which covers every feed.
* EIP-712 hashing and signature recovery: cryptography, here one Boolean.
* `executeSwap`, `executeSwapNativeETH`, roles and token rescue of the
  contract: the same swap after another way to get the tokens, and
  administration the keeper never calls.
* Configuration, event and metrics types, ABI strings: no behaviour.

## 6. Plan

In order of weight. The first two are done.

1. `Position`, `Triggers`, `TriggerEngine`/`TriggerBag`, `PositionManager`,
   `PositionLocks`, `CircuitBreaker`, `NonceManager`, `UniswapV3PriceFeed`,
   `PairSubscription`, `RateLimiter`, `PermitExecution` and `DualPriceFeed`.
2. The theorems about each of them.
3. Abstract specification `ExactlyOnce` (a level is pending, executed or
   cancelled) implemented by `PositionManager` when host calls are serialized
   with executions.
4. The abstract promise of both feeds, that a subscriber sees a subsequence of
   the prices that ends with the last one.

## 7. Running

    tlc -workers 2 -config PM_race.cfg PositionManagerMC
    tlapm PositionManagerProofs.tla

The longest run is `PM_race`, of 3 million distinct states, which takes about
three minutes on two workers; `PX`, `PS` and `UF` take one to two.
`PositionManagerProofs` takes about five minutes from nothing.
