# A TLA+ model of Tplatform

Tplatform trades unattended with real money. One process (`worker.py`) wakes
strategies on timers, sends their orders to Binance (crypto) and to Interactive
Brokers (futures), and keeps what it knows in JSON files. Around it work watchdogs
that repair missing stop orders, kill switches that close everything, a Telegram
bot and an operator with a shell. Its dangerous moments are those between two of
these actors: an order executed by a call that raised, a file cut off by a crash, a
cycle that outlives its timeout, a record that another cycle overwrites.

The modules of this directory model these moments. They model the code, not its
documents: where the two disagree, a run shows the disagreement (section 6).

Paths are relative to the root of the repository. Line numbers are those of the
commit the model was written from; `PROJECT.json` has the lines of every definition.

Contents: 1 the system · 2 modules and code · 3 the runs · 4 fairness · 5 proofs ·
6 where documents and code disagree · 7 not modelled · 8 plan · 9 how to run

---

## 1. The system

### 1.1 Components

| Component | Code | State it keeps | Operations | Modelled by |
|---|---|---|---|---|
| Order lifecycle | `core/execution/order_state_machine.py`, `order_tracker.py` | orders in memory; `data/state/order_tracker.json` | create, validate, submit, fill, partial fill, cancel, reject, error, clean up, save, load and list for recovery | `OrderStateMachine`, `OrderTracker`; what they promise: `OrderLedger` |
| Order hot path | `worker.py:run_crypto_cycle`, `core/worker/cycles/futures_runner.py:run_futures_cycle`, `core/broker/binance_broker.py:create_position` | the order at hand, the position and its stop at the broker | the calls of the tracker around the entry, the stop and the target | `OrderHotPath` |
| Kill switches | `core/kill_switch_live.py`, `core/crypto/risk_manager_crypto.py`, `core/risk/emergency_close_all.py`, `core/telegram/bot_service.py`, `core/governance/book_health.py` | two files, the health cache, the brokers wired at boot | arm, save, load, close everything, deactivate, reset, guard an order | `KillSwitches` |
| Protection of futures positions | `futures_runner.py:870-1642`, `worker.py:1482-1900, 2485-2650, 4853-5010` | the position, its stop and target orders, two files with its record | bracket test, repair, fail-safe, time exit, entry, watchdog, software stop, boot reconciliation | `FuturesProtection` |
| Worker loop and cycle runner | `worker.py:main`, `core/worker/cycle_runner.py`, `core/worker/config.py` | locks, threads, timers | start a cycle, wait, abandon it, SIGTERM, restart | `WorkerLoop` |
| Crypto drawdown baselines | `core/crypto/dd_baseline_state.py`, `CryptoRiskManager.check_drawdown`, `worker.py:3100-3384` | peak and starts of the day, week, month in `data/crypto_dd_state.json` | load, detect a transfer, roll over, warm up, judge, save | `CryptoDrawdown` |
| Binance positions, crypto watchdog | `core/broker/binance_broker.py:379-689`, `worker.py:586-627, 1283-1410, 3619-3653`, `emergency_close_all.py` | coins, debt and stop orders on two accounts | enter, protect, emergency close, close, close everything, look for stops | `CryptoPositions` |
| Live micro sleeve | `core/runtime/btc_asia_q80_live_micro_runner.py`, `core/worker/cycles/paper_cycles.py:228-475` | `positions.json`, `_kill_switch.json`, the paper journal | call once a day, exit, kill, enter, record | `LiveMicro`; what it promises: `SleevePromise` |
| Book runtime, scoped kill switches, position tracker, task queue | `core/runtime/book_runtime.py`, `core/governance/kill_switches_scoped.py`, `core/execution/position_tracker.py`, `core/worker/task_queue.py` | states, files, queues | see section 7 | no: nothing that runs depends on them |
| Reconciliation, detectors, governance, other risk modules, strategies, backtests, data, dashboards, scripts | see `PROJECT.json` | - | - | no (section 7) |

### 1.2 Who calls whom

```
                           main loop (one thread)
   timers ----------------------+----------------------------------.
          | CycleRunner.run(): a thread, joined with a timeout     | on the main thread
          v                                                        v
   crypto cycle   risk cycle   fx/paper cycles ...        futures cycle   bracket watchdog
   _crypto_lock   _risk_lock   _ibkr_lock                 _ibkr_lock      _ibkr_lock
      |  |            |  |                                     |               |
      |  |            |  `-- software stop --. (no _ibkr_lock) |               |
      |  |            v                      v                 v               v
      |  |     live switch file      futures_positions_live.json    ibkr_futures/positions_live.json
      |  `---> crypto switch file <--- risk cycle, Telegram bot, operator's shell
      v
   OrderTracker (one object, Lock)  ---> data/state/order_tracker.json
      |
   Binance, IBKR: entries, stops, targets -- filled, killed or executed late at any moment
```

* **Calls.** The two trading cycles drive the order tracker synchronously. A save
  follows every transition; only the building of its payload is under the tracker's
  lock, the transitions and the replacement of the file are not.
* **Shared files.** The switches are read and written whole by fresh objects in three
  processes. The record of a futures position is in two files, which different
  writers prefer.
* **Shared account.** On Binance the crypto cycle, SIGTERM, the emergency close of the
  Telegram process, the live micro sleeve and the stop orders trade the same coins.
* **Shared broker state.** Position and orders at IBKR are changed by four actors of
  the worker and by the exchange.
* **Locks.** Every cycle tries its lock and returns when it is taken. The software
  stop of the risk cycle holds `_risk_lock`, which excludes none of the users of
  `_ibkr_lock`.

### 1.3 What is hard here, and what makes each part correct

* **Order lifecycle.** Threads interleave inside `transition()` (test, guard,
  assignment), inside a save (payload, replacement), and with crashes. *Correct
  means:* a filled order has its stop recorded, in memory and in any file a crash may
  leave; what was handed to a broker has the broker's id; the file is never ahead of
  the memory.
* **Hot path.** Each broker call succeeds, fails, or fails after it was executed; hooks
  raise after the fill. *Correct means:* what is recorded as FILLED is protected at
  the broker; orders move along the table only.
* **Kill switches.** Two files with a crash between them, torn files that load as
  "off", closings that fail, an operator who lifts the switch while it is armed, a
  health answer 60 s old. *Correct means:* no crypto entry while its switch is on or
  unreadable; a loss that lasts is flattened although an active switch closes nothing.
* **Futures protection.** Records get lost or overwritten, entries are executed after
  they were given up, in the same cycle or a later one, legs die, placements are retried.
  *Correct means:* two contracts only by an entry that was given up and executed unread,
  never naked for good, never two stops for good, and short only after a sale beside
  something that still counted on the contract.
* **Worker loop.** Threads hang with their lock, SIGTERM interrupts only the main
  thread. *Correct means:* one worker per lock, every lock comes back, every pass of the
  loop ends.

* **Drawdown baselines.** Every cycle loads them from a file that a crash, a failed save, a
  gap or a partial reading of the account may have made old or wrong. *Correct means:* a
  drawdown never becomes the new peak, and nothing is traded deep under it.
* **Binance positions.** An entry is three calls, a close two to four, each of which may
  fail before or after it was executed; four actors close; reads leave out what has no price.
  *Correct means:* what is protected stays protected until it is closed, and a closing
  without errors has closed what its reads showed it.
* **Live micro sleeve.** Orders and two files, one call a day, and an account shared with
  others. *Correct means:* one recorded coin at most, its own coin sold, its sale tried
  until it is off the record, no purchase after a kill, and one a day whatever goes astray.

The 40 hazards found in this code are listed in `PROJECT.json`, each with its line and
with the properties that cover it or the reason why none does.

---

## 2. Modules and code

| Module | Models | Built on |
|---|---|---|
| `OrderStateMachine` | states, transition table, guards as operators | - |
| `OrderTracker` | the shared registry, its threads and its file | `OrderStateMachine` |
| `OrderHotPath` | the two cycles that drive the tracker around the brokers | `OrderTracker` |
| `KillSwitches` | both switch files and all who read and write them | - |
| `FuturesProtection` | one futures position, its orders and its records | - |
| `WorkerLoop` | main loop, cycle runner, locks, SIGTERM | - |
| `OrderLedger` | the abstract order book: ids, legal moves, what a restart finds | `OrderStateMachine` |
| `CryptoDrawdown` | the baselines, their file and the crypto cycle around them | - |
| `CryptoPositions` | one pair on Binance, and all who trade or watch it | - |
| `LiveMicro` | the sleeve, its files, its caller | - |
| `SleevePromise` | the abstract sleeve: one coin at a time, bought, noted, sold, struck off | - |
| `MCWorkerLoop` | the cycles, locks and threads TLC uses | `WorkerLoop` |
| `OrderTrackerProofs`, `OrderHotPathProofs`, `KillSwitchesProofs`, `FuturesProtectionProofs`, `WorkerLoopProofs`, `CryptoDrawdownProofs`, `CryptoPositionsProofs`, `LiveMicroProofs` | theorems and proofs | the module they name |

How they fit together: `OrderHotPath` composes the cycles with the tracker, and implements
`OrderLedger` (section 2.2); `LiveMicro` implements `SleevePromise` (section 2.8).
`WorkerLoop` says which cycles can be at work together, and the others rely on it:
`KillSwitches` has its two worker cycles take turns (`Overlap = FALSE`) while the bot,
a process of its own, arms whenever it likes,
`FuturesProtection` gives the futures cycle and the watchdog one `job` because both
hold `_ibkr_lock` and run on the main thread, and lets the software stop run beside
them because `_risk_lock` excludes neither, `CryptoDrawdown` and `CryptoPositions` have one
crypto cycle at a time, with the watchdog shut out by `_crypto_lock`.

### 2.1 OrderStateMachine and OrderTracker

An order record keeps what the guards read or write: `state`, `filled`
(`filled_quantity`), `hasSl` (`has_sl`) and `brokerId` (`broker_order_id` is set).
`Blank` is the slot of an id no order has been drawn for.

| Variable | Code |
|---|---|
| `order`, `registry` | the order objects, and `OrderTracker._orders` (an object outlives its removal from the registry while a thread still uses it) |
| `used` | ids drawn by `uuid4`, never twice |
| `lock` | `_lock` |
| `call` | what each thread is doing inside the tracker, and whether its last call raised |
| `file`, `readable` | `order_tracker.json`, and whether it can be parsed |
| `recovered` | `_recovered_active` |

A public call is `Create`, or `Call` with the target state, followed by the steps
another thread can fall between: `CheckLegal`, `RunGuard`, `Commit` (the assignment),
then `SnapshotStates`, `SnapshotFields` (under `_lock`, but the order's own fields
can move meanwhile: `to_dict` reads the state first) and `ReplaceFile` or `SaveFails`.
A refused guard still saves; an illegal transition does not; a raising guard leaves
the tracker in the calls that do not catch it. `Crash` loses the memory and keeps the
file, `Boot` is `_load_state`, `Damage` makes the file unreadable.

Atomic in the model: a guard's test and its assignments are one step.

### 2.2 OrderHotPath

`cycle[t]` is where a cycle stands, with its order, whether it has one in the tracker
(`tracked`) and what the broker answered (`filled`). `exposure[o]` is what the entry of
`o` left at the broker: nothing, a position without a stop, or one with a stop that the
broker accepted. Every step that calls the tracker is the tracker's own action joined
with the move of the cycle; the tracker's inner steps interleave (`TrackerStep`).

* Both cycles: `StartOrder` (create), `AfterCreate` (validate), `AfterValidate`. An
  exception there makes the cycle go on without the tracker.
* Crypto: `CryptoEntry` and `CryptoProtect` are `create_position` (entry, then stop,
  then the emergency close when the stop fails); `CryptoReport`, `CryptoAfterSubmit`
  are submit and fill, `CryptoHooksRaise` the code after the fill in the same `try`,
  `CryptoFailed` its handler. `CryptoBrokerId` is the key the cycle looks for among
  the keys of the broker's answer.
* Futures: `FuturesEntry`, `FuturesProtect`, `FuturesTarget`, `FuturesReport`,
  `FuturesAfterSubmit`, `FuturesFailed`.
* A failing broker call may have been executed (`MaybeExecuted`).

**The refinement.** `OrderLedger` knows no threads, no locks and no payloads: `status[o]` is
the state of an order in memory, `kept[o]` the one a restart would find, `drawn` the ids
given out. An order is drawn once, advances along the table, is kept at any earlier place
of its life (`Precedes`, by the longest way to a state: `Rank`), and a restart brings back
what was kept. The mapping (`Ledger`) takes `status` from the registry and `kept` from the
file, nothing where it cannot be parsed. `Commit` is `Advance` or a stutter, `ReplaceFile`
is `Keep`, `Boot` is `Restart`. That `Advance` is legal needs `CyclesApart`, that `Keep` is
needs `FileNotAhead`'s inductive form: the refinement is where both come together.

### 2.3 KillSwitches

| Variable | Code |
|---|---|
| `live` | `data/kill_switch_state.json`: off, on, or torn (it cannot be parsed) |
| `crypto` | `data/crypto_kill_switch_state.json`: off, on for a reason of its own, on for a reason derived from the live switch (`live_kill_`, `emergency_LEVEL_`), torn |
| `aged` | the crypto switch was armed more than 24 h ago |
| `arm` | where the risk cycle and the bot stand while they arm |
| `operator` | `deactivate()` from a shell |
| `trade` | where the crypto cycle stands |
| `health` | the worker's cached answer for the crypto book |
| `wired` | the brokers `EmergencyCloseAll` was given at boot |
| `open`, `loss`, `up` | books with positions; a loss past its threshold; the worker runs |
| `beside` | history: the bot has taken a step of its arming since the crypto cycle under way began; reset when the cycle ends |

Saves are two steps (`OpenLive`/`WriteLive`, ...), because `open("w")` truncates first;
a crash, or a reader, may fall between them. With `Faults` a save may also fail at
either step; both savers swallow the exception. `Triggered` stands for the four loss
comparisons of `check_automatic_triggers`. `RiskClose` is the emergency close: any
subset of what is wired gets closed, and it may raise before its callback. `TradeStart`
has the two ways the crypto cycle lifts its switch by itself; `TradeOrder` is an entry
behind `pre_order_guard`, whose answer comes from `BookHealth`.

The health test looks at `data/state/binance_crypto/kill_switch_state.json` first;
nothing in the repository writes that file, so the model has the one file.

### 2.4 FuturesProtection

One symbol, one contract month, long positions of one contract. `held` is the position
(-1: turned short, 2: doubled; the behaviour ends there), `legs` the working stop and
target orders with their price, OCA group and a number that tells twins apart, `legacy`
and `canonical` the two files. A price is the number of the trade it was computed for:
that suffices to tell the targets of two trades apart. `buys` and `sells` count the market
orders that are still live at the broker although nobody waits for them.

`job` is what the main loop does under `_ibkr_lock`:

* futures cycle: `FutStart` (load; drop what the broker no longer holds), `FutBrackets`
  (any working order counts as the bracket), `FutRebracketSl/Tp`, `FutFailsafe`,
  `FutTimeExit`, `FutTimeExitClose`, `FutNoTimeExit`, `FutRefresh`, then for each
  signal `FutEntry`, `FutEntrySl`, `FutEntryTp` or `FutEntryFails`, `FutEntriesDone`,
  `FutSave` (the only save: everything before it is lost by a crash);
* watchdog: `WdStart`, `WdOrders` (duplicates, prices, what is missing), `WdSl`, `WdTp`
  with `WdRetry` (from the first leg again), `WdSave` to the file it read from.

`risk` is the software stop (`RiskRead`, `RiskCheck`, `RiskClose`, `RiskFails`,
`RiskSave` of the whole file as it was read). `Boot` is the reconciliation at start. The
broker fills a leg (its group goes with it), kills a leg, executes a market order or not.

An entry that is not filled in time is given up (`FutEntryFails`): it has been executed all
the same, or it is dead, or it stays live, because a `cancelOrder` that raises is swallowed
(`futures_runner.py:1482-1486`). A live one is executed, or found dead, at any later moment
(`LateEntry`), also after the next cycles have read the position and entered. In the same
way the market orders of the fail-safe, the time exit and the software stop are sent and
their status only logged: one that is not executed stays live (`MarketClose`,
`LateClose`). `MaxAdrift` bounds the two together.

`crossed` is a history variable: after a sale something still counted on the contract that
was sold (`Counting`): legs, a closing order that is still live, or somebody who had read
the position and went on from there (`JobCounts`, `RiskCounts`), the closer itself after
an exception included. So is `job.untold`: an entry that was given up, in this cycle or an
earlier one, or that ended in an exception, was executed, and the broker's position has
not been read since, so that no guard of the cycle knows of it.

Left open, hence over-approximated: which legs carry the recorded OCA group (a time
exit cancels any subset), which of several equal legs is kept. Positions and orders are
read as they are: a stale answer of the gateway is not modelled.

### 2.5 WorkerLoop

`todo` is what this pass of the loop has still to visit (in any order, which includes the
code's), `main` where the main thread stands, `threads` the threads of the cycle
runners, `holder` the owner of each lock, `open` whether there is a crypto position.
`RunThreaded` starts a thread, `JoinReturns` or `JoinTimesOut` ends the waiting; an
abandoned thread goes on. `TryLock` takes the lock or gives up. `RunDirect` and
`DirectEnds` are the cycles on the main thread. `Sigterm` replaces whatever the main
thread does; `CloseAll` may fail; `Exit` kills the threads, the locks die with the
process.

### 2.6 CryptoDrawdown

`run_crypto_cycle` builds a `CryptoRiskManager` of its own each time, so that each cycle is
a boot. `cycle` is that manager and the place of the cycle; `file` what is on disk, and
whether it is younger than six hours (`fresh`); `equity` the account without BTC and ETH in
Earn; `date` the day, week and month; `killed` the crypto switch.

`Start` (load, and the two ways to go on under a switch), `Read` with `ReadAll`, `ReadPart`
(Earn and margin that cannot be read count as nothing) and `ReadFails`, `Transfer` (the
detection of a move to Earn, which rebaselines), one action for each outcome of
`check_drawdown` in the order of its returns (`CheckSkips`, `CheckSyncs`, `CheckMismatch`,
`CheckWarmsUp`, `CheckJudges`), `Record` (the total, saved again), `Trade`. A save may fail,
which is only logged. `Crash`, `Gap`, `Midnight`, `Market`, `Damage` are the environment.

Percentages are exact comparisons of integers (`Under`, `Close`, `Mismatch`). The account
is read once in a cycle. The thresholds are the defaults of
`CryptoKillSwitch.check`: the file `crypto_kill_switch.yaml` has its own under other keys,
which nobody looks up, with the same numbers. The redemption of Earn between detection and
check moves no equity.

### 2.7 CryptoPositions

One pair. `spot` coins, `coins` and `owed` on the isolated margin account, `stops` open
stop orders of each account, all in units of one entry. `pc[t]` is where the cycle and the
closers are: `telegram` is the emergency close of the bot's process, `sigterm` the worker's
own end.

* Entries: `EnterSpot`, `ProtectSpot`, `PanicSpot`; `EnterMargin` (borrow), `SellShort`,
  `ProtectMargin`, `PanicMargin`. `Calls` says where the code goes when a call raises, and
  `Raises` that it may have been executed all the same. Where the stop is placed only
  `BrokerError` is caught; anything else leaves the entry without its emergency close
  (`Escapes`).
* `get_positions` (`Seen`): a coin on spot whose ticker fails is left out without an error,
  or listed under the fallback quote (`binance_broker.py:388-401`), and so is a margin
  account whose read or ticker fails. What is not seen is passed over, not refused.
* `close_position` for all three: `Pick` (reads again; the first position listed under the
  symbol, spot before margin; where the coin on spot is not seen, the short of the pair is
  taken in its place, or nothing is and the call returns `NO_POSITION`), `Sell` or `Buy` and
  `Repay`, `Cancel`, `Closed`. A market order may expire with a part filled (`SellsPart`,
  `BuysPart`); the stops are cancelled all the same. The cancellations ask the spot API only
  (`CancelsSpotStops`).
* Closers: `CloserStart`, `CancelAll` (the emergency close before its closings, SIGTERM
  after), `List`, `Report`, `Ends`. `Fails` is where they go after an exception:
  `close_all_positions` goes on after a `BrokerError` only.
* Watchdog: `WatchStart`, `WatchLook`, `WatchEnd`. `StopFills` is the exchange.

`closing[t].excused`, `left` and `strayed` are history: a call of this closing raised, a read
passed the coins over, the sale was filled in part, or the cycle bought meanwhile (only the
first of these is in the closer's report); an entry was left without its stop, a CLOSE passed
coins over or sold a part, or a closer came; a short was left half done (a borrow, sale,
purchase or repayment was lost or filled in part, or the process died between two of them),
its stop filled beside the debt, or a closer came. Dust, fees, collateral, interest and several
pairs are left out; a closing goes through the positions of the one pair as the code does
through all. That a stop or an emergency close is refused for want of the fee is among
the refusals each call may meet.

### 2.8 LiveMicro

`held` the sleeve's coins, `fee` whether the last of them is short of what is recorded,
`others` whether others hold such coins on the account, `book` what `positions.json` says and
the age of the entry, `flag` the kill file, `journal` whether the paper journal has a line
of the day, or one cut off, `cycle` where the cycle is. History: `killed`, a sale at the loss
limit; `bought`, the sleeve has bought on this day; `glued`, the line of this day was
appended to one cut off; `slipped`, record and coin may have come apart: a purchase whose
fill the runner does not find, a sale that filled nothing or a part of the coin, an answer,
a write or the process lost, or somebody else's sale.

`PassWithSignal` and `PassWithoutDay` are the two places of the paper cycle that call the
sleeve; `JournalFails` cuts the line off before it. Then, in the order of the code,
`NoBroker`, `NothingToExit`, `Exits`, `Sells` or `SellRaises`, `Flags`, `Saves` or
`SaveRaises`; `Entry` or `NoEntry`, `Buys` or `BuyRaises`, `Records`. A write that fails, or is
cut off by a crash, leaves the file as it was or torn. What goes wrong in a sale is
journaled and the cycle goes on; when that journal cannot be written either, the cycle
ends (`Errs`).

*What is sold.* The runner records the executed quantity of the purchase and sells just
that. Where the fee was taken in the coin the sleeve holds less: the sale is refused,
unless others hold coins on the account, which make up for the fee (`Sellable`). On any
answer the record is dropped and a loss leads to the flag, whatever was filled: a sale of
nothing or of a part leaves the coin without a record, and sets `slipped` (`Sells`).

*What the broker answers.* `Answers` are the forms `create_position` may return: the raw
Binance answer, which the runner and its tests expect, and the dictionary `BinanceBroker`
makes of it, in which the runner finds no fill: the coin is bought, not recorded, and
`slipped` is set at once (`Buys`). `micro_safe` and all theorems have both. It should be
said plainly what that means: with `BinanceBroker` as it is every executed purchase slips,
so that `OneBuyADay` and what `micro_wrapped` shows are what can be said of the sleeve in
production; the content of `OneAndRecorded`, `SellsItsOwn`, `KillEndsSleeve`, `SleeveSpec` and
`SaleIsRetried` lies in the behaviours with the answer the runner was written for.

**The refinement.** `SleevePromise` knows neither days nor files nor orders: a coin is
bought while there is none, none on record and nothing bars it; it is noted before anything
else happens; it is sold only when noted, a loss bars the sleeve with the sale; it is struck
off before the next purchase. The mapping (`Sleeve`) takes `coin` from `held`, `recorded`
from what `positions.json` says, `barred` from `killed`. `Buys` is `Buy`, `Records` is
`Note`, a `Sells` that sells the coin is `Sell`, `Saves` is `StrikeOff`, the operator's clearing
`Readmit`; the days, the guards and the flag are stutters. What sets `slipped` is `Stray`, after which
nothing is promised: the value of the refinement lies in the steps before it, and each
action that sets `slipped` is one in which a fill, an answer, a write, the process or the
coin is really lost.

---

## 3. The runs

States and times are TLC's with two workers.

| Run | Instance | States | Shows |
|---|---|---|---|
| `tracker_safe` | 1 order, 2 threads, quantity 2, one partial fill | 1.5 M, 76 s | `TypeOK`, `OrdersCovered`, `FileCovered` |
| `hot_safe` | 2 orders, both cycles | 0.7 M, 60 s | `HotTypeOK`, `FilledIsProtected`, `FileNotAhead`, `MovesAreLegal`, `LedgerSpec` |
| `kill_safe` | cycles take turns, the bot arms at any time, saves may fail | 0.38 M, 67 s | `TypeOK`, `SerialInv`, `EntryNeedsOffOrBot`, `LiftedForCause`, `LossIsFlattened` |
| `fut_safe` | 2 signals a cycle, 2 attempts, 1 trade number, 1 group, 2 orders adrift | 2.9 M, 76 s | `TypeOK`, `CapUnlessUntold`, `TurnsOnlyCrossed` |
| `fut_live` | 1 signal a cycle, no order adrift, else the same | 0.24 M, 127 s | `NakedGetsStop`, `TwinsGetCancelled` |
| `loop_safe` | 4 cycles, 2 locks, 3 threads | 75 k, 10 s | `TypeOK`, `OneWorkerPerLock`, `LocksComeBack`, `PassEnds` |
| `loop_sigterm` | same | violation | a position opened after SIGTERM closed all |
| `dd_safe` | 4 equities, volatile Earn 0 or 120, 2 days and weeks, every fault | 2.0 M, 20 s | `TypeOK`, `TradesNearPeak`, `LimitsNeverDecide`, `PeakSurvives` |
| `crypto_safe` | 2 units, both closers, every fault | 2.0 M, 105 s | `TypeOK`, `CoveredUntilLeft`, `CloseFlattens`, `MarginIsShort` |
| `crypto_watch` | 1 unit, the cycle alone, calls refused or answered | violation | an uncovered position reported as protected |
| `micro_safe` | 2 coins, either answer, every fault | 20 k, 6 s | `TypeOK`, `OneAndRecorded`, `SellsItsOwn`, `KillEndsSleeve`, `OneBuyADay`, `SleeveSpec`, `SaleIsRetried` |
| `micro_wrapped` | 2 coins, the broker's dictionaries, no fault | violation | a second coin bought beside an unrecorded one |

### What the properties say

* **OrdersCovered, FileCovered** (docstring invariants 1, 2 and 5 of the state machine).
  A partially or fully filled order has its stop recorded, one the broker was handed
  has the broker's id -- in memory, in the file, and in every payload about to replace
  it, although two threads may drive the same order and the payload is read field by
  field. It holds because `hasSl` and `brokerId` are only ever set, and because states
  that demand them are assigned after them and read before them.
* **FilledIsProtected.** What memory or file call FILLED has a stop the broker accepted.
  For crypto it holds for a bad reason (nothing ever becomes FILLED, section 6.2); the
  futures cycle gets it from its order of steps. Had the key been right, a crypto order
  whose stop failed *and* whose emergency close failed would be recorded as FILLED,
  since `has_sl` is `stop_loss is not None` (`worker.py:3833`).
* **MovesAreLegal.** `transition()` has a race (section 6); the two cycles stay clear
  of it because each drives an order of its own.
* **FileNotAhead.** A save follows its transition. The file may go back, never ahead.
* **EntryNeedsOffOrBot.** A torn crypto switch loads as off, and the guard answers from
  a cache: what one misses the other catches. The exception is a bot that arms while the
  cycle is under way: the guard has looked at a file that was off and lets the orders of
  this cycle through. That ends with the cycle (`beside`): the next one looks again.
  `SerialInv` is the reason. Without the bot it is `CryptoEntryNeedsOff`, plainly.
* **LiftedForCause.** The crypto cycle lifts an arming by itself: after 24 hours, or when it
  was derived from a live switch that is off by now. It decides and writes in different
  steps, and nobody takes a lock. The arming it lifts is still the one it judged, for
  the same cause: the risk cycle does not run beside it, and an operator's `deactivate()`
  only adds to the cause. The bot may arm between the two steps; then, and only then, the
  cycle lifts an arming it has not judged.
* **LossIsFlattened.** `activate()` of an active switch closes nothing. A loss that lasts
  is closed all the same, because the risk cycle calls the emergency close again.
* **CapUnlessUntold.** Records are lost, two writers overwrite each other, closes come late:
  the position stays at one contract, because where the record does not stop a second entry,
  the broker's position does. That position is read before the first entry of a cycle, and
  says nothing of an entry that was given up and is still live. The property says that
  this is the only way to a second contract: an entry given up was executed and the
  position has not been read since, be it in this cycle, where a further signal enters
  again, or in a later one, after its own entry.
* **TurnsOnlyCrossed.** The software stop sells under another lock, the fail-safe sells beside
  working legs, the time exit may leave some, a closing order may be executed after its
  record is gone and the position was closed again, and a closer that met an exception
  after its order closes once more: two sales of one contract are possible, and the position
  turns short. The property says that each such case takes a sale after which something
  still counted on the contract: a stale or lost record, a restart, an entry executed late
  never make the worker sell what it does not hold.
* **NakedGetsStop, TwinsGetCancelled.** The watchdog finds a position without a stop
  whoever left it so, and removes the stops it placed twice itself.
* **OneWorkerPerLock, LocksComeBack, PassEnds.** Abandoned cycles do not overlap with later
  runs, and do not hold up the loop. An abandoned run gives its lock back when it ends,
  whenever that is, and a run that found the lock taken does not release it for the other: a
  broker stays unvisited only as long as somebody is at work on it. The one lock that stays
  taken is that of the cycle SIGTERM interrupts, and the process ends with it.

* **LedgerSpec.** Threads, races, saves that overtake each other, crashes and torn files
  all come to the ledger: orders advance legally, and a restart finds an earlier place.
* **PeakSurvives.** `dd_baseline_state.py`: "reboot in DD must NOT reset peak". The peak on
  disk falls only for an equity that looks like a transfer to Earn or is more than three
  times off. Both are wrong at times (section 6.2); the property says there is no third way.
* **TradesNearPeak, LimitsNeverDecide.** What the trigger called hourly does, because its
  baseline is the loaded peak: no order is admitted by a check that found a loss of more
  than 3%, of whatever age, and none of the other limits ever refuses anything.
* **CoveredUntilLeft.** A CLOSE sells before it cancels, so that no failure in the middle of
  it, no stop that fills meanwhile and no restart uncovers a coin. What does uncover one is
  named in `left`: an entry whose stop *and* emergency close fail, or whose stop raises
  something else than `BrokerError`; a CLOSE that buys back the short of the pair because the
  ticker of the coin on spot failed, and then cancels the coin's stop; one whose sale is
  filled in part; an emergency close from outside, which cancels first.
* **CloseFlattens.** The closers read the positions twice and work without the cycle's lock,
  beside stops that fill and the other closer. A closing in which no call raised leaves no
  coin on spot but what the cycle bought meanwhile, what a read passed over because its price
  did not come, and what a sale left unfilled. The last two are not in the closer's
  report: it says "closed" with the coin still there (section 6.2). Of margin nothing of
  the kind holds.
* **MarginIsShort.** Entry, emergency close and CLOSE of a short are chains of calls with a
  debt and coins in between, and a CLOSE buys what it read some steps before. As long as no
  link is lost, no stop fills beside the debt and nobody closes beside the cycle, the coins
  are those of the call under way and the purchase is exactly the debt, whatever happens on
  spot meanwhile. What ends this is in section 6.2, under *Binance*.
* **SleeveSpec.** All of the sleeve's safety in one statement: purchase, record, sale and
  deletion follow each other in this order, each once, through every refusal, skipped day,
  guard and restart, until something is lost.
* **OneAndRecorded, SellsItsOwn, KillEndsSleeve.** The record and the coin go together through
  every refusal, missed day and missing price; what can part them is listed in `slipped`,
  action by action. Until then nobody else's coin is sold, beyond the fee of the sleeve's own,
  and a killed sleeve stays out. A crash or a failed write between the sale and the flag
  loses the kill: that is one of the things that set `slipped`.
* **OneBuyADay.** What holds when everything else has slipped, with the broker's real answers
  too: a purchase that left no record is not repeated on the same day, because the line in
  the paper journal is written before the sleeve is called. The one way around it is a line
  that was cut off and swallows the next.
* **SaleIsRetried.** As long as a position is on record its sale is sent again and again. That
  it is ever accepted is not said: with the fee taken in the coin and nobody else on the
  account it is refused every day.

### Bounds, and why they are enough

* *Orders, threads.* One order is where two threads meet; nothing in the tracker relates
  two orders except the payload, which `hot_safe` has with two orders on two threads. Two
  threads give every pair of the steps of a call; the proofs cover any number of both.
* *TotalQty = 2, MaxFilled = 1*: an order can be partially and then fully filled.
  `MaxFilled` bounds what partial fills report, in the guard of `PartialFill`.
* *Kill switches*: everything is a small enumeration; nothing is bounded. `Overlap` is
  FALSE in every run: a worker cycle that outlives its timeout is `WorkerLoop`'s subject.
* *MaxAdrift = 2* in `fut_safe`: an entry and a closing order still live at once, or two of
  one kind. In `fut_live` none is: a live order protects nothing and delays the watchdog
  by nothing, it only lets the bracket test of the futures cycle pass, and that the cycle
  passes a bare position is among the outcomes without it (no record). Executed, a live entry leaves a
  naked position like one that was executed and given up at once, or doubles; a closing
  order ends or turns the position. Both properties are satisfied where it is not one contract.
* *Signals = 2* in `fut_safe`: the second is the one that meets what the first has left; the proofs have
  any number.
* *Tries = 2* (3 in the code): one failed attempt and a last one are all the cases of
  `WdRetry`. *Numbers = 1* suffices because no property compares prices. *MaxGroups* bounds the
  OCA groups with working orders at once: an
  entry waits for a free one. One group already gives orphan legs, twins and reversal.
* *Three threads* in the loop: two may hang, each with one of the two locks, and the third
  is the run that finds the lock taken.
* *Levels* {300, 880, 985, 1000}: less than 3%, between 10 and 15%, and more than three times
  under the top; a volatile part of 120 makes 880 + 120 look like 1000, a transfer. Two dates
  of two periods let a day end with and without its week. The proofs have any numbers.
* *MaxCoins = 2* in `CryptoPositions` counts the units held on spot and owed on margin
  together, and the stops of both accounts: a second entry meets the close and the stop of the
  first, a coin on spot the short of the same pair; entries and borrowings stop at the bound,
  and so do stops and purchases there.
* *MaxCoins = 2* in `LiveMicro`: the second coin is what the properties exclude. The age of
  an entry stops at two days, where the exit is due in any case.
* `CHECK_DEADLOCK FALSE` only for `fut_safe` and `fut_live`: the behaviour ends when the position
  has turned or doubled.

---

## 4. Fairness

Only what the scheduling of the code gives.

* `KillSwitches`: strong for `RiskStart` (the loop tests its timer on every pass, but
  another cycle may be running), weak for the steps of a started arming and of a started
  crypto cycle, strong for an emergency close that closes everything wired (it is
  tried again with every risk cycle; each single attempt may fail). Nothing is asked of
  the bot or of the operator. The equity is taken to be readable: without it the risk
  cycle returns before it looks at the loss.
* `FuturesProtection`: weak for the steps of a started job, strong for `WdStart` (a timer
  of five minutes), and strong for the price being read, the stop being placed and the
  duplicates being cancelled: each may fail any number of times, not every time.
* `WorkerLoop`: weak for the main thread. Nothing is asked of the threads. That a
  cycle on the main thread ends is assumed: it has no timeout in the code.
* `LiveMicro`: weak for the steps of a started cycle; strong for the new day, for a call of the
  sleeve on infinitely many days (the registry says live_micro, the signal can be computed
  and is not stale), and for a price being had when the exit is due: each may fail on any
  number of days, not on all. Nothing is assumed of what the broker does with an order.
* `CryptoDrawdown` and `CryptoPositions` state no liveness: nothing in the code retries there.
* The liveness properties hold "or the process dies": nothing restarts it in the model.

---

## 5. Proofs

TLAPS proves the following for every value of the constants that satisfies the named
assumptions, which TLC evaluates in the runs.

| Theorem | Says | Under |
|---|---|---|
| `TypeCorrect` | `Spec => []TypeOK` of the tracker | `NoOrder`, `NoThread` are neither orders nor threads; bounds are naturals |
| `TrackerCorrect` | `Spec => [](TypeOK /\ OrdersCovered /\ FileCovered)` | same; any orders and threads |
| `HotImplementsTracker` | `HotSpec => Spec` of the tracker: the cycles use it as it allows | two different threads; any orders |
| `HotOrdersCovered` | `HotSpec => [](OrdersCovered /\ FileCovered)` | same |
| `HotMovesAreLegal` | `HotSpec => MovesAreLegal` | same |
| `HotFilledIsProtected` | `HotSpec => []FilledIsProtected` | same |
| `HotFileNotAhead` | `HotSpec => []FileNotAhead` | same |
| `HotTyping` | `HotSpec => []HotTypeOK` | same |
| `HotImplementsLedger` | `HotSpec => LedgerSpec`, the refinement | same |
| `SwitchesTyped` | `Spec => []TypeOK` of the switches | any armers, `Overlap` and `Faults` either way |
| `SerialHolds`, `SerialEntryNeedsOffOrBot`, `SerialLiftedForCause` | `Spec => []SerialInv`, `Spec => EntryNeedsOffOrBot`, `Spec => LiftedForCause` | `~Overlap` |
| `SerialEntryNeedsOff` | `Spec => CryptoEntryNeedsOff` | `~Overlap`, no bot among the armers |
| `FuturesTyped` | `Spec => []TypeOK` of the futures position | any signals, attempts, trades, groups |
| `FuturesDoubleUntold` | `Spec => []CapUnlessUntold` | any signals, attempts, trades, groups, orders adrift |
| `OneSignalOneContract` | `Spec => []PerSymbolCap`: never two contracts | `Signals = 1`, `MaxAdrift = 0` (no order given up stays live) |
| `FuturesTurnCrossed` | `Spec => []TurnsOnlyCrossed` | any signals, attempts, trades, groups, orders adrift |
| `LoopTyped`, `LocksExclude`, `AbandonedGiveBack` | `Spec => []TypeOK`, `Spec => []OneWorkerPerLock`, `Spec => []LocksComeBack` | any cycles, locks, threads |
| `DdTyped`, `DdPeakSurvives`, `DdTradesNearPeak`, `DdLimitsNeverDecide` | the four properties of `dd_safe` | any positive equities, any volatile Earn, any dates |
| `PosTyped`, `PosCovered`, `PosCloseFlattens`, `PosMarginIsShort` | the four properties of `crypto_safe` | any number of units, any closers |
| `MicroTyped`, `MicroOneAndRecorded`, `MicroSellsItsOwn`, `MicroKillEndsSleeve`, `MicroOneBuyADay` | `Spec => []TypeOK`, and the same for the safety properties of `micro_safe` | any answers of the broker, any number of coins |
| `MicroKeepsPromise` | `Spec => SleeveSpec`, the refinement | same |

**TrackerCorrect.** `OrdersCovered` alone is not inductive: `Commit` assigns a state whose
demands were established two steps before, and the file gets a payload whose states were
read before its fields. `TrackerInv` adds what each thread has established where it
stands (`ThreadsCovered`): after the legality test the transition is in the table and a
broker state has its id; before the assignment the order covers the *target* state;
while the fields are read, the orders cover the states already read. These facts
survive the other threads because the assignments of a guard only ever add
(`GuardMonotone`, `CoversMonotone`), and `GuardEstablishes` gives the step from the
guard to the assignment. `IdsAreUsed` says that `create_order` gets an id nobody is
working on, so that it cannot take anything away.

**The hot path.** `HotStepIsStep` shows that each step of a cycle is a call of the tracker's
interface or none, so that `TrackerInv` holds here too. `KindsOfSteps` then sorts the
twenty actions into four kinds (a cycle starts an order, calls the tracker, moves on
quietly, lets the tracker work) besides the crash, the boot and the damage, and everything
else is shown for the kinds. `CyclesApart` is why the moves are legal: the cycles have
different orders, whatever moves an order is the transition of its own cycle, hence what
the legality test found is still so when the state is assigned. `FillsProtected` is why
FILLED means protected: the futures cycle asks for FILLED only from places it reaches
with a stop at the broker; no crypto order ever becomes SUBMITTED, since `submit` is
called without an id and its guard refuses, so that no transition of it to FILLED is
legal. `FilledStep` says that FILLED appears nowhere before such a transition has assigned
it: the payloads and the file only copy. `Behind` is the inductive form of `FileNotAhead`:
threads outside a save hold no payload, which matters at the boot.

**SerialEntryNeedsOffOrBot.** `SerialInv`: while the crypto cycle runs, the worker is not
arming, and a "green" that this cycle has cached means that the switch is off now, unless
the bot has armed since it began. An entry needs a green answer: either the cached one, or
one just computed from a file that is off. The assumption is necessary: a cycle that has
outlived its timeout has the risk cycle beside it, and its cache lasts into the next. So is
the exception, TLC finds an entry on a torn switch without it. In the other direction
`SerialInv` keeps `beside` narrow: it holds only within a cycle, and only where there is a
bot, so that `SerialEntryNeedsOff` is a corollary. TLC evaluates it in `kill_safe`.

**SerialLiftedForCause.** `CauseStands`: where the crypto cycle is about to reset and no bot has
armed since its test, the switch is on and may be lifted. A step of an arming is the bot's,
since `SerialInv` keeps the worker's out of the way, and the bot's sets `beside`
(`ArmingKeepsCause`); the operator and the clock can only make `Liftable` true; and a torn
live switch counts as one that is not on, as it does in the code.

**FuturesDoubleUntold.** `CapInv`: unless an entry is untold there is one contract at most, and
where the guards would let the cycle enter, none: the position that was read as flat still
is. Outside the entries everybody only sells (`SellsOnly`), or is a late entry, which is
untold; so that the only thing to show is that the entry cannot be reached twice on one
reading of the position: an entry that went well is on record, any other is dead, live or
untold. `OneSignalOneContract` has its own invariant (`OneInv`): where nothing given up stays
live, an untold entry has used up the one signal. Both of its assumptions are necessary; TLC
finds two contracts without either. `FutInv` gives the types: that the legs are finite
(`FiniteSetTheorems` then yields a free twin number), and that the attempts are counted
(`Counted`).

**FuturesTurnCrossed.** `CountsRight`: unless a sale has crossed something, whatever counts on
the contract (`Counting`: legs, a closing order still live, a main loop or a software stop
that goes on from having read it) implies that there is one. `NothingSold` is for the many
steps that sell nothing: it is enough that what counts afterwards did so before, or has a
position. `OneSold` is for the sales, the late one among them: the seller is right by
the invariant, and if it crosses nothing, nothing is left that counts. No assumption on
the number of signals or of orders given up is needed, unlike for the cap.

**LocksExclude.** `LoopInv`: whoever is at work holds the lock of its cycle; two holders of
one lock are the same. The step that needs care is SIGTERM, which takes the main thread
out of a cycle and leaves that lock held by nobody at work.

**AbandonedGiveBack.** `LocksBack` is the property beside `LoopInv`. A thread takes the lock
and goes to work in one step and ends in the step that releases it (`ThreadGivesBack`);
that the step of one thread does not disturb what is said of another's lock needs
`OneWorkerPerLock`. The main thread keeps its lock when SIGTERM interrupts it
(`MainGivesBack`), which is the exception the property names.

**HotImplementsLedger.** Every action of the hot path is given the step of the ledger it is:
`Draw` for the registration of a new order, `Advance` for a `Commit`, `Keep` for a file that
is replaced, `Lose`, `Stop`, `Restart` for damage, crash and boot, a stutter otherwise. Two
invariants carry it: `CyclesApart` (an order moves by one thread only, hence legally) and
`Behind` (what a payload or the file shows of an order precedes the order). `Precedes` is
preserved by every legal move because `Rank` grows along the table.

**The drawdown.** `DdInv`: no start of a period is above the peak (`StartsUnderPeak`), and the
manager's peak is that of the file, or is the current equity on `Evidence`
(`ManagerKnowsFile`). The first is the whole reason of `DdLimitsNeverDecide`: with the
hourly baseline at the peak, 3% under a start implies 3% under the peak. The second is what
survives a crash between two saves, and gives `DdPeakSurvives` in each place that writes.

**The positions.** `PosInv` adds what each closing thread knows of the coins as long as it met
no error, passed none over, sold none in part and the cycle bought none (`SpotKnown`: no
more than it read while it sells, none from then on), that a CLOSE of the cycle which has
passed coins over or sold a part has set `left`, and that a closer at work implies `left`
(`LeftWhenClosing`), which separates the two theorems: `PosCovered` is about a cycle without
closers, `PosCloseFlattens` about closers. `MarginKnown` is the inductive form of
`MarginIsShort`: it says in each place of the entry and of the CLOSE what debt and coins the
next call will find (the emergency close of an entry finds a debt, hence its AUTO_REPAY
leaves no coin), and that no closer is at work before anything has strayed.

**The sleeve.** `MicroInv`: the coin and the record case by case until something slips
(`HeldAsRecorded`), a sale under way has a record (`SalesRecorded`), and a kill has its flag,
or the cycle is about to write it and has not yet looked for an entry (`KilledIsFlagged`). No
theorem assumes which answer the broker gives: the one without a fill sets `slipped`.
`OneBuyADay` knows nothing of `slipped` and has an invariant of its own (`DayInv`): unless a
line was glued, a call with a BUY has its line in the journal, and after the purchase of
the day no call with a BUY is left.

**MicroKeepsPromise.** With `MicroInv` each action is given its step of the promise or a
stutter. The steps that need it are `Buys` (that nothing is on record and nothing bars it
was found when the entry was decided, steps before), `Sells` (that there is a coin, and the
record is its; a sale that fills nothing or a part has slipped) and `Saves` (that the coin is
gone when the record goes). A step that sets
`slipped` is `Stray`, and so is each step after it.

**Only model-checked.** The liveness properties (`LossIsFlattened`, `NakedGetsStop`,
`TwinsGetCancelled`, `PassEnds`, `SaleIsRetried`): fairness and ENABLED are out of the prover's
reach. Every invariant, action property and refinement the passing runs check is the
statement of a theorem. Nothing in this project is computed by recursion over data.

---

## 6. Where documents and code disagree

### 6.1 Shown by a run

| Run | The code | What is said of it |
|---|---|---|
| `loop_sigterm` | SIGTERM closes on the main thread; the crypto cycle goes on on its own | "SIGTERM handler closes positions before exit" (`tests/test_cro_reserves.py:214`) |
| `crypto_watch` | the watchdog calls `get_open_orders`, which the Binance broker does not have (`worker.py:1335`); the exception is caught, no position counts as unprotected, and all are reported as protected | "verify every live Binance position (> $5) has an active stop-loss order on the exchange" (`worker.py:1284`) |
| `micro_wrapped` | the sleeve reads `executedQty` and `fills` (`btc_asia_q80_live_micro_runner.py:214`); the broker returns `filled_qty` and `filled_price` (`binance_broker.py:547`): no buy is recorded, none is sold, each BUY signal buys again. It takes an equity that the sizing admits ($25,000 for the notional of $200) | "max 1 position, no pyramid" (`btc_asia_q80_live_micro_runner.py:5`) |

### 6.2 Met while modelling, without a run

* *Orders at the broker.* `worker.py:3825` reads `order_id` where the Binance broker answers
  `orderId` (`binance_broker.py:538-547, 594-601`): `submit` gets no id and is refused, `fill`
  is then illegal, and every executed crypto order stays VALIDATED, although the comment at
  3787 says "DRAFT -> VALIDATED -> SUBMITTED -> FILLED". `submit` follows the broker's call,
  and the recovery lists SUBMITTED and PARTIAL only: an order whose process died in between
  has a position and is not listed ("list orders that need broker reconciliation",
  `order_tracker.py:9`). The model has both.
* *Orders.* `transition()` is not atomic, so that two threads on one order can leave a
  terminal state ("An order can NEVER return to a previous state",
  `order_state_machine.py:17`); the two cycles do not do that. Two saves may land in
  reverse order, and the file then goes back.
* *Switches.* The crypto cycle reads the crypto switch only, and lifts it after 24 h
  (`worker.py:3142`): a crash between the two armings (2352, 2359), or a day, and it trades
  under an active live switch, of which `docs/audit/state_file_contracts.md:138` says "BLOCK
  TOUT LIVE". A torn live switch loads as inactive (`kill_switch_live.py:769`), and lifts the
  crypto switch derived from it, where the next line of the document asks for "Fail-closed".
  The futures cycle reads no switch. The cooldown after `deactivate()` never
  applies: it is kept in an object that each risk cycle builds anew
  (`kill_switch_live.py:134, 515`). Brokers are wired at boot only: one that was down then
  is never closed. A health answer of up to 60 s lets orders through after `/kill`.
* *Futures.* The watchdog prefers the canonical file, which only boot and the watchdog itself
  write (`worker.py:1590`, 4992): a record of a boot outlives its trade, and the next trade
  gets its stop and target ("never auto-place a TP without the real strategy target", 1731).
  Two signals for a symbol in one cycle can double the position: an exception after the
  entry, or an entry given up and executed, leaves `_ibkr_real_pos` and
  `_traded_this_cycle` as they were. So can an entry of an earlier cycle whose cancellation
  raised (1482-1486, swallowed) and that is executed beside a new one, although
  `futures_runner.py:1192` promises one contract. Boot reads an empty canonical file and
  does not look at the legacy one. The watchdog's docstring (`worker.py:1489`) has a
  fail-safe close that the code does not (1870-1884). Any active order counts as the
  bracket (`futures_runner.py:1023`), a target alone too. The software stop and the
  fail-safe leave legs of the closed position, which may turn it; so may a closing order that
  was not executed in time (1085, 1140, `worker.py:2599`): nobody cancels it, the record is
  dropped as if it had been, and the position is closed or protected again. The trailing stop is
  configured by strategy id and looked up by display name.
* *Loop.* A cycle that hangs for ever is HEALTHY: its later runs find the lock taken and
  return. The alert of SIGTERM says "positions closed" whether or not they were.
* *Drawdown.* The hourly baseline starts as the peak that was loaded (`risk_manager_crypto.py:538`;
  `dd_baseline_state.py:21` says "always reset on boot"), and each cycle boots: the trigger of
  3% an hour is one of 3% under the peak, so that "-5% daily equity -> KILL"
  (`config/crypto_kill_switch.yaml:11`), the limits of the week and the month and the drawdown
  of 20% never decide. A loss of more than 3% since the start of the day that came in steps of
  less than 2% passes for a transfer to Earn and resets the peak (`worker.py:3276-3281`), and
  the equity of a killed day does the same once the switch has been lifted. A fall to less
  than a third is taken for a wrong denominator. The three warm-up cycles after a first boot
  (`risk_manager_crypto.py:890`) never happen: the first check returns before it counts, and
  the next cycle has loaded a file. When saves fail for six hours every cycle is a warm-up
  and judges nothing. A first cycle that reads an equity of zero saves the nominal capital as
  the peak.
* *Binance.* The cancellations after a close ask the spot API (`binance_broker.py:668, 682`):
  the stops of the margin account stay. A margin stop has no side effect (572-575): when it
  fills, debt and coins stay side by side, and the next CLOSE buys again. `close_position`
  takes the first position of the pair, spot before margin: a CLOSE meant for a short may
  sell spot coins. A repayment that fails is logged. A margin entry whose emergency close
  failed is reported as closed (594). The emergency close cancels the stops before it closes,
  and a closer may cancel the stop of a coin bought meanwhile.
  `get_positions` swallows the error of a ticker (`binance_broker.py:398-401`, margin 417-435): a
  coin on spot is left out, or listed under its USDT pair. `close_all_positions` and the
  emergency close then return without an error and leave it; `close_position` answers
  NO_POSITION, or buys back the short of the pair in its place and cancels the stop of the
  coin (623). A close whose order is filled in part cancels the stop of the rest. An exception
  other than BrokerError while the stop is placed (528) skips the emergency close, and one in a
  closing ends `close_all_positions` (641). `verify_sl_exists` looks at
  spot orders only. Were the watchdog to reach line 1342, it would take a TAKE_PROFIT_LIMIT
  for a stop; the pause of the strategy that its docstring has (1292) is not in the code.
* *Live micro.* The paper journal is written before the sleeve is called and is what admits
  it once a day (`paper_cycles.py:351, 371`): a SELL that failed is tried again the next day.
  Stale data, a signal that cannot be computed or a registry that no longer says live_micro
  return before the exits, although the runner says "Exits still run" (137). "max_hold_24h"
  may be close to 48 hours. A torn `positions.json` reads as empty, and the sleeve buys again;
  a crash or a lost answer between SELL and save sells again, possibly coins of others; a
  journal that cannot be written after a SELL keeps the record. Any answer to a SELL drops the
  record, whatever was filled (271-304): the rest of the coin is forgotten. What is sold is
  the quantity executed before the fee: with the fee taken in the coin the sale is refused
  every day, or takes the fee from coins of others. A journal line cut off swallows the next
  (`paper_cycles.py:371`), and the sleeve may be called, and buy, twice on that day. The guard of orders
  (`pre_order_guard`) blocks exits as well.
* *Books.* `start()` and `reconcile()` undo a block that falls during them; a blocked book
  stops nothing, because the worker only starts books and asks for their health.

---

## 7. Not modelled

* **Arithmetic**: sizing, VaR, correlation, loss percentages, deleveraging. A loss is a
  fact, a signal an input; the fine structure of thresholds is for tests.
* **Strategies, signals, backtests, research, machine learning, data pipelines**:
  numerical functions of market data.
* **Governance of strategies**: reads configuration once per decision.
* **Detectors of double fills and orphans, partial fill handler, trailing stop**: not on
  the live path, or never effective there.
* **Book runtime and supervisor**: the worker calls `start_all` and `check_health` and gives
  them neither preflight nor reconciliation; no cycle runs through a book.
* **Scoped kill switches, safety mode flag**: nothing but tests and an operator's shell sets
  them; the guard reads them.
* **Task queue**: only its tests use it. **Position tracker**: runs in the shadow of the
  state files and decides nothing.
* **Reconciliation**: compares and alerts; changes neither position nor order.
* **Dashboards, API, scripts, agents, archive, tax, documents.**
* Of the parts modelled: several symbols and contract months, the earn and conversion
  paths of Binance, the per-strategy kill switch (`disabled_strategies`), histories and
  alerts, the counters and health levels of the cycle runner, cycles without a lock,
  positions of the broker read stale, the migration of the old
  drawdown file and the redemption of Earn, longs on margin (no strategy sends them), and
  the sizing arithmetic of the sleeve.

---

## 8. Plan

Every safety property of the runs is proved; what is left is to say more.

1. **`FuturesProtection`, orphans**: tell the legs of a closed position from those of the one
   held, and state which sales leave any.
2. **Composition of the sleeve with `CryptoPositions`**: `OthersClose` and `OthersBuy` of
   `LiveMicro` as the actions of the crypto cycle on the same account.
3. **`KillSwitches` with `Overlap`**: what still holds of `EntryNeedsOffOrBot` and
   `LiftedForCause` when a cycle has outlived its timeout.
4. **`CryptoDrawdown` and `KillSwitches`**: the switch armed by the drawdown as the one lifted
   after 24 hours.
5. **Health levels of the cycle runner**, which call a hanging cycle healthy.

Runs will be merged or replaced where a new module's question is the stronger one.

---

## 9. How to run

```
tlc -workers 2 -config OrderTracker_safe.cfg OrderTracker.tla
tlc -workers 2 -config WorkerLoop_safe.cfg MCWorkerLoop.tla
tlapm OrderTrackerProofs.tla
```

Each row of section 3 is a `.cfg` of the same name, with its module in `PROJECT.json`
under `runs`. Definitions whose comment begins "Mutant of" are a plausible fault of the
code each: put in the place of the definition they name, they make the property they are
listed with under `mutants` fail. They are not part of any specification.
