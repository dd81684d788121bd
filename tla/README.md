# A verification of the trading platform

This directory holds TLA+ models of the parts of the repository that decide
what is traded and keep account of it: the runner that ticks the deployments of
one MT5 account and sends orders to the broker over a file bridge, the journal
it writes when the broker closes a position, the file that says what is live and
the pages that rewrite it, the two engines that must agree before a strategy
may trade, the sizing and the time guards both use, the candle files, and the
strategies themselves. Each module is a translation of Python (or MQL5) source;
`PROJECT.json` maps every definition to the lines it stands for, and lists the
runs, the mutants that show each property can fail, the disagreements between
code and comments, the hazards and the theorems.

Paths below are relative to `src/`.

## 1. Inventory

### The system

One Python process, the **runner** (`scripts/run_deployments.py` →
`core/deployment_runner.py`), polls every five seconds. It is single-threaded.
Around it, and not synchronised with it, run

* the **expert advisor** (`mql5/MT5BridgeFile.mq5`) inside the MT5 terminal,
  which polls a directory for request files and writes reply files;
* the **broker**, which closes positions by itself (server-side stop and
  target, or a human) and whose position list and deal history are two views
  that need not agree at one moment;
* the **dashboards** (`dashboards/`, Streamlit processes), which rewrite
  `deployments.json`, `circuit.json` and candle files and start or stop things;
* **scripts** run by an operator, above all
  `scripts/reconcile_missing_live_closes.py`, which writes the journal's table,
  and `scripts/refresh_all_data.py`, which rewrites candle files.

What survives the runner's death: the SQLite database of the account
(`core/storage.py`), `runner_state.json` (bar markers and open tickets, written
by temp file and rename), `deployments.json` (rewritten in place), the parquet
files of candles (replaced by rename by the runner, in place by the others), and
the request files not yet executed. Everything else, including the shadow books
and the idempotency keys of orders, is memory.

### Components

| component | state | operations | hard behaviour | what makes it correct |
|---|---|---|---|---|
| Close reconciliation (`core/live_close_reconciler.py`, `DeploymentRunner._reconcile_live_closes`, `_persist_closed_trade`) | map of open tickets (memory and disk), per-deployment row counter, trades table | find vanished tickets, fetch deals, check the key, insert, trim and save the map | crash or shutdown between insert and save; deals later than positions; failed insert; second attempt | a close is one row, not early, never forgotten; numbers dense and free |
| Close backfill (`scripts/reconcile_missing_live_closes.py`) | its own snapshot of deployments and map, own counter | scan 168 h of deals, attribute, insert | second process on the same table; made-up contexts; being run twice | the same journal properties, when it runs alone |
| Deployment runner (`core/deployment_runner.py`) | bar markers, tracked tickets, row counters, position snapshot of the tick | `tick_once`, `_tick_deployment`, `_mirror_opens_to_broker`, force-flat, bridge alarm, state file | several deployments on one snapshot; rejected, late or lost orders; markers rolled back; crash or shutdown between order and save | one order per signal and process, two positions on a symbol only by an order gone astray, no signal marked done while its order is in the making, no bar for ever |
| Live executor (`core/live_executor.py`) | recent keys, rate window, last account check | `send_order`, `close_position` with retries | the reply may never come | an order passes all gates; a key is not sent twice within its window |
| Shadow book and strategy tick (`core/paper_executor.py`, `core/runner.py`) | open positions, idempotency keys, closed trades | `update_bar`, `open`, `tick` | stop and signal on the same bar, in that order | one position per symbol and book, one open per key; the same trades as the backtest |
| Position guard (`core/position_guard.py`) | none | `check_open` under strict, side_match, hedging | decides on a snapshot that may be old | blocks what its policy says |
| File bridge (`core/mt5_account.py`, `mql5/MT5BridgeFile.mq5`) | request and reply files | write request, poll, execute, reply, delete | timeout while the request file stays; half-written replies; advisor dying between effect and delete | only a stop of the terminal repeats an effect; an answer means an effect |
| Circuit breaker (`core/circuit_breaker.py`) | none but `circuit.json`; reads trades | `evaluate`, `enforce` | `enforce` saves the list it loaded once per deployment, while others write | unless the user has switched halting off, HALT takes every live deployment down and nothing puts it back |
| Deployment store (`core/deployment.py`) | `deployments.json` | load, save, upsert, remove, update_status | load-modify-save by several processes, truncating write | a stop holds; no live status out of nowhere |
| Dashboard pages (`dashboards/`) | the list as a page loaded it | buttons, forms, tables, settings, emergency stop | rows and lists saved as they were loaded, however long ago | the store's |
| Backtest and replay (`core/backtest.py`, `core/replay.py`, `core/parity_check.py`) | one position, balance, equity, trades | one bar: levels, holding time, forced flats, entry, end of data, marking | several things on one bar, in each engine's own order | the same positions, money and trades; curve and trades reconcile |
| Position sizing (`core/position_sizer.py`) | none | `calc_lots` | minimum lot, step, decimals, ceilings | never more than 10 % over the budget, and no step short of it |
| Time guards (`core/time_guards.py`) | none | window predicates | ends of windows, Fridays, bars that straddle | no position through a forced flat |
| Data synchronisation (`core/data_sync.py`, `core/data.py`, `scripts/refresh_all_data.py`) | one parquet file | load, fetch, append, rename; refresh in place | torn files, two ways of writing, the bar still forming | no hole in recent bars; a bar reaches the file; alone nothing stored is lost or reopened |
| Strategies and indicators (`strategies/`, `core/indicators.py`) | none; functions of the history | `signals` | decisions that use later bars; two signals on a bar; memory within a session | the tick acts on what a backtest of the stored history trades |
| SQLite journal (`core/storage.py`) | trades, bridge_events, parity_log, … | single-statement writes | lock errors, constraints | primary key and CHECKs |
| Emergency stop (`core/account_manager.py`, `core/position_manager.py`, the panels of the command centre, the risk page and the banner) | a file `EMERGENCY_STOP`; the list of positions being closed | touch, clear; `close_all` → `close_one`; kill the runner; halt the live deployments | each call is a step while the runner ticks on; closes that fail or are late; halting comes last | what was listed is closed or reported; only what was under way still opens; no order while the file is there |
| Risk engine, parity gate, paper loop, adaptive risk, calendars, edge decay, configuration, studies, catalogues | | | | see section 6 |

### How they interact in one tick

`tick_once` loads `deployments.json`; with no active deployment it returns.
It asks the circuit breaker (which reads the trades table), on HALT lets
`enforce` flip the live deployments to `halted` and **returns**; checks the
account; takes one snapshot of the open positions; reconciles vanished tickets
(two bridge reads, then one insert per close, then one save); then ticks each
active deployment in turn: demote it if its edge has decayed; bring its candles
up to date; new bar? mark it; update the shadow book; ask the strategy; check
the guard against the snapshot; size and open on the shadow book; persist
shadow closes; and mirror the opens of live deployments: read the positions
again, pass the executor's gates, write the request, wait at most 10 s, wait at
most 15 s to see the position. At its end the tick saves the bar markers and
the ticket map and flushes freshness fields into `deployments.json`. Every
bridge call, file access and insert can raise, and each is caught at a different
level; which level decides what is rolled back.

The full list of hazards, each at its line, is in `PROJECT.json`.

## 2. Modules

### TradeJournal: what the journal promises

The abstract specification: a set of open positions and a number of rows per
ticket. A position is closed once; a closed position is journalled once. No
process, file or crash.

### CloseReconciler: how the runner keeps the promise

State and code:

| variable | code |
|---|---|
| `position`, `deal` | the broker: `positions_get`, `history_deals_get`; an OUT deal is booked, then shown, and may leave the 48 h window |
| `status` | `deployments.json` |
| `trades`, `saved` | the trades table; `open_live_tickets` of `runner_state.json` |
| `snap`, `tracked`, `next` | deployments loaded by the tick; `_open_live_tickets`; `_trade_idx_by_dep` |
| `todo`, `fetched`, `settled`, `dirty`, `job`, `pc` | the local variables of `reconcile_vanished_tickets` and where the thread is in it |

One handler is many steps, because the broker, the dashboard and death come in
between: `BeginTick`, `ReadPositions`, `FetchHistory`, then per ticket in order
`SkipPersisted`, `Unmatched` or `BeginPersist` → `Hydrate` → `Insert`,
then `Settle` and `EndTick`. Each call that can raise has its failing twin
(`ReadPositionsFails`, `FetchHistoryFails`, `InsertFails`). `HaltTick` is the
tick the breaker ends. `ShadowClose` is the other writer of the same table and
counter, the paper book of the same process. A `Crash` may come at any step;
`Restart` reads the state file.

Abstractions: every close is a loss of one unit, so the breaker's rules become
"HALT after `HaltAt` live rows" (which rule fires is not the subject here);
tickets are handled in ascending order, as dict insertion order has them;
`Tracked` is the content of the map the process starts with.

The process ends in two ways. A `Crash` saves nothing. A `Stop` (SIGTERM or
SIGINT, `DeploymentRunner.stop`) waits for the running tick, but not for ever,
and saves the map as it then is, in the middle of the tick if need be.

Two things about the input matter. **The model starts from a filled map.** At
the modelled commit nothing is ever put into it (section 5). CloseReconciler
verifies the machinery given a map, as its tests do; LiveOrders shows what is
fed to it. And **the reader of positions finds none**: the advisor stamps magic
770070 on every position (`Stamp`, `mql5/MT5BridgeFile.mq5:223`) and the reader
keeps those of 999001 (`BOT_MAGIC`, `core/deployment_runner.py:1864-1870`), so
`BotTickets` is empty and every tracked ticket, open or not, is looked for in
the deal history on every tick. What protects an open position from being
journalled is only that it has no closing deal yet; one closed in part has one.

### CloseBackfill: the recovery script beside the runner

Extends CloseReconciler with a second process. Its window shows aged deals too,
its rows are always `live`, its counter is never given back, and for a ticket
that the state file does not know it makes a context up (`Guess`, `Contexts`)
keyed by the number of the **opening deal**. `beside`, chosen once per
behaviour, says whether it may run while the runner is up; the script can die
anywhere (`ScriptEnd`). `Candidates` are the deployments it may guess for a
ticket: in the run, any.

### LiveOrders: from a signal to a position

| variable | code |
|---|---|
| `bar` | the last bar of each deployment's candles, as a rule still forming |
| `requests`, `positions` | request files of `order_send`; every position the broker ever had: filled, listed by `positions_get`, closed |
| `saved`, `seen` | `last_seen_bar` on disk; `_last_seen_bar` |
| `up`, `crashes`, `ending` | the process, how often it ended, and how far `stop()` is: joining the tick thread, or past the last save |
| `held` | `open_positions_snapshot` of the tick |
| `shadow`, `keys` | the PaperExecutor of each deployment: open position, `_idempotency_keys` |
| `sent` | `_seen_keys` of the LiveExecutor |
| `pc`, `left`, `cur`, `reply` | where the thread is: tick, guard, send, wait, verify |
| `astray` | orders sent while the positions could not be read, and orders the runner lost sight of (recorded for the properties) |

`NoNewBar`, `SizingRefused`, `TickQuiet`, `TickOpenNotMirrored` and `TickOpen`
are the ways `_tick_deployment` can end; `GuardRefuses` to `Phantom` are the
ways `_mirror_opens_to_broker` can. Nothing is assumed of the outside: the
advisor executes or rejects a request whenever it likes, also after its caller
gave up (nothing deletes the file); a reply counts only while the runner waits
for that request; a fill is listed some time later; each read of the positions
may fail, the snapshot's (an empty one is used), the guard's (`GuardBlind`: the
order is sent) and the verification's (`Phantom`). `Gates` are the ways a tick
may be kept from opening, which an instance switches on. Prices, sizes and sides
are left out; the strategy is the set `Fires`. The reconciliation inside a tick
saves the markers only if the ticket map is not empty, and at this commit it
never is, so the markers are saved by `EndTick` and by the shutdown.

The snapshot does not see a broker position either, for the same two magic
numbers (`BrokerHeld`): only paper books of paper deployments are in it, and
what keeps two live deployments off one symbol is the second read in the
mirror.

An orderly end is three steps: `Shutdown` (the signal; no tick begins any more),
`LastSave` (the main thread has waited `poll_seconds + 5` s and saves the
markers, wherever the tick thread is) and `Exit`. The tick goes on between
them: a mirror may take 10 s for the reply and 15 s for the verification.
`Crash` saves nothing.

### EmergencyStop: the operator beside the runner

Extends LiveOrders with one handler of the command centre, which runs in
another process and makes its calls one by one:

| variable | code |
|---|---|
| `stops` | the directories that hold a file `EMERGENCY_STOP` |
| `desk` | where the handler is: `Activate` → `ListOpen` → `CloseOk` or `GiveUp` for each ticket → `KillRunner` (a SIGTERM, hence a `Shutdown`) or `LeaveRunner` → `HaltLive` |
| `todo` | the tickets `close_all` has still to close |
| `due`, `late` | what it listed and did not give up; what was under way when it halted (recorded for the properties) |

`RunnerStep` is every step of LiveOrders, with the executor's look for the file
added to `Send`. Where the executor looks, `EmergencyStopDir`, and where every
page touches, `StopDir`, are two directories: the runner passes none, and the
default is the directory of the account's database. Everything else that can
happen (a position closed by the broker while it is being closed, a close
executed after its caller gave up, a list of positions that is old or cannot be
read, the runner started again by launchd, somebody promoting a deployment in
the middle) is LiveOrders'. That the halt is itself a load and a save of a file
others rewrite is DeploymentStore's subject; here it is one step.

### BridgeCalls and FileBridge: how a request reaches the advisor

`BridgeCalls` is what a caller may rely on: a call is made, performed, perhaps
repeated, and may return; giving up says nothing about its effect. `FileBridge`
is how the two sides keep it, file by file:

| variable | code |
|---|---|
| `caller` | where each `_default_bridge_call` is: before the rename, polling, parsed, one file removed, returned, timed out, or its process gone |
| `req`, `rep` | the two files named by the call's uuid: a request under its `.tmp` name or visible, a reply being written or whole |
| `advisor`, `serving` | where `OnTimer` is between reading a request and deleting it |
| `effects`, `stops` | how often a request was performed; how often the terminal was stopped |

The advisor is one thread, the callers are many. `FileOpen(FILE_WRITE)` empties
the reply before it is filled, and the client polls on while it does not parse.
Either side may delete the request. A stop between `Execute` and
`DeleteRequest` leaves a request that was performed, and `OnInit` looks at
nothing, so it is performed again.

### DeploymentStore: who may make what live

`deployments.json` and its writers. Nobody locks; every change loads, changes
and writes the whole list, truncating the file first.

| variable | code |
|---|---|
| `form`, `disk` | the file: whole, empty between truncation and write, or a mixture of two writes; the status of each row |
| `stage`, `mem` | per writer, where `save_deployments` is, and the list it loaded or writes |
| `todo`, `goal` | per dashboard session: the calls the clicked handler still makes; the user's wishes in the list being written |
| `pc`, `left` | the runner in `tick_once`; the active deployments it has loaded and not yet ticked |
| `breach` | what the circuit breaker has for the next tick: nothing, a HALT, or a HALT with `halt_on_breach` off, which is an alarm only; arbitrary here. It changes between ticks, which ask for it once, at their beginning: by trades and midnight (`Verdict`), or by the settings page and the command centre (`SetHalting`) |
| `stopped`, `promoted` | what users last stopped, and ever promoted (recorded for the properties) |
| `careful` | chosen once per behaviour: no two updates overlap, and a row is edited only as it is in the file |

A Streamlit page is a script that runs again at each click, so a handler works
on the list the click's run has loaded: `OpenPage`, then one of the buttons
(`Press` with the buttons each kind of card has, `StartAll`, `StopAll`), forms
(`DeployCell` of the backtest page, `AddRow` of the strategy library,
`DeployPortfolio` of the composer), rewrites of the loaded row (`Rewrite`: the
command centre's health panel, the paper page's promotion), edits (`EditSetting`, `EditTable` of the
command centre), `SaveSettings`, `EmergencyStop`. A handler that makes several
store calls makes them one by one (`Ask`). The runner's three writes are
`Enforce`/`Halting`, `Demote` and `Flush`. On an alarm `Enforce` returns at
once (`core/circuit_breaker.py:258`); the tick of a HALT ends there all the same.
Settings other than the status are the row they travel in.

### PositionSizer and TimeGuards

Pure operators, in integers: hundredths of a lot, minutes since a Monday.
`CalcLots` keeps the order of floor, minimum, maximum, ceiling, rounding to the
step's decimals and final refusal; `InCloseWindow` the inclusive ends.

### ReplayParity: the two engines

| variable | code |
|---|---|
| `cfg`, `times` | `TimeGuardCfg` with `sizing_uses_running_balance`, and the bars' opening times; chosen once; any configuration, the one `run_parity` makes up without arguments included |
| `bt` | the locals of `run_backtest`: position, balance, equity, trades closed on this bar, and the sum of what all trades realized |
| `rp` | `PaperExecutor` and the locals of `replay_run` |

One action, `Bar`, hands one bar and its signals to both engines. Each has its
own operators in its own order, because that order is the subject:
`BacktestBar` is levels and holding time, forced flat, entry, end of data, mark;
`ReplayBar` is levels and forced flats, holding time, open, end of data, mark.
Both look a bar's signals up in a dictionary by bar, so the last one counts.

### DataSync: one candle file

| variable | code |
|---|---|
| `now` | the bar forming at the broker |
| `disk` | the parquet file: missing, torn or whole, with its bars, each forming or closed when fetched |
| `pc`, `loaded`, `fresh` | the runner in `sync_to_now`: `existing`, the fetched frame |
| `stage`, `copy` | a refresher: fetching, or writing in place; what it writes |
| `helpers` | which refreshers a behaviour has, chosen once |

The runner's temporary file is read by nobody, so write and rename are one
step; the refreshers' writing is two, opening (`SaveParquet`, which tears the
file) and finishing. Two that write at once may leave a torn file
(`clashing`); one whose file was replaced under it writes into nothing
(`orphaned`). `CopyRates` starts with the bar still forming, hence the state of
a bar.

### Indicators, Signals, strategies, LiveSignals

`Indicators` has the rolling and exponential averages, ATR, RSI and bands in
integer arithmetic, `Signals` the parts strategies share, and
`BarStrategies`, `SessionStrategies` and `PatternStrategies` one operator per
strategy: the set of signals (bar, side, entry, stop, target, holding time) its
`signals()` returns for a history, and the number of bars it asks for. The
options are each strategy's defaults, for `support_resistance` and its short
twin also each of their filters. What an option switches is left out: without
`pivot_reaction_zone`'s reversal candle, for one
(`strategies/pivot_reaction_zone.py:116-175`), a bar could carry a long and a
short. Periods and thresholds are the record `P`.
The volatility of log returns, which `vol_break` and `orb_vol_filtered` ask for,
is a field of the bar (`wild`), since a logarithm is out of reach.

A strategy's definition is in two parts, what it finds on one bar (`EmaCrossAt`,
the body of the loop) and the loop (`Scan`); what a loop remembers is a recursive
function of its own (`Opens`, `DayFlags`, `Fired`, `Active`, `Setup`,
`Rebalances`).

`LiveSignals` is a deployed strategy as its **stored** history grows (`Store`).
The runner appends a bar when it first sees it, as a rule while it is still
forming, never revises it, and judges it once; `candles` are the bars as they
were first seen, among the shapes flat ones of which only the open is known. A
tick hands the whole history to the strategy and acts on the signals of the last
bar (`live`). Where no tick does, because the runner was down or gave the tick up
after noting the bar, they are `missed`. A backtest of that history acts on all
of them (`backtest`). A backtest of the bars as they closed is one of another
history, and may find other signals: that difference, and a refresher that
rewrites the file, are DataSync's subject and not compared here. Prices are
whole points, and the market stays where they are fine enough (`Worth`, a bound
of the model): the percentage of the price that `tsmom` puts between entry and
stop is at least one point.

## 3. Runs

| run | asks | bounds and why they suffice |
|---|---|---|
| `close` | all safety of CloseReconciler, the refinement of TradeJournal, and that every close reaches the table if the deployment stays active | two tickets of one deployment share a counter and a tick; one of them may close in parts; one shadow close competes for numbers; two losses halt; deals may age out of the window; the dashboard removes the deployment and brings it back; any number of crashes, shutdowns and faults, under the fairness below. The proofs cover any number of deployments, and `backfill` runs with two |
| `backfill` | the script beside the runner: nothing forgotten, nothing early; alone, one row per tracked close and only free numbers | a tracked ticket and one the map has lost, whose context is made up with either of two deployments, so that the script numbers rows of a deployment it shares with the runner and of one it does not; at most three rows when a script starts; deployments removed by the dashboard; deals age out of the runner's window but not the script's. The proofs cover any tickets and deployments |
| `emergency` | what is still open after an emergency stop; one order per signal and life of the process; two positions on a symbol only by an order gone astray; no bar on disk as handled while its order is in the making; the runner gets level with the market | one deployment and one bar that is evaluated again and again; everything unreliable: late execution, lagging and failing reads, timeouts, refusals, expiring keys; one end of the runner, a crash, a shutdown of its own or the operator's; demotion and promotion in between; the handler any number of times. The proofs of the safety properties cover any number of deployments, sharing symbols, of bars and of ends |
| `doubled` | never two positions on a symbol: refuted | one deployment, two bars, nothing ends |
| `stop_ignored` | no order while the stop file is there: refuted | one bar |
| `bridge` | the file protocol implements the abstract calls; only stops repeat a request; a request whose caller gave up is still performed | two calls side by side, three stops: one for every gap between execution and deletion of either call, and one more |
| `deployments` | a stop holds, no live status is invented, a breach ends live trading while halting is switched on | two deployments (one changed while the other is halted), one dashboard session beside the runner, who are two writers of one file; users ask for live, paper and idle; one writer dies |
| `parity` | same books, same trades, reconciled curves, forced flats, sized to the budget | calendars of up to four bars: enter, hold, exit, enter again and end; a Friday close with the weekend after it, a weekday close, a single bar; a quiet, a rising, a falling bar and one that reaches both levels; every direction, two distances, with and without a holding time, two signals on one bar; five configurations of the guards, `run_parity`'s default among them |
| `parity_default` | the same trades without any condition: refuted | the same bars and signals under the default configuration |
| `data` | no hole in the recent bars, nothing lost alone, every bar reaches the file | both refreshers, the runner's window of two bars against a refresher's three, five bars so that either window slides past what is stored, one kill |
| `strategies` | what the ticks acted on or missed is exactly what a backtest of the stored history finds; one signal a bar, and far enough apart | 22 strategies, and the two `support_resistance` ones with each filter; six to nine bars of three or four shapes; days end after a set number of bars |
| `look_ahead` | the first of these for four more strategies: refuted | the same |

Two actors of each kind are where the interesting interleavings are: two
tickets in one loop (one fails, the other does not; a crash between them), two
writers on one counter or file, two deployments on one snapshot. A third adds
another instance of the same pair. Bounds by name: `MaxShadow` (shadow rows),
`MaxRows` (the script is not started with more rows), `MaxBars`, `MaxCrashes`,
`MaxStops` (stops of the terminal), `MaxBar` and `MaxKills` of DataSync,
`Wishes` (what users ask for), `Length` of LiveSignals; crashes of
CloseReconciler need no bound because a crash only clears memory. `MaxCrashes`
bounds the ends of the process in LiveOrders, orderly ones included. Indicator
periods are two to four bars, so that a history of six to nine bars passes the
warm-up and leaves room for a signal, a rest and a second signal; shapes and
lengths were chosen per strategy so that each finds signals after its warm-up.
The deadlock check is on except in `bridge` (every call may have ended),
`parity`, `parity_default`, `strategies` and `look_ahead` (a history ends).

### Properties worth explaining

The journal:

* `NoDoubleJournal`: the check (`already_persisted`) and the insert are two
  statements, and the map is saved after the insert. A crash, a failed save or
  a retry in between must not write the row again, else the breaker counts a
  loss twice.
* `NothingForgotten`: a ticket leaves the map only with its row written. It is
  violated as soon as some error path counts as success.
* `DenseIndices`, `FreshIndex`: the counter is read from the table once and then
  lives in memory; a failed insert gives its number back. An error here makes
  every later insert of the deployment fail on the primary key.
* `JournalOnlyDealt`: positions, deals and table are read at three moments, and
  the reader of positions finds none. A row still tells a deal that was made,
  and one that tells the last deal is of a position that is gone. More does not
  hold: a position closed in part is journalled while the rest is open, and the
  close of the rest never is, since the row carries the ticket's key
  (section 5).
* `AloneInOrder`: one row per tracked close, and neither counter (the runner's,
  the script's) on a number that is taken, in a behaviour where the script runs
  only while the runner is down (`~beside`). Where both run, check and insert of
  one fall between those of the other, and neither holds; what still holds is
  `BesideInOrder`: nothing early, nothing forgotten. It says nothing of a
  ticket the map has lost, whose made-up row a second run of the script writes
  again (section 5).
* `ClosesReachJournal`: through failed fetches, refused inserts and crashes, as
  long as the deployment stays active and the breaker says no HALT, which would
  end every tick before the reconciliation; and unless faults last until the
  deal has left the window.

Orders and the bridge:

* `DoublesAreAstray`: all deployments of a tick decide on one snapshot, which
  does not see broker positions; a second read in the mirror and the order of
  the sends make it right. What the comment there claims
  (`OnePositionPerSymbol`) is false, as `doubled` shows: a request that timed
  out may be executed after the next order was sent. What holds, without any
  assumption, is that of two positions on a symbol one at least comes from an
  order sent while the positions could not be read, or one the runner gave up on
  or died over. A deployment that skipped the second read, or sent two orders
  before it looked again, would violate it.
* `OneOrderPerSignal`: rejections, timeouts and phantoms roll the bar marker
  back, so the bar is evaluated again; the shadow book's keys and the executor's
  window must stop the second order. It is about one life of the process, since
  the keys are memory: a runner that died before it saved the marker sends the
  signal again.
* `SavedMeansHandled`: the markers are saved at the end of a tick, and not while
  an order is in the making, so that a restarted runner evaluates the bar of an
  order a crash interrupted. The exception it states is the last save of a
  shutdown, which does not wait for the order (section 5).
* `BarsAreEvaluated`: markers are rolled back by refused and lost orders and by
  crashes; for a deployment that stays active the runner is again and again
  level with the market, provided its candles can be fetched (the run has no
  gate `"candles"`; with it they may fail for ever).
* `OpenAfterStop`: the handler closes first and halts last, and the runner ticks
  in between. A position that was listed is open afterwards only if its own
  close failed; and from the halt on, only what was under way at that moment
  (a request already written, the order in the making, the rest of the running
  tick, on the bar it then finds) may still become a position, until somebody
  makes something live. A tick that kept its list of deployments for the next
  one, or a close that ended the batch, would violate it.
* `OncePlusStops`: nothing in the protocol remembers what was performed. The
  order of reply, deletion by the advisor and deletion by the client must make
  a second reading impossible for callers that wait, give up or die; a stop of
  the terminal costs one repetition. `LiveOrders` has no stop of the terminal:
  its claims are about a terminal that keeps running.
* `EveryRequestPerformed`: a timeout is not a refusal. This is why LiveOrders
  lets a request be executed after its caller gave up.

The deployment store:

* `StopsHold`: a deployment a user stopped stays stopped, through the breaker's
  repeated saves of one list, demotions, the flush, multi-call handlers and
  crashes in a half-written file. It is stated for `careful` behaviours. In the
  others it fails in two ways the code admits: two load-modify-saves overlap and
  the later one writes the older status back, or a row is edited (a risk
  setting on a card, the command centre's table, the settings page) on a page
  that was loaded before the stop.
* `NoneInvented`: without any such condition, nothing becomes live that no user
  ever made live. A torn or empty file is refused by every reader.
* `BreachEndsLive`: while a breach lasts, halting is switched on and the
  dashboard is quiet, the file ends without a live deployment, whatever was half
  done before. With halting switched off nothing is demoted.

Engines, sizing, data:

* `SameBooks`, `SameTrades`: what `core/parity_check.py` compares at the end of
  a run, here after every bar, wherever both engines are told the same of the
  daily flat (`Aligned`). They are told so by every configuration a caller
  passes; by the one `run_parity` makes up they are not, and `parity_default`
  shows what becomes of it. The reasons of the closes are equal but for one
  case, which `ReplayReason` gives exactly: where a bar ends both the holding
  time and the session, the backtest names the first and the replay the second.
  `tests/test_replay_parity.py:123-125` asks for equal reasons in runs without
  guards, where `ReplayReason` changes nothing; its runs with guards (from line
  194 on) compare numbers of trades and money.
* `Reconciles`: at the end of the data the curve of either engine has moved by
  the sum of what its trades realized, commissions included, which is booked
  trade by trade (`realized`) apart from the balance. An exit that reached only
  one of the two, or a last point marked with an open position, would violate
  it. It holds under every configuration.
* `FlatsHold` is the weekend and end-of-day rule (INVARIANT-8) stated over bar
  closes, apart from the guard's own predicates: no position is carried through
  a bar that closes in its window, except one opened on that bar where entries
  are not refused for as long. Each engine flattens daily as it was told to.
* `SizedToBudget`: minimum lot and rounding may exceed the budget, by at most a
  tenth, and the size is never a step below what the budget allows. It
  covers sizes between the broker's limits; the configurations have no user
  ceiling.
* `RecentBarsWhole`: the rename and the rewriting in place may cross, files may
  be torn and long histories replaced by short ones, yet what strategies look
  at, the last `Count` bars, has no hole.
* `KeptAlone`: where only the runner writes, the file is never torn, no stored
  bar is lost and none stored closed goes back to forming. Of a bar stored while
  it was forming nothing is claimed: `tests/test_data_sync.py:209-213` would have
  the newer fetch replace it, the code keeps it as it was (section 5).
* `BarsReachDisk`: every bar reaches the file, so a torn file is repaired.

Strategies:

* `SignalsStand`: what the ticks acted on or missed, one growing history after
  the other, is what a backtest of the complete stored history finds, from the
  bar on at which the strategy has as many as it asks for. It fails as soon as a
  strategy uses a bar that is not there yet, takes a signal back, or forgets
  something between two ticks that it remembers within one call. Holding times
  are left out of the comparison: `orb` counts the bars of the history in it.
* `OneSignalPerBar`: the tick opens the first signal of a bar, the engines the
  last.
* `TradesApart`: strategies with a rest after a signal, or one trade a
  session, keep to it although each tick starts from nothing.

### Fairness

`CloseReconciler!FairSpec`: weak fairness of the broker's history catching up
and of the restart (`scripts/install_runner_launchagent.sh` installs the runner with
`KeepAlive`, so launchd starts it again); strong fairness of each runner step, which says that a fault does not
hit the same step for ever: the loop polls for ever, and a bridge error or a
locked database is temporary. Nothing is assumed of the dashboard or the
broker's closing. `LiveOrders!FairSpec`: weak fairness of the runner's thread,
of the last save and the exit of a shutdown once begun, and of its restart only;
the advisor may be silent for ever, which ends in a
timeout. `EmergencyFairSpec` adds nothing: neither
the operator nor the dashboard is assumed to do anything. `FileBridge!FairSpec`: the timer keeps firing and a stopped terminal
is started again (`scripts/keep_mt5_alive.sh` looks every 30 s), and the
directory scan of `OnTimer`, which goes through every file, does not pass over
one request for ever; nothing is assumed of the callers.
`DeploymentStore!FairSpec`: weak fairness of the runner's loop (its tick,
enforcement and the way through the deployments) and of a write once begun;
nothing is assumed of users, demotions, flushes or the breaker's verdict.
`DataSync!FairSpec`: weak fairness of the load and of noticing that there is
nothing new, strong fairness of fetching and saving: the runner ticks for ever,
and neither the bridge nor the disk fails each time. Nothing is assumed of the
refreshers.

## 4. Proofs

`CloseReconcilerProofs` proves, for every set of tickets and deployments, every
owner map and every bound that `ConstAssumption` admits:

* `TypeCorrect` (`TypeOK`) and `NumberingDense` (`DenseIndices`), with no
  further assumption;
* `NeverForgets` (`NothingForgotten`), with no further assumption, even if reads
  of the table raise;
* `NumberingFresh` (`FreshIndex`) and `JournalledOnce` (`NoDoubleJournal`),
  assuming `~ReadFaults`: a SELECT that raises is taken for "not stored" and for
  "no rows", and then neither holds (see below);
* `JournalledWhenDealt` (`JournalOnlyDealt`), with no further assumption;
* `ImplementsJournal` (`JournalSpec`), assuming `~ReadFaults`.

The argument. `TypeInv` is `TypeOK` with `IndexInv`: the numbers of a
deployment's rows are exactly `0..n-1`, and a hydrated counter is at
most `n`, and exactly `n` if reads of the table do not fail. That
needs the process to be the only writer of the table; with a second one the
weaker `TopInv` below takes its place. `ForgetInv` adds to `NothingForgotten`
that every settled ticket has its row (under the very key the check looks for)
and that every tracked ticket missing from memory or disk has: the settled set
is what `Settle` removes. `OnceInv`
adds that the ticket being persisted has no row yet, which carries the answer of
the check over to the insert. `DealtInv` adds that the deals fetched, and the
one being persisted, were made, which carries the history's answer over the same
gap; deals are not undone. The refinement maps a step to `Close`, `Journal` or a
stutter; `Insert` is the only `Journal`, and is one because of `OnceInv` and
`DealtInv`.

`CloseBackfillProofs` uses those lemmas again, for a step of the runner is a
step of CloseReconciler, and proves for any tickets, owners and guesses, and any
number of runs of the script:

* `BackfillTypeCorrect` (`BackfillTypeOK`), with no further assumption. A second
  writer leaves gaps and starts in the middle, so `0..n-1` is lost; `TopInv`
  keeps that the numbers of a deployment, if it has any, have a largest, which
  is all that `MAX(trade_idx) + 1` needs;
* `BesideKeepsOrder` (`BesideInOrder`), the two run at any time, assuming that
  no opening deal has the number of a position (`DealsApart`; the two are separate
  series at the broker, but a made-up row is keyed by the one and looked up as the
  other, and with a shared number the runner would take another trade's row for
  its own). Reads of the table may fail, and positions may close in parts;
* `AloneKeepsOrder` (`AloneInOrder`), assuming `~ReadFaults`. The invariant
  `AloneInv`: at most one of the two processes is up, the one that is not
  remembers nothing, and the script's copy of the map is the file (`OneUp`);
  hence what one has read of the table, a key that is missing (`StillUnstored`)
  or the largest number (`CountersAbove`), stays true until it inserts. A
  tracked close is always keyed by its ticket (`TrackedKeys`), because by
  `ForgetInv` a ticket that has left the map already has its row. It is
  `TrackedOnce`, not `NoDoubleJournal`, that is inductive here.

`OrdersProofs` proves of LiveOrders, for every set of deployments, every symbol
of each and every set of signals (`OrdersAssumption` asks only that `"nobody"`, the mark
of an idle runner, is not a deployment):

* `TypeCorrect` (`LiveOrdersTypeOK`);
* `ExecutedOnce` (`OneOrderPerSignal`), whatever the bridge and the position
  list do, in each life of the process. The invariant `Once`: the shadow book's
  keys hold every signal from the moment its order is in the making, so that a
  bar that is evaluated again cannot send a second one, and a request is not
  executed again once it was;
* `NeverDoubled` (`DoublesAreAstray`), with no further assumption. The invariant
  `SureInv`: of the orders that did not go astray, every open position is listed
  unless its order is the one being awaited or verified (`SureListed`), the only
  request is that one (`SureRequests`), from the passed guard to the reply the
  symbol has no such position (`SendsAlone`), and a reply tells a position of
  its own request (`RepliesTrue`). So the second read sees what it has to see,
  however late fills are listed: the runner does not go on to another order
  before it has seen the last fill or given it up for lost;
* `HandledWhenSaved` (`SavedMeansHandled`), whatever the bridge does. The
  invariant `MarkInv`: the marks never run ahead of the market; while a process
  lives and has not made its last save, a bar not marked in memory is not marked
  on disk either, though a roll-back lowers only the memory's mark; and the order
  in the making, if any, is of such a bar.

and of EmergencyStop, for every set of deployments and signals:
`EmergencyTypeCorrect` (`EmergencyTypeOK`), `StopSettles` (`OpenAfterStop`), and
again, beside the handler, `ExecutedOnceBesidePanel`, `NeverDoubledBesidePanel`
and `HandledWhenSavedBesidePanel`. The invariant `StopInv` adds to
the typing of LiveOrders that tickets are given out once and in order
(`TicketInv`), that a ticket which left the handler's list was closed or given
up (`DeskInv`), and that while nothing is live every request, the order in the
making and every deployment the tick still holds as live was under way when the
handler halted (`LateInv`): nothing can join that set, because a tick that
begins later loads no live deployment. The last three reuse the step lemmas of
LiveOrders: to the runner, the handler's closes are closes by hand and its kill
is a shutdown.

`FileBridgeProofs` proves, for any calls and any number of stops,
`RepeatedByStopsOnly` (`OncePlusStops`) and `BridgeTypeCorrect`
(`BridgeTypeOK`). The invariant `BridgeInv` says which requests may still be
performed, namely those visible or not yet visible but not being retired, and
that these have been performed at most `stops` times: a stop adds one to the
bound and gives back what was being retired.

It also proves `ImplementsCalls` (`BridgeCallsSpec`): the protocol implements
the abstract calls, for any calls, of which there may be infinitely many. The
abstract counter of repetitions is the size of the set of pairs (call, n) such
that the call was performed an n-th time, n > 1. That it never exceeds the stops
is not inductive, because a request whose file is still there will be repeated.
`DebtInv` counts these as well: repetitions made **and owed** are at most
`stops`. A performed request owes one as long as the advisor may still read its
file again (`Owed`); a stop adds at most one debtor, the request that is being
served, and performing one pays what it owes. `ReplyInv` gives the other steps:
what a caller parses was written after the request was performed.

`DeploymentStoreProofs` proves, for every set of deployments and sessions and
any bounds: `StoreTypeCorrect` (`StoreTypeOK`), `NeverInvented`
(`NoneInvented`) and `StopIsFinal` (`StopsHold`). The invariant `OriginInv`
follows a live status to wherever it may hide: the file, the lists loaded or
about to be written, the calls a handler still has to make, the runner's copy;
wherever it is, a user put it there. `StopInv` is about careful behaviours: at
most one update is under way, and the list it carries has no deployment live
that is stopped, except those whose promotion that very write carries.

`ReplayParityProofs` proves, for any bars, signals, calendars, symbol and
configurations that the assumptions admit: `ParityTypeCorrect`
(`ParityTypeOK`), `ReplayIsBacktest` (`SameBooks`), `TradesAgree`
(`SameTrades`) and `CurvesReconcile` (`Reconciles`). The invariant `ParityInv`
joins typing, equal books and the reconciliation; the step is proved stage by
stage (levels and flats, entry, end of data, marking), with a case for the bar
on which holding time and forced flat meet. No configuration is excluded:
equal books and trades are proved of those that tell both engines the same
(`Aligned`), everything else, `CurvesReconcile` and what follows included, of
every configuration.

It proves further what the guards and the sizing owe the account:

* `NotHeldThrough` (`FlatsHold`), with no further assumption: what the property
  calls a flat bar, by the arithmetic of weeks and days, is one the guards of
  both engines see (`FlatSeen`), and of such a bar the engines keep no position
  but one opened on it where entries are not refused for as long
  (`PositionAfter`);
* `RiskIsCapped` (`RiskCapped`): no position of either engine risks more than
  110 % of its budget, for **every** symbol, whatever its step, minimum and
  maximum: the final refusal of `calc_lots` is behind every path to a size;
* `SizedRight` (`SizedToBudget`): nor is a position a step below what the budget
  allows, assuming `GradedVolumes`: the step is one that its last digit can
  express, the minimum is on the grid and below the maximum, as brokers quote
  volumes. Without it, rounding to the step's decimals leaves the grid (section
  5). `LotsFacts` follows
  `CalcLots` stage by stage; the precision of a step, a least exponent, is
  found by the well-foundedness of the naturals (`Least`).

`DataSyncProofs` proves, for any number of bars, window lengths and kills:
`DataTypeCorrect` (`DataTypeOK`), `NoRecentHole` (`RecentBarsWhole`) and
`AloneKeeps` (`KeptAlone`). A fetched table is an interval of bars, hence
without a hole, and appending what is newer to a table whose tail is whole
leaves it whole (`MergedWhole`). The invariant `DataInv` says this of every
table held anywhere (file, loaded, fetched, a refresher's copy), and that where
only the runner writes, what it has loaded is still what is stored.

`LiveSignalsProofs` proves `TicksStand` (`SignalsStand`): for the 24 strategies
that `look_ahead` does not refute (`Causal`), with their default options, any
bars, any thresholds, a history of any length and all periods `CountsAssumption`
admits (positive, as they are in every dataclass; the bands no longer than the
wait, 20 bars of 250), what the ticks acted on or missed is exactly what a
backtest of the stored history finds. The hypothesis on `Strategies` is what
`look_ahead` shows to be needed. The argument: one history begins another
(`Grown`), and then

* every indicator has the same readings on the bars they share. The averages are
  recursive functions over the bars; that the function exists and that two of
  them agree where their histories do is proved by a least bar of disagreement
  (`Everywhere`, `Least`), not by an induction over an operator;
* so has what a loop carries from bar to bar: sessions opened, flags of the day,
  levels kept, zones at rest, setups armed, the last rebalancing. A pivot
  counts from the bar that confirms it, a day's average uses the day so far, the
  week's level only earlier weeks; here the days' order (`Ordered`) is needed;
* hence the strategy asks for as many bars and finds the same signals on them,
  up to `hold` (`Same`, one lemma per strategy, `JudgeSame`).

`Inv` is `SignalsStand` with the order of the days and `backtest` being what
the strategy finds; a new bar adds to both sides what is found on that bar
(`StoreKeeps`), whether a tick judges it or not.

For the same strategies, and with the one further assumption that prices, volumes,
levels and multiples are integers and wicks lie outside the body
(`PricesAssumption`; the two RSI levels need not be in order):

* `OneAtATime` (`OneSignalPerBar`): what a strategy asks of a bar for a long and
  for a short exclude each other (one lemma per strategy, `JudgeOnce`). It
  rests on the invariant `Market`, that prices are numbers, no low is above its
  high and no two bars of a day share a slot, and on every average, band,
  range and RSI of such bars being a number: what a long and a short compare is
  then ordered one way only. For `orb` it is also that sessions do not overlap,
  for `pivot_reaction_zone` that at most one zone is hit on a bar;
* `RestsBetween` (`TradesApart`): the backtest's signals are apart
  (`JudgeApart`), by what the loops remember: a session that was opened
  swallows the bars up to its end, the flag of a day that has traded stays up
  to the day's last bar, a rebalancing blocks the holding period, and a fresh
  break is none on the next bar. `SignalsStand` carries it over to the ticks,
  which remember nothing;
* `SignalsBracket` (`SignalTypeOK`): the stop of every signal is behind its entry
  and its target ahead of it (one lemma per strategy, `JudgeFits`). A strategy
  that measures in ATRs asks for a positive one, and the others for a positive
  risk; that such a test decides anything takes that what the stop is computed
  from is a number. So the sets it is the extreme of must not be empty: the touches of a
  level, the bars of the week before (`WeekLevelIsNumber`), of an opening range, of
  a swing; the pivot of a setup armed bars ago must have been kept
  (`SetupIsNumber`, by a least bar, like `Everywhere`); and the day's average must not
  divide by a volume of zero (`FilledIsNumber`). The induction is over
  `Inv`, `Market`, `Priced` (every low is worth a point of `P.wide`) and `Bracketed`,
  which says of the ticks' signals, found in histories that are gone, what the
  lemmas say of the present one. The theorem supposes that the multiples of the
  ATR and of the risk are one or more (`Generous`): on a grid of whole points half
  an ATR of one point is nothing. The defaults of the code are, but for the bounce
  of `ibs`, half an ATR, which floating point does not round away.

Only model-checked: the liveness properties (`ClosesReachJournal`,
`BarsAreEvaluated`, `EveryRequestPerformed`, `BreachEndsLive`, `BarsReachDisk`),
since the prover has no reasoning about fairness. Every invariant, action property and
refinement that a passing run checks is stated by a theorem of the specification
it belongs to. `OnePositionPerSymbol`, `StopRefusesOrders` and `Parity` are
claims of comments and documents, and only refuted. The modules with
proofs, and those they use, have no recursive operator.

## 5. Observed disagreements

Four are runs that TLC refutes, listed in `PROJECT.json` under `findings` with
the line each contradicts:

* `doubled`: a request whose caller gave up stays where it is
  (`core/mt5_account.py:170`); the next signal finds the symbol free, and both
  orders are executed. `core/deployment_runner.py:1277-1279` says exposure is not
  doubled even if one of the two checks fails; the check upstream never sees a
  broker position, for it looks for magic 999001.
* `stop_ignored`: the runner builds its executor without a directory for the stop
  file (`core/deployment_runner.py:1266`), which then looks in
  `data/accounts/<login>/`; every page, and the runbook, touch
  `data/EMERGENCY_STOP`. The stop refuses none of the runner's orders; what does
  stop them is the halt at the end of the command centre's handler, which the
  banner and the risk page do not have.
* `look_ahead`: `double_bottom`, `overnight_drift` and `vwap_fade` judge a bar
  with the help of later ones, and the tick, which acts on signals of the last
  bar only, never trades what their backtests do; `orb_vol_filtered` asks for one
  bar more than it looks at, so the tick skips a break on the first bar after the
  opening range, which the backtest trades.
* `parity_default`: without arguments `run_parity` turns the daily flat on in the
  backtest (the list of classes is not empty) and leaves it off in the replay
  (`core/parity_check.py:101`): stocks and indices diverge, although the
  configuration is documented as all guards off, and identical for both.

Others were met while modelling. Some are hazards in `PROJECT.json`, and the
models say what the code does.

Journal and orders:

* after a HALT (`core/deployment_runner.py:434`) no tick reaches the
  reconciliation: closes of positions still open are not written until
  something is active again. `ClosesReachJournal` is conditional on that.
* the backfill script looks a close up under the position's ticket and stores
  it, for a made-up context, under the opening deal's
  (`scripts/reconcile_missing_live_closes.py:214`, `:218`): a second run writes
  it again.
* the log line after a verified open reads `op.entry_price`, which a
  `PaperPosition` does not have (`core/deployment_runner.py:1440`); the
  AttributeError ends the deployment's tick before the ticket is put into the
  map, although the comment at `:181-182` says it is. The map stays empty.
* the executor asks the bridge for magic 999001 (`core/live_executor.py:318`),
  the advisor ignores that and stamps 770070 (`mql5/MT5BridgeFile.mq5:223`,
  `:262`), and the runner's readers keep 999001, as the comment at
  `core/deployment_runner.py:1835-1838` describes it. A tracked position closed
  in part would be journalled as closed, and the close of the rest never (the
  key is taken).
* a SIGTERM during a mirror that takes longer than `poll_seconds + 5` s saves the
  interrupted bar as handled (`core/deployment_runner.py:367-378`,
  `scripts/run_deployments.py:263-269`): if the order was not sent yet, or is
  rejected, no later process sends it.
* a rejected order's bar is evaluated again (`core/deployment_runner.py:1406`),
  but the shadow book still holds the refused signal, and nothing is sent.
* an unmatched ticket is kept for ever (`:1910`); the mode of a close is the
  status of its deployment now (`:1697`); a read fault hydrates the counter from
  0, after which every insert of that deployment fails until the next restart; a
  live trade is written twice, as its shadow close and as its broker close
  (`:1246`); shadow closes are stored with `closed_at_utc` `'None'`
  (`core/circuit_breaker.py:120`, `core/daily_pnl.py:83`).
* the force-flat calls the transport with one argument (`:2056`), so it always
  raises; the bridge alarm (`:949`) is not raised while a parquet file exists,
  because `sync_to_now` answers from it.

Deployment store:

* the flush at the end of a tick reads and writes the file in two steps
  (`core/deployment_runner.py:538`) and so may undo a click made in between;
  edits of a stale row or list undo it too (see `StopsHold`).
* with `halt_on_breach` off a HALT verdict demotes nothing, and the settings page
  says it "only logs CRITICAL" (`dashboards/pages/_⚙️_Settings.py:358-360`); but
  the runner ends the tick on the verdict all the same
  (`core/deployment_runner.py:434`), so that nothing is ticked.
* a demotion writes `paper` over whatever the status has become, `halted`
  included (`:808`).
* "resume" of the operations page sets a paused deployment to `idle`, and the
  command centre writes `archived`, which `DeploymentStatus` does not declare.

Engines, guards, strategies:

* the runner passes no time guard and no live code enforces `max_hold_bars`
  (`core/strategy.py:30`): both engines end trades that a deployment keeps.
* daily and four-hour bars whose close misses the flat window are never
  flattened, and a position opened after Friday's close is carried over the
  weekend.
* of two signals on one bar the tick takes the first, both engines the last.
* `core/runner.py` names replay among the callers of `tick`, but
  `core/replay.py` has its own loop.
* rounding to a step's decimals leaves the step's grid for steps such as 0.25
  (`core/position_sizer.py:139`).
* the holding time of `orb` counts the bars the history has after the session's
  open (`strategies/orb.py:98`); the rebalancing phase of `tsmom` is counted
  from the first bar of the history (`strategies/tsmom.py:70`), which differs
  between a live window and a backtest's file; `vwap_first_touch` and the
  last-week strategies start their loop earlier than their own length gate.

Data and statistics:

* the bar still forming is stored and never replaced (`core/data_sync.py:186`),
  although `tests/test_data_sync.py:209-213` names the newer fetch the winner;
  the runner also decides on it.
* a torn file is read as an empty one (`core/data_sync.py:151`), and a long
  history is then replaced by its last bars; `save_parquet`
  (`core/data.py:45`) is what tears it.
* a run of equal losses has no deviation and counts as GREEN
  (`core/edge_decay.py:151`); the breaker's day begins at midnight UTC, the
  broker's at 22:00 (`core/circuit_breaker.py:110`, `core/daily_pnl.py:44`).

## 6. Not modelled

* **Position manager** (`core/position_manager.py`), the rest of it: its
  reconciliation, its moves of stops and its scaling out work on rows that
  `record_open` inserts, and nothing calls `record_open`.
* **Paper loop** (`core/paper_loop.py`): nothing imports it; the runner's
  shadow books took its place.
* **Risk engine, daily risk accumulator, adaptive risk, equity tracker, daily
  profit**: sums and comparisons of money on one thread, which appear as reasons
  to refuse (`GateResults` in LiveOrders, `breach` in DeploymentStore). What
  they get wrong is noted above; a property of them would restate the sum.
* **Parity gate, edge decay**: a row with a freshness test, and a floating-point
  statistic; both appear as the demotion of DeploymentStore.
* **Position guard**: the strict policy is part of LiveOrders; the other two
  differ in one comparison.
* **Live executor's `close_position`**: nothing calls it; the pages close through
  the position manager, and the force-flat makes its own request, and raises
  before it is sent.
* **Calendars, configuration, preflight, slippage, correlation clusters**:
  look-ups and arithmetic on one record.
* **Backtest studies, optimiser, catalogues, scores**: numerical code over data
  frames and tables, with no state that two actors share.
* **Dashboard rendering, process control, backtests run from a page**: of the
  pages only the loads and saves of `deployments.json` and of candle files, and
  the emergency handler, matter here.
* **Options of strategies other than the defaults**, and the partitions and
  summary statistics of a backtest's result.
