# A TLA+ model of the day-trading bot

This directory holds TLA+ specifications of what the bot decides and of the part of it
that moves money: how a symbol comes to be watched, how the tape becomes a plan and a
plan an order, how an order is placed and answered, how the bot's idea of its positions
is kept aligned with the broker account, how the stop of a position is moved, how
exits are recorded, and how a trading day begins and ends. TLC checks the
modules on small instances, and TLAPS proves all their safety properties but the refuted one
for every value of the constants. All source paths below are relative to
`src/src/daytrading/`.

## The system

The bot is one Python process (`runner.py`, `AlpacaRunner`) with several threads:

* the **main loop** (`run`), which in every round drains market events, checks exits,
  works off released timed entries and their timeouts, runs the quick lanes (breakout
  scalp, burst) and, when a new bar or the poll interval is due, a scan cycle;
* the **position-sync thread** (`_start_fast_position_sync`), which every few seconds
  reads the account, reconciles, and polls the closed orders for exits that
  happened at the broker;
* the **data workers**: the pool refresh, the fast scan, the candidate hydration and the
  bar-seed worker, which share the mover lists and the event queue with the main loop;
* the **dashboard's** HTTP threads, which may pause trading or ask to close everything.

There is no lock around portfolio, exit manager, timer, reconciler and mover lists: the
threads interleave at every broker call and at every step between a read of a list and the
write that follows from it.

| Component | State it keeps | Operations | What is hard | What makes it correct |
|---|---|---|---|---|
| Order adapter, `execution/alpaca_broker.py` | open orders at the exchange, position cache | `submit`, `submit_urgent_exit`, sweep, poll, cancel, wait for a late fill, emergency close | lost replies, failing status checks, fills during a cancel, threads sweeping each other's orders | what it answers was executed; an answer after a terminal status is final; one answer per order; it returns |
| Position reconciliation, `execution/position_reconciler.py` and its callers | portfolio quantities, trackers, pending grace, miss counters | `reconcile`, `mark_entry_pending`, refresh, cover of shorts | two threads merging stale, shared snapshots while orders fill | no open position without a monitor; no tracker dropped early; agreement with the account in the end |
| Exit manager, `exits/manager.py`, `exits/scaler.py`, tick trail of `runner.py` | `TrackedPosition`: stop, high, partial, breakeven, runner, step | `check_exits`, `rollback_half_sell`, `scale_up`, `sync_quantity`, tick trail | partials booked before their order fills, ticks between checks, late re-adds | the stop never gives back what was earned |
| Entry gates, `pipeline/engine.py`, `execution/entry_executor.py`, `strategy/execution_timer.py`, scalp lane | cooldowns, losers, entry counts, breaker, timer, released queue, scalp flag | `run_cycle`, `execute_timed_signal`, `on_10s_bar`, `check_timeouts`, `_record_trade_exit` | a signal is checked seconds before it is sent, and purged from another thread | breaker and daily budget hold at the fill; the scan goes on |
| Exit accounting, `runner.py` | recorded fill keys, known order ids | `_record_trade_exit`, `_seed_recent_order_ids`, `_check_new_fills` | one fill seen by both threads, a poll cut short by an exception | every executed sale is recorded, none twice by the poll |
| Burst lane, `runner.py`, `strategy/warrior_watch.py`, and its replay, `backtest/driver.py` | watch book: windows, highs, pending breakouts, wins, blocks | `_process_momentum_burst_scalps`, arming, exits, eviction | a symbol's history decides what its next bar means; two implementations of the same lane | the replay decides as the live lane does; a buy is in its window; one burst at a time; barred symbols are not bought |
| Warrior lanes, `strategy/warrior_lanes.py`, sizing in `runner.py` | none: functions of the tape and the episode | two dozen contexts, the trend classifier, the playbook, `_capital_aware_quantity`, brackets | every lane builds price, cap, stop and target by hand | a plan can be traded as planned; an order is within the limits; a bracket is sound |
| Scanners, verifier, entry rules, `scanner/scalping/`, `momentum_pattern.py`, `entry_guard.py`, `entry_policy.py`, `risk/guards.py`, `analytics/missed_a_plus.py` | reject cooldowns, memory of blocked setups | `scan`, `verify`, `check_entry_quality`, gates of `run_cycle` | a hit's criteria are rewritten on the way; the same guard runs twice with different knowledge | a bounded bracket; small scouts; nothing bought below the score but what the code means to |
| Trading day, `runner.py` | session day, flatten flag, nightly marker, pause | daily reset, end-of-day flatten, nightly report, restart, emergency close | boundaries of the day while orders and threads are under way; crashes between report and marker | resets in time, flat stays flat, report once and not never |
| Mover lists, `runner.py`, `data/market_data_service.py` | bar pool, hot watch, candidate queue, event queue | fast scan, pool refresh, hydration, prune | read, compute, store on four threads | lists exceed their maximum by known races only |
| Bar seeding, `runner.py` | seed queue, retries, blacklist, pause | seed worker, weak-batch pause, requests of a cycle | batches lost to pauses and a full event queue | every symbol gets its bars or is given up |

How they interact: the data workers feed pool and watchlist; a scan cycle takes hits
through verifier and gates and defers the signal to the execution timer; a released
signal goes through the entry executor to the order adapter; the burst and scalp
lanes order directly from the main loop; a fill is applied to the portfolio and
registered with the exit manager; the exit manager's signals go back through the
adapter; every recorded exit feeds cooldowns, losers, breaker and the watch book,
and purges what is queued for the symbol; the reconciler repairs portfolio and
trackers from the account; the day's boundaries reset or flatten all of it.

## Modules

| Module | Models | Composition |
|---|---|---|
| `OrderContract` | what a caller of the adapter may rely on | abstract specification |
| `OrderLifecycle` | the adapter for one symbol, several callers, the exchange, protective stops | implements `OrderContract` (`ImplementsContract`) |
| `PositionReconciler` | account, position cache, both threads' refresh, merge, entries and exits of the main loop | reconciler, portfolio, trackers, awaited orders |
| `ExitLadder` | one long position's stop, from entry to last exit | exit manager, tick trail, re-adds |
| `EntryGate` | one day of the main loop and the sync thread: gates, timer, queues, exits | pipeline, timer, executor, scalp lane, exit recording |
| `ExitAccounting` | how sales get recorded by the main loop and by the poll | exit recording, seeding, poll, closed orders |
| `TradingDay` | boundaries of the day, restarts, emergency close | main loop, sync thread, dashboard, broker, process |
| `BurstWatch` | one look of the live burst lane at one symbol | pure, over the symbol's watch |
| `BurstReplay` | the backtest's copy of the same | pure; compared with `BurstWatch` |
| `BurstLane` | the lane's day: looks, orders, fills, exits, evictions, adoptions | both of them, scalp lane, sync thread |
| `WarriorTape`, `WarriorLanes`, `WarriorRetries` | measures of the ten-second tape; every lane's checks and plan; the playbook | pure |
| `WarriorOrders` | late and violent rejects, size, bracket | pure |
| `LanePlans` | from a tape to a bracketed position | lanes, size, bracket, fill |
| `EntryQuality` | `check_entry_quality` and its spread exceptions | pure |
| `PatternScanners` | the nine scanners whose hits may be bought | pure |
| `PatternPlans` | `MomentumPatternVerifier.verify` | scanners, entry rules |
| `TradeGuards` | the last guards, and the memory of blocked setups | pure |
| `OrderGates` | one symbol's entry cycle, minute by minute | scanners, verifier, cooldowns, gates, memory |
| `HotWatch`, `MoverBoard` | grading of movers; pool, hot watch and queues on four threads | fast scan, refresh, hydration, main loop |
| `BarSeeding` | how symbols get their bars | seed queue, worker, pause, main loop |
| `Selections` | parts of a sequence taken by index | helper of `EntryGate` and `HotWatch` |
| `*Proofs` | theorems about the module they are named after (`EntryProofs`: `EntryGate` and `OrderGates`; `ExitProofs`: `ExitLadder` and `ExitAccounting`; `LaneProofs`: `LanePlans`) | |
| `MC*` | instances for TLC | |

### OrderLifecycle

`order` is the exchange's book, `pc`, `want`, `cur` and `late` are what a thread inside
`submit` knows, `told` and `answer` record what it returned. The actions follow
the code: `Submit`, `Sweep` and `Settle` (`_cancel_open_orders_for`), the placement
(`PlaceAccepted`, `PlaceRefused`, `PlaceReplyLost`), the poll of `_wait_for_fill`
and the grace of `_wait_for_cancel_fill`. Any call may fail and any deadline
may pass at any time, so no result depends on the configured waits. Prices are left out.

### PositionReconciler

`held` is the account, `listed` what the positions endpoint shows of it, `cache` the
adapter's short-lived copy, `view[t]` the snapshot thread `t` works on. A refresh is
three steps, as in the code: read, cover shorts, merge; the other thread and the broker may
act between them. `Merge` is the whole of `reconcile`. `_get_cached_positions` hands out the same
dictionary to both threads, so a symbol popped from one snapshot may disappear from the other:
`CoverShort` chooses which threads share it. Exits are decided for several symbols at once,
sent one by one, retried once, rolled back when a partial fails.

Abstractions: `Merge` is atomic (the code holds no lock; a step of the other thread inside it
is left out, such as an untrack between the copy of the tracked symbols and their
lookup); scale-ups and the cooldown of the cover are left out (a cover may or may not
happen); deadlines are free choices; prices are left out.

### ExitLadder

Percentages become distances in price levels (`LockGap`, `StepGap`, ...), all of
them constants, so the theorems hold for every configuration. The rungs are
`CheckPartial`, `CheckWaits`, `CheckTrails` and `CheckSteps`; exits by candle,
volume, tape or time sell everything and are the free choice in `CheckSellsAll` and
`TickExits`. An order is decided first (`selling`, `asked`) and answered later
(`ExitFills`, `ExitUnfilled`); between the two the sync thread may correct the share
count, drop the tracker or adopt it anew. A re-add is queued with a stop (`QueueReadd`)
and fills later (`ReaddFills`). Shorts never reach the rungs and are left out; the
options that are off by default (step trail, give room) too.

### EntryGate

`at` is the part of the loop being executed. The configuration is the default live one: the
ten-second timer is on, so every entry of the pipeline is deferred; tick entries are off, and
the burst lane has a module of its own. The gates stand where the
code has them: `MayDeferEntry` and `MayDeferReentry` in the cycle, `MayEnter` and `MayAdd` in the
executor, `MayScalp` in the scalp lane, and the breaker once per round for all alerts
(`LateEnds`). An order is awaited in a state of its own, so exits of the sync thread, late
surprises and the end of cooldowns fall between the check and the fill. `check_timeouts`
lists the pending symbols and then looks each one up: a symbol cancelled in
between by the other thread raises out of the loop (`at = "dead"`). The sync thread rebuilds the queue of
released signals from what it saw (`SyncExit`, `SyncPurges`), which may put a
taken signal back or lose a new one.

Abstractions: portfolio and tracker are one state `held` (how they differ is
`PositionReconciler`'s subject; `Surprise` lets an adoption or drop happen at
any time); profit, quality and times are free choices (the quality rules are the subject of
`OrderGates`); alerts are a set; a recorded exit of the main loop is atomic; the release by a bar
is atomic; one trading day.

### ExitAccounting

`sale` is the exchange's list of sell orders, the bot's own and others (`OtherSale`: a
protective stop, a sale by hand). The main loop submits one, is told what was executed or
nothing, looks the fill up in `keys` and records it: two steps, because the sync thread
may record in between. `Seed` marks the recently closed orders as known (`synced`), after exits and
purchases. The poll takes a list of closed orders, newest first; for each it skips,
or decides to record (`PollTakes`) and records (`PollRecords`), an exception ending
the poll after the key was noted and before the order was marked.

Abstractions: profit and what an exit sets off are left out (`EntryGate` has the
latter); the key is order and shares, since price and time are those of the order; one day, so
keys are not cleared.

### TradingDay

The clock has one value for each interval in which every time test of the code has one
answer (midnight, 4:00, 9:30, 15:30, 16:00, 16:05, 20:00, 20:05). `loop` is where the main
thread is; one iteration reads the clock once (`seen`) and may span one boundary, no
more. `Boot`, `Crash` and `Shutdown` are the process: memory is lost, the marker file of the nightly report
(`marker`) survives, and `MarkNightlyRan` comes a step after the report, so a crash may
fall between them. The flatten drops its trackers before it asks the broker (`Flatten`, `CloseAll`);
closes are accepted, refused or lapse at the close. `PressForceClose` and `EmergencyClose`
are the dashboard's thread; a read that fails answers "flat" (the `blind` choice). `ReleaseEntry`
buys a timed entry whatever the time, as the code does. `SellTracked` is a whole exit check: up to two
orders, each of which sweeps the symbol's open orders and then fills, is refused or times out. The
sync thread adopts what the flatten let go of, so such an exit may cancel the accepted close and sell
nothing: the position then stays, with the swept close as its reason. `excused`, `flight`,
`reports` and `lost` are history variables that name the reasons the properties allow.

Abstractions: a position is held or not (a partial sale is an exit that does not end it); an order whose
cancel fails after its deadline is not followed further; prices, and with them the loss-limit force
close, are left out; the pre-market and after-hours sessions appear through the fixed switch
`afterHours`.
### BurstWatch, BurstReplay, BurstLane

The watch of a symbol is its slice of `WarriorWatchBook`: armed or not, whether a window
high is known, the pending breakout (trigger, age in bars, whether it was rebased), the
entries of the day, cooldown, wins, the allowance after a win, the failed burst and the day block. A bar is
described by the answers of the pattern functions (`Bars`): which contexts it shows, where
its high lies relative to the window high, how it confirms, whether the purchase passes its checks. `Live`
(`BurstWatch`) and `Replay` (`BurstReplay`) are written from two different files, the
runner's lane and the driver's copy of it, in the three modes of the lane
(cycle, hit-run, warrior). `BurstLane` puts them into a day: the main loop looks, orders and
waits; the order fills or misses; the sync thread adopts; exits reach
`_record_trade_exit` under the lane's name or not; the scalp lane competes for the one
slot (`active`); windows, cooldowns and the twenty minutes after a target end at any time; a
pause or the breaker clears what is armed (`EntriesBlocked`).

`ReplayParity` compares the two on every watch the lane can reach and every bar. It leaves
out three cases where the driver is known to part from the runner, named at the
property: a failed burst while the symbol is held, the prior-runner context below the window high
(the runner arms it at once with an age the driver gives it one bar later), and a first
exit with a profit short of the target (the driver calls it a failure). Outside the
compared functions the two also part in how a symbol gets armed (the live lane refuses a symbol
blocked for the day and arms nothing from the ten-second tape alone), in what a denied
size does to the rest of the pass, in what remains of the watch after a fill in cycle
mode, and in the replay's moving of a stop that the fill went through (`BracketSound`).

### WarriorTape, WarriorLanes, WarriorRetries, WarriorOrders, LanePlans

Prices are integers in tenths of a cent, volumes in thousands of shares, ratios in basis
points, rounded down: a comparison is exact to one basis point. Twelve of the 23 lanes are
the same reclaim with other numbers: `Reclaims` is that shape, and each lane a `Row` that
gives its own numbers and takes the `Usual` ones for the rest; the other eleven have an operator of
their own, the longest with its condition apart (`LowPriceReclaims`, `DumpReclaims`).
`warrior_trend_playbook` is the dispatch of `warrior_trend_playbook_context` with the fallbacks of each class.
`WarriorRetries` has the contexts that continue an episode. `WarriorOrders` has
the rejects, the size (`CapitalAware`, `WarriorCap`) and the bracket of the fill,
live (`FilledTarget`) and in the replay (`ReplayBracket`). `LanePlans` prints
a tape leg by leg from a script, lets a lane plan, sizes, drops or fills. `OrderBounded` names each limit
the code keeps and the case in which it drops it: the share of the equity a position may take, and the
playbook's two caps, count only where they leave a share.

### EntryQuality, PatternScanners, PatternPlans, TradeGuards, OrderGates

One-minute bars in the same units. `EntryQuality` is `check_entry_quality`: the hard
rejects in the order of the code, the rule score, the spread exceptions, the
learned model as a veto that may fall either way. `PatternScanners` is one operator per
scanner, returning the hit with its criteria. `PatternPlans` is the
verifier: late-pullback and structure rejects with their exceptions, the active-tape
check, the entry guard, the stop, the target, the size; each step passes on the hit as it has rewritten
it. `OrderGates` is one symbol's `run_cycle`: `Scan` a minute of tape, `Hide` or `Verify` each
hit (rejected hits cool down), `Gate` each signal through news, level cap, the last guard
(which has no ticks, averages or five-minute bars: `Blind`), chase guard, reward and
size limits and trade guards. What is rejected is remembered (`record_blocked`) and
read by the chase guard.

These five modules and the Warrior lanes are numeric code, where a wrong comparison is easy to
write down. They were compared with the Python functions on thousands of generated
tapes, definition by definition, evaluating both sides on the same integer bars; the
scripts in the `MC` modules were chosen from such tapes for what they bring to act.

### HotWatch, MoverBoard

The refresh worker reads, merges and stores the pool; the candidate worker pulls a batch,
grades each mover, evicts and promotes on the hot watch, looks at the room in the pool and
appends; float lookups of the refresh succeed or fail as they like, and what one finds is not kept in the cache (`FloatOf` is fixed);
the main loop prunes the hot watch from a copy and drains the event queue. Each
of these is as many actions as the code has unlocked steps. `races` counts two of them: a prune
that writes back an entry evicted meanwhile, and a pool that filled between look and append.

### BarSeeding

`bars[s]` is none, few or ready; the worker pulls a batch, sifts it and loads; the load
goes through the bounded event queue to the main loop, which drops what finds it full. A
batch with many failures is weak, and weak batches pause the fetches; a batch that
meets the pause counts as failed for each symbol; three failures give a symbol up
(`blacklist`). `ExpandUniverse` is the cycle's request for what is missing.

## Runs

Deadlock is checked for `ExitLadder` and `BarSeeding`; in the others the behaviours are bounded
(orders, decisions, trades, scripts, clock) and may stop.

| Run | Question | Bounds |
|---|---|---|
| `order_safety` | Does the adapter implement its contract, answer honestly and once, and return? | 2 callers, 2 orders, 2 shares: one order of each thread, or an order and a stop; 2 shares give partial fills |
| `reconciler` | Is every open position monitored, are misses honest, is no tracker dropped early, do portfolio and trackers agree in the end? | 1 symbol, long up to 2, short up to 1, grace 1, 2 misses, 1 outside trade, 1 decision |
| `ladder_safety` | Does the stop keep its floor, is one ladder followed, is a stop given back only by new steps, adds and rollbacks? | 9 price levels, 3 shares, risk of 2 levels, 1 re-add |
| `gate_safety` | Breaker, daily budget, and that the scan cycle comes back | 2 symbols, limit 1, 1 entry, 1 exit, 1 surprise |
| `exits_safety` | Does the poll record no sale twice, and come to every executed one? | 3 sales of up to 2 shares, lists of 3 orders |
| `exits_lost` | Was every sale marked as known recorded? (refuted) | 2 sales of 1 share |
| `day` | Resets in time, report once and not forgotten, flat stays flat, overnight positions explained | 2 trading days from 15:30 of the first, 1 symbol, 2 starts |
| `burst_replay` | Do replay and live lane agree, are buys in their window and forgiven, is one burst open at a time? | 1 burst symbol and 1 scalp symbol, 2 entries a day, 25 combinations of contexts, patience of 3 bars |
| `lane_plans` | Is every plan tradeable, every order bounded, every bracket sound? | scripted tapes that bring each of the 24 triggers to a plan; a few accounts, sizings and fills |
| `patterns` | What is ordered: bounded, scouts small, score reached? | 45 scripted tapes, several looks at quotes, float and flow, good, neutral and bad news |
| `movers` | Do the lists overflow only by the counted races? | 2 symbols, every list full after one, 2 scans, 1 refresh |
| `seeds` | Does every listed symbol get bars or is given up? | 2 symbols, one of them in the pool, batches of 1, event queue of 1, 2 tries, a pause after 2 weak batches, 1 of them of other workers, 1 dropped load |

Why the bounds are enough. One symbol suffices for reconciliation because
`reconcile` treats every symbol alone; what couples symbols, the order the main
loop waits for, is covered by the proofs, for any number of symbols, misses, trades and decisions. Two misses
distinguish "one miss" from "enough misses". Nine levels give room
for a first stop, a partial, a confirmed runner and two steps, and three shares for a partial
and a rest. Two symbols let one order be awaited while another symbol is queued, exited or alerted.
Three sales let the bot's own order, a stop and a third order stand in one list, and two shares let an
order be answered in part. The lists are as long as there are sales: the code asks for ten
and twenty orders, and a sale outside that window is not part of `EverySaleSeen`.
The day run starts at 15:30 because the first morning adds nothing to the second; two starts give one crash.
In the burst lane symbols meet only in the slot and the order, and two of them fill both; two entries
distinguish first, later and too many; a breakout is dropped after three bars in the code.
The full lists of `movers` after one symbol make every race a matter of two steps.
In `lane_plans` and `patterns` the number of tapes is the bound: TLC shows the properties
for these tapes, chosen to make every lane, scanner, tier and gate act; the proofs show them for all.
`seeds` sets `ExpandMax` to the number of symbols: `SeedsServed` is claimed when one cycle can
request every missing symbol, as it is with up to 80 missing ones; with more, the code requests the
first in the order of its list and nothing bounds the wait of the rest.

Every property of a passing run has a mutant in `PROJECT.json`: a plausible bug (a dropped
guard, an off-by-one, a missing reset), written beside the definition it changes, that violates it.

### Fairness

* `OrderLifecycle`: weak fairness of each wait inside `submit`: each has a deadline of its own.
  Nothing is assumed of the exchange.
* `PositionReconciler`: the sync thread's loop wakes again and again, calls return, the
  main loop finishes what it began; reads do not fail for ever (strong fairness of `ReadLive`),
  the endpoint catches up with the account and time passes. Nothing is assumed of trades,
  new decisions or covers.
* `EntryGate`: the main loop takes its next step, orders are answered (the adapter's
  `SubmitReturns`), and each queued signal's wait ends (a deadline); strong fairness of
  `CycleStarts`, since a new bar or the poll interval brings the cycle up again and again (`run`).
  Nothing is assumed of bars: `CyclesResume` rests on the timeouts alone. It allows for the loop
  having ended by the exception above.
* `ExitAccounting`: weak fairness of the poll: the sync thread's loop has no end but
  shutdown, an exception ends one poll only, and the order endpoint answers again and again.
* `TradingDay`: weak fairness of the loop, of the sync thread and of the clock; broker, dashboard,
  crash and start owe nothing. `Reported` speaks of a process that stays up.
* `BarSeeding`: the worker runs (strong fairness of the pull, which the pause disables again and again), the main
  loop drains its queue and runs cycles, the pause ends. Loads may fail or be dropped as often as
  `MaxWeak` and `MaxDrops` allow.
* The other modules have safety properties only.

## What the runs found

`exits_lost` refutes what the code says of its poll: seeding after one fill marks every recently
closed order as known, also a stop nobody recorded. The other disagreements between the code and what its own
documentation, comments, messages or tests say were met while modelling, each at a line of the code; they are listed in
`PROJECT.json` with both sides quoted, and the modules follow the code. In short:

* **Orders and positions**: a failing status check answers "rejected" for an order that may execute
  (`alpaca_broker.py:252`); a failed read is answered as flat (`alpaca_broker.py:535`); a tracker
  keeps its side when a short becomes a long (`position_reconciler.py:166`).
* **Stops**: a new step or a re-add may lower a stop the tick trail has raised (`manager.py:880`).
* **Gates**: the position limit is not asked at the fill (`engine.py:1451`); the scalp lane ignores the
  loser list (`runner.py:5865`); an exit may sweep the flatten's close and not sell (`runner.py:4586`); timed entries execute after the flatten (`runner.py:3057`); the daily
  reset clears neither breaker nor entry counts (`runner.py:4073`).
* **Accounting**: the flatten's sales are recorded twice (`runner.py:2990`).
* **Lanes and sizes**: the second-leg VWAP reclaim can never be the primary lane (`warrior_lanes.py:383`); an account
  too small for one share gets the quantity by risk alone (`runner.py:5815`).
* **Patterns**: blocked setups are stamped with the wall clock in a replay (`engine.py:591`); the sub-two-dollar score exception can
  never reach an order (`entry_guard.py:896`); three exceptions pass below the score (`entry_guard.py:1166`);
  one reduced tier is not reduced (`momentum_pattern.py:1190`); the halt mark latches on a quiet
  tick (`guards.py:202`).
* **Data workers**: a prune revives evicted entries (`runner.py:1636`); failures of a symbol are
  never forgotten within a day (`runner.py:2377`); tracker writes happen on two other threads (`runner.py:4507`).

## Proofs

The theorems assume only the `ASSUME` of each module: that bounds are natural
numbers (positive where the code divides or counts down), for `EntryGate` and `BurstLane` that
`"none"` is not a symbol, for `BurstLane` and `HotWatch` that the symbols are finitely many (positions and
entries are counted), for `OrderGates` that the tapes are legs of moves and volumes from a positive price and
the looks are typed (`GatesAssumption`), and for `LanePlans` the same of its scripts and that episodes, accounts
and sizings are typed (`PlansAssumption`). No theorem uses fairness.

* **`PositionReconcilerProofs`**. Types are inductive only together with
  `MainPhases` (which order the main loop waits for in each phase; the attempt
  counter is bounded by the phases that submit). On this
  `IInv`, `MissesAreReal` is inductive (`HonestMisses`), and gives
  `PatientUntrack` (`Patience`): the counter that triggers the drop never runs ahead of the
  merges that missed the symbol. `Attendance` proves that no open position is unattended, action by action.
* **`OrderLifecycleProofs`**. `IInv` adds to types and `OneWatcher` what holds of each
  order (`OrderFacts`: told never exceeds executed, a sure answer is final), that a
  placement has shares to order (`Wanted`), and that a late fill is remembered only while it is waited
  for (`NoLate`). From it follow `SingleWatcher`, `Honesty` and the refinement `Implements`:
  each step is a step of `OrderContract` on the mapped state, or leaves it alone.
* **`ExitProofs`**, of `ExitLadder` and `ExitAccounting`. `RiskBounded` and `OneLadder` need `Rungs`: before the partial the
  position has climbed no step, taken no shares and has its stop at or below the entry, so that a
  rollback restores a state the ladder may start from; and while a partial is being sold
  no rung has moved. `KeptStop` is an action property over the same invariant.
  `PolledOnce` rests on `Entered`: a sale the poll has recorded is filled for good and has its key, so it is never
  taken again; the one it is about to record was not. `Executed` and `Told` make every key a well-typed one.
* **`EntryProofs`**, of `EntryGate` and `OrderGates`. `LastEntry` is not inductive: `BreakerHolds` adds that after the one
  position opened no purchase is on its way, and that the alerts are gone while the loop is in its scalp part;
  `OrderPlaced` ties an awaited order to the part of the loop that waits for it and its symbol to the budget.
  `Typed` covers the queues: what a filter leaves of a queue (`Selections`) is a queue of the same
  type and no longer. The filter is an indexed sequence, so this follows by counting the kept indices with the
  least element of what remains, where `SelectSeq` would have asked for an induction over its recursion.
  `OrdersBounded`, `ScoutsSmall` and `BoughtScored` speak of `OrderGates` for any tape of typed legs, any look, any
  configuration and any limit of shares. They need `CycleInv`: a tape stays a tape of ordered positive prices
  (`TapeTyped`); what a scanner found is a hit with whole prices on at least three bars, whichever of the nine
  found it (`FoundSound`); and a verified signal is already a bracket whose shares fit the dollars of its factor, small
  where it must be (`SignalsSound`, with `Sound`). The steps between are lemmas of the operators: whichever of the four stops the
  verifier takes, it is below the price (`StopBelow`); a spread the guard let through only as an exception is one again when the
  shares are counted, so its factor is at most 45 (`ExceptionAgain`, `SpreadFactors`), although the verifier may have rewritten tier and
  score in between; the level cap only lowers the entry, to above the stop
  (`LevelCapped`); where the size was raised to one share at any risk, the risk cap keeps or refuses it
  (`Affords`); and the last guard, blind to ticks, sees no selling, so the sub-two-dollar exception is not open to it (`NotSold`, `FinalScore`).
* **`TradingDayProofs`**. `TypeCorrect` goes by the groups of variables (clock, loop, account, files), action by
  action. `ReportedOnce` needs `ReportsBound`: the reports of a day are at most the processes that died
  with its marker unwritten, plus one if the marker exists or this process remembers the run.
  `ResetsInTime` needs `Session`, which places the look of the loop on the calendar: it is never ahead of the clock, the
  reset is done wherever the loop is past its top inside the window, the flatten is entered only when due, and a day
  that was reset and flattened is past 15:30. `NothingHeldUnexplained` uses it with `Explained`: until
  the market closes, an accepted close order explains a position after the flatten, from then on only a reason does; an
  exit that cancels that order without selling (`ExplainedAtExit`) turns the one into the other.
  `FlatIsKept`: while the answer of the button stands, entries are paused (`FlatKept`), so only what was in flight can buy.
* **`BurstLaneProofs`**. `SingleBurst` needs `Slot`: while nothing was sold in part and no filled order was
  missed, one symbol at most is held or ordered (`Alone`), the flag of the scalp lane is up unless the position is
  the awaited order's own (`FlagUp`), and that position is at most an adopted one (`NotYetOurs`). From these,
  each lane's own test of the slot (the burst lane counts trackers, the scalp lane reads the flag) finds nothing held.
  `BarredStaysOut` goes through the gates of `Live`: no barred watch answers with a purchase, and only a look orders.
  `BoughtFresh` needs `Watching`: the history `since` is the age the pending breakout of the watch was born with, which
  its own patience never exceeds, so that rejections and rebases do not make it younger. `ReplayAgrees` says that the two lanes agree
  on every reachable watch whatever contexts a bar shows and however the constants are set: operator by operator,
  each of `BurstReplay` equals its counterpart of `BurstWatch` outside the named exceptions.
* **`MoverBoardProofs`**. `HotBounded` needs `PlaceKept`: between eviction and promotion the watch has a place for the
  worker's mover, or a prune of the main loop has put back an entry meanwhile, which is counted.
  `PoolBounded` needs every list that may still become the pool to be short: the worker's, and those waiting in the event queue
  (`PostsShort`); the room the candidate worker saw is the one thing that may have gone (`RoomSeen`).
* **`LaneProofs`**, of `LanePlans` and the lanes. The inductive invariant is `LaneInv`: the tape is one of
  ordered positive prices and every measure of it a whole number (`LaneTyped`); the plan is `Sound` for the newest bar; an order is
  held by a plan that can be traded (`OrderHeld`); with the limits and the bracket themselves. The argument goes bottom up:
  1. *Measures.* The folds over the tape (totals, highest and lowest price, VWAP, mean close, EMA) have typed values. A
     fold is a function defined by recursion on an interval, which has a value by `Recursion` and stays in its range by `StaysIn`,
     both from a least counterexample.
  2. *One lane after the other.* A plan is made by `Plan` from a cap, a price and a risk. `PlanFollows` says when it is sound: the price lies
     in the range of the bar it follows and within the cap, and the risk is positive, below the price and at most twelve percent of it. For the twelve
     reclaims this is one lemma about any row whose numbers are in order (`RowSound`) and one line per row that they are; each other
     lane has a lemma of its own, since each places its stop by another rule (`Early10sSound`, `PullawaySound`, ...). The playbook
     and the retries return the plan of one of them (`PlaybookSound`, `PlansSound`).
  3. *The order.* `QuantityBounded` follows the quantity through equity, spread, violent tape and size factor: every step
     only lowers it or leaves the one share it keeps, and the caps of the playbook come last.
  4. *The bracket.* `BracketHeld`: the target of a fill is above it wherever it filled, and where the fill did not go through the
     stop, the replay computes the same bracket.

  `PlansTradeable` has the hypothesis `Listed`: the newest bar lies at 1.50 dollars or above, where the watch takes a symbol
  (`runner.py:1530`, `runner.py:1598`). Some such bound is needed: the least risk of a lane is a number of cents (eight to ten for
  pull-away and curl), more than twelve percent of a cheap enough share. A symbol that was listed and has fallen
  below the bound since is outside the theorem. The other two theorems hold at any price.

Only model-checked: liveness (`Converges`, `SubmitReturns`, `CyclesResume`, `EverySaleSeen`, `Reported`, `SeedsServed`), because
temporal reasoning under fairness is outside the prover. Every invariant and action property of the passing runs
is proved. What a fold computes for every tape would need induction over data; where a theorem
uses a fold it needs only the type of its value, which follows from a least counterexample. The refuted property is shown by its counterexample.

## Not modelled

* **The ignition lane** (its log, retraining and replay): off unless `DAYTRADING_WARRIOR_IGNITION` is set
  (`runner.py:6758`, `runner.py:7023`); its trained model (`strategy/warrior_ignition_model.json`) is numeric data.
* **Watch-only scanners** (bull flag, flat top, opening range, momentum burst, level watch), the verifiers that only
  serve them, the scanner profiles and the regime router: numeric choices of what to look at; `OrderGates` starts
  from every scanner.
* **Small tiers of the entry rules**: the post-blowoff micro base, the fresh-base reset, the starter exception of the Warrior guard;
  and the trimming of the memory of blocked setups.
* **The panic detector's and halt tracker's own state**: their verdict is a free choice of `OrderGates`.
* **The ids of protective stops**: stops execute at any time in `ExitAccounting` and `TradingDay`, armed or not.
* **The loss-limit force close**: it depends on prices of all positions together.
* **Bar aggregation, float, news and hydration lookups, clients of feeds**: I/O and windows of time; any result may come or fail.
* **Dashboard pages, journal, analyst, reports, machine learning**: records after the fact, layout, or
  numeric filters that can only refuse a signal (the veto in `EntryQuality`).
* **Scale-ins of the slow cycle** in the engine, slippage estimates, settings pushed at run time.

`PROJECT.json` lists every component with its status, and every hazard that a property covers not at all or in part with
the reason: where the code itself does what the hazard fears, a property exempts the case by name and a finding shows it.

## Plan

Done, in the order of what is at stake: the order adapter with its contract, reconciliation, the exit ladder, the entry gates,
exit accounting, the trading day, the burst lane with its replay, the Warrior lanes, the patterns with
the entry rules, the mover lists, the seeding of bars, and the proofs of all their invariants. Left:

1. `ProtectiveStops`: `_refresh_broker_stop` and `_clear_broker_stop` from two threads, the sweep that cancels a
   stop, re-arming after failed orders and re-adds. At most one live stop per symbol, none for a flat one.
2. An abstract ledger as the specification of exit accounting: each executed share is realized once. The slow cycle's
   double booking and the flatten's would be its counterexamples.
3. The halt tracker and the bar aggregator as small modules of their own.

## Running

```
tlc -workers 2 -config MCOrderLifecycle.cfg MCOrderLifecycle.tla
tlapm OrderLifecycleProofs.tla
```

`PROJECT.json` names the configuration of every run, and maps every definition to the
lines it models.
