# PortfolioIQ: TLA+ specifications

PortfolioIQ is a Flask application over PostgreSQL that follows a Zerodha equity
portfolio, ranks stocks, proposes rebalancing orders, guards and sends them, runs
an AI research committee and rings price alerts. The specifications model the
parts whose correctness depends on order, on concurrency, on failures or on
arithmetic at a boundary. Paths are relative to the repository.

## 1. Inventory

| Component | State it keeps | Operations | Hard behaviour | What makes it correct |
|---|---|---|---|---|
| Gatekeeper and order router (`src/execution/`) | `order_audit_trail`, `order_validation_log` (append-only), the broker's book | `validate_plan`, `validate_order` with its eight gates, `execute_plan`, `place_order` | two processes at once, kills between the audit writes and the broker call, lost answers | nothing unvalidated reaches the broker; a dry run never trades; the audit trail tells the truth |
| Rebalancer, drift, valuator (`src/analytics/rebalancer.py`, `drift_detector.py`, `valuator.py`) | none between calls; a plan while it runs | `generate_rebalance_plan` | limits that interact: turnover, cash, volume, lot, order count; rows read again while prices and holdings move | no limit is exceeded; a signal's sells stop at its target |
| Research committee (`src/research/committee.py`) | one `Budget` under a lock, the run's record | warm-up, analysts on a pool, debate, manager | reservations and settlements on several threads, cancellation | the cap is hard; the record agrees with what was paid |
| Research runs (`src/research/runs.py`) | `research_runs` | `enqueue_run`, `start_run`, `execute_run`, the sweep, `_finish` | racing requests, the sweep against a late thread, server stops | at most one active run; a key makes one run; a final status is final; runs settle |
| Market scanner (`src/analytics/scanner.py`) | `scanner_runs`, scores | start, run, give up after three hours | a given-up worker that is still at work | one scan at work; the latest shown is the newest; the comparison is with the predecessor |
| Price alerts and push (`src/analytics/price_alerts.py`, `src/ingestion/notify.py`) | `price_alerts`, a per-process set of sent keys | create, toggle, delete; the check of every minute | the check works on stale rows while the user toggles | one ring per arming; one push per ring; off stays off |
| Broker session and quotes (`kite_auth.py`, `kite_quote_poller.py`) | `broker_sessions`, `live_prices`, a lock | sign in, invalidate; poll under the lock or without | late answers and late refusals | the dashboards' answers come in order; only an older token's refusal ends a good session (it should not, section 6); the lock is given back |
| Broker sync and imports (`kite_sync.py`, CSV routes) | holdings, positions, instrument tokens | sync in three transactions; import; purge | syncs that overlap, fail half-way, meet foreign keys | an ok sync with no writer beside it is the account; the rows it reads as imports survive; the sell gate overstates only what was filled since |
| Historical cache (`historical_cache.py`) | `historical_daily_bars` | hit, full fetch, delta, refetch after a corporate action | refetch in several transactions without a lock | one adjustment basis; only final closes are served as such |
| Market calendar (`market_hours.py`) | calendar tables, a per-process cache | read with fallback, post, clear | a lookup in flight while the cache is cleared | the cache agrees with the table; the next opening is the earliest |
| Snapshots and flows (`snapshot_recorder.py`) | snapshots, cash flows | record the evening, record again, import the ledger | flows on days without a snapshot, repeated imports | a flow is counted once and is no gain |
| Signals, journal, ratings (`signal_recorder.py`, `journal.py`, `runs.py`) | outcomes | record a call; settle it after its horizon | late bars, broken runs of the job | settled once, over the window of the call |
| Backtest (`walk_forward.py`) | one request's simulation | calibrate, trade, close | indices that look ahead by one | nothing comes from a later bar; trades are the money |
| Tax guard (`tax_guard.py`) | lots, read only | FIFO split, harvest advice, summary | the boundary of 365 days, the exemption | oldest lots first; one exemption a year |
| Profiles (`repository.py`) | `allocation_profiles`, targets | create, activate | overlapping transactions at READ COMMITTED | exactly one in force |
| Start of the process (`run_migrations.py`, `safety_certification.py`) | `schema_migrations` | migrate, baseline, certify, serve | kills, two instances, releases that differ | a file has run once or not at all; nobody serves on another schema |
| HTTP interface, scheduler, frontend, scripts | none of their own | call the above | jobs run once at a time, requests on threads | |

How they interact: the scheduler (`src/scheduler/jobs.py`) and the HTTP handlers
call the components; the components meet in PostgreSQL, where each
`get_db_session()` or `execute_sql()` is one transaction
(`src/db/connection.py:73-119`), and in the broker. The live-order path is not
called by the server: it is a command (`order_router.py:217`), which is why
several of them may run at a time. The hazards of the code, each at its line and
with the properties that cover it, are in `PROJECT.json`.

## 2. The modules

| Module | Models | State and code |
|---|---|---|
| `OrderPipeline` | the command at the end of `order_router.py`: every gate, the audit writes, the broker call | `audit`, `checks` are the two append-only tables; `book` what the broker accepted; `pc`, `idx`, `gate`, `results` where a command is; `expired` the end of the duplicate window that moves with time |
| `OrderLedger` | the abstract promise about one order: verdict, then the broker at most once, then an outcome | refined by `OrderPipeline` through `Ledger` |
| `Rounding`, `Valuator`, `DriftDetector` | `ROUND_HALF_UP` and the bare `quantize`; `compute_portfolio_valuation`; `detect_drift` | operators without state: a book of rows to values and weights, to signals |
| `Rebalancer` | `generate_rebalance_plan`, one action per iteration of its loops | `book` is the joined rows of `user_holdings` and `live_prices`, `val` the valuation; `todo`, `signal`, `sectorTodo`, `needed` the loops' variables; `orders`, `sold`, `bought` the plan |
| `Committee` | `run_committee` with its `Budget`, pool threads, deadline, cancellation, debate and `progress` | `spent`, `reserved` are the budget, `calls` and `cost` the record in memory, `saved` the one in the row |
| `ResearchRuns` | the transactions of `enqueue_run` under the advisory lock, the sweep, `execute_run` and `_finish` | `status`, `runDate`, `cost` are columns; `pc`, `swept` the open transactions and their row locks; `thread` a run's thread |
| `ScannerRuns` | `start_scan`, the thread of `run_scan`, `get_latest_results` and the comparison that is pushed | `status`, `finished`, `old` are the table; `mine`, `thread` who works on what; `pushed`, `before` history |
| `PriceAlerts` | the alert table, the minute's check statement by statement, the user's requests and the push | `todo`, `snap`, `beyond`, `current` are what the check holds in memory; `sent` is `notify._sent` |
| `QuotePoller` | `broker_sessions` and `live_prices`, sign-in, the poll under the lock and the one without | `session` is the row, `token` the one a caller's client holds, `quotes` its answer, `live` the price rows; `alive`, `market` are the broker's |
| `BrokerSync`, `SellableCheck` | the three parts of `run_start_of_day_sync`, the imports and purges, the broker's day; the gate on sells | `holdings`, `positions` and the token table by token; `answer`, `local` what a sync holds; `broker` the account; `witness`, `writer` history |
| `PriceCache` | `get_or_sync_historical_bars` for one symbol | `bars` is `historical_daily_bars`, a factor per row in place of a price; `base`, `got` what a thread read and fetched |
| `MarketCalendar` | `is_market_day`, `is_market_open`, `seconds_until_market_open`, the `lru_cache` and its clearing | `rows` the table, `cached` the cache, `seen` what a lookup has read |
| `Snapshots` | `record_daily_eod_snapshot`, the flows by hand and from the ledger import | `flows`, `snaps` the two tables; `nav`, `moved` the world |
| `Outcomes` | the evening's settlement of signals, ratings and journal entries | `outcome` the forward columns, as windows; `todo`, `bench` the job's variables; `stock`, `index` the days with bars |
| `WalkForward` | folds, calibration, decisions, fills, charges, the final sale | the local variables of `run_walk_forward_backtest`; `read` the newest bar the calibration has seen |
| `TaxGuard` | the classification of lots, `check_sell_tax_impact`, the harvest advice, `get_tax_summary` | `lots` per holding; `sale`, `advice`, `liability` the last answers |
| `Profiles` | `create_allocation_profile`, `activate_allocation_profile` by statement | `row` the committed states; `at`, `victims`, `wrote` the open transactions and their row locks |
| `Startup` | `run_migrations.py` and `safety_certification.py` for several instances | `recorded` is `schema_migrations`, `effects` what has really run; `pc`, `pending` an instance |

How they compose. `Rebalancer` extends `DriftDetector`, which extends `Rounding`; its
valuation is a parameter, so that its proofs hold for any, and in `MCRebalancer` it is
`Valuator`'s. `OrderPipeline` refines `OrderLedger`, and assumes of its plans what is
proved of the rebalancer: at most `max_rebalance_orders` orders. `BrokerSync` puts the gate of `SellableCheck`
in front of tables that are being synchronized. `Outcomes` reads bars whose prices
are `PriceCache`'s concern; `Rebalancer` reads the targets that `Profiles` keeps to
one profile and prices that `QuotePoller` writes.

The `MC*` modules give TLC its instances. `MCMarketRecords`, `MCPlanning` and
`MCResearchRuns` each hold several components that share no state: a behaviour
picks one of them (`part`, `regime`) in its first state and the variables of the rest stay as
they began. That is a way of writing several instances down in one configuration,
and no claim about their interaction. `MCOrderPipeline` and `MCResearchRuns` also
have regimes of one and the same component (a command alone or two with the same order; calls
within the sweep's margin or not). `*_proofs` hold the proofs. Definitions called a *mutant* in
their comment are deliberately wrong variants of the definition after them; they
are in no specification, and each was used to see that a property fails when the
code is wrong in that way.

What is abstracted.

- `OrderPipeline`: the arithmetic behind gates two to seven is a finding (ok, breach,
  unverified); the rules that turn a finding into a pass are those of the validators.
- `Committee`: prompts and grounding are left out, money is whole units.
  `ResearchRuns` sees the committee as a result, a cost and a failure.
- `Rebalancer`: money is in its smallest unit and weights in hundredths of a percent,
  as the code quantizes them. A price of `NULL` is not modelled (the code raises), and
  signals of the same drift come in any order where the code's sort is stable.
- `PriceAlerts`: a quote is beyond the level, or not, or missing. `ScannerRuns`: a
  result is the number of its scan.
- `BrokerSync`: prices, margins and the reconciliation log are left out; there is
  one product. The account of the broker fills, settles and reports as
  `kite_sync.py` reads it.
- `QuotePoller`: the upsert of a quote may succeed or fail. On the schema the migrations make
  it always fails (section 6), so what is deployed has fewer behaviours than the model,
  and the safety properties hold of them; the writes are modelled for a table that has
  the column.
- `PriceCache`: a factor is the number of corporate actions after the day.
  `Outcomes`: a return is the window it is taken over. `WalkForward`: what the indicators
  say is a choice. `Snapshots`: units carry three decimals and the unit NAV one, where
  the code has six and four; the quantization is the code's.

## 3. The runs

| Run | Question | Result |
|---|---|---|
| `commands` | one command with a plan of two orders, or two commands with one and the same; gates failing anywhere, kills, lost answers, the deployed table or a repaired one | holds |
| `plans_and_reports` | plans, profiles, snapshots, backtests, tax lots | holds |
| `committee_three` | three analysts on two threads, a debate turn and the manager | holds |
| `background_runs` | research runs, scans, settlements, the start of instances | holds |
| `market_records` | alerts, quotes, the calendar, the bars | holds |
| `broker_books` | overlapping syncs, imports, purges, trades, a midnight | holds |
| `orders_deployed_log` | "ALL orders are logged" (`order_router.py:8`) | violated, finding 1 |
| `broker_token` | does a token that cannot be replaced leave the sync alone? | violated, finding 2 |
| `cache_hit` | are the closes that are served after the session final? | violated, finding 3 |
| `snapshots_limit` | is a day's return against the day before? | violated, finding 4 |
| `backtest_overlap` | does the backtest only move forward in time? | violated, finding 5 |
| `tax_exemption` | is the yearly exemption granted once? | violated, finding 6 |

What the properties of the passing runs say. A property with several parts is a
conjunction of named formulas of its module.

| Property | Parts | Says |
|---|---|---|
| `OrdersAreLicensed` | `OnlyValidatedOrdersReachBroker`, `DryRunNeverTrades` | nothing is at the broker that did not pass and record all its checks, nothing of a dry run |
| `LogIsKeptAndHeeded` | `ResultsAreLogged`, `NoLateDuplicate`, `FaultFailsClosed` | results are logged when the table allows it; a command that begins later sends no duplicate (two that overlap may); where the log cannot be read nothing is sent |
| `AuditTellsTheTruth` | | an OPEN row is of an order the broker holds; one verdict row, then at most one outcome row. A FAILED row may be of an order that is live after a lost answer |
| `ImplementsLedger`, `CommandAloneEnds` | | the abstract ledger of one internal order number; a command comes to its end |
| `PlanKeepsLimits` | `TurnoverWithinCap`, `BufferIsKept`, `AtMostMaxOrders` | no plan exceeds a limit, prices and holdings moving meanwhile |
| `SalesAreSound` | `SalesStopAtTarget`, `DpChargedOnce` | a signal's sells stop at its target; one DP charge for a stock |
| `FlowsCountOnce` | `LineIsOneFlow`, `AgainIsTheSame`, `FlowsAreNotGains` | a ledger line is one flow however it is imported; recording a day again changes nothing; a deposit is no gain |
| `NoLookahead`, `TradesAreTheMoney` | `CalibratedOnThePast`, `BoughtBeforeSold` | nothing decided or held comes from a later bar; the closed trades are what happened to the cash |
| `LotsAreUsedWell` | `SplitIsFifo`, `HarvestFillsExemption` | oldest lots first; the advice fits the exemption and leaves no room in it |
| `OneActive`, `ProfilesAreSound` | `NoDeadlock`, `SavedIsWhole` | one profile is in force; no circle of waiting activations; saved weights make a whole |
| `Budgeted` | `TypeOK`, `WithinBudget` | spent and reserved never pass the cap |
| `MoneyAddsUp` | `ReservedIsInFlight`, `RecordAddsUp` | what is reserved is in flight; what is recorded is what the calls cost |
| `EndsInOrder`, `RunEnds` | `DecisionHasBasis`, `EndedMeansIdle` | a decision has its analysts behind it; an ended run is idle; a run ends |
| `RowsTellWhatHappened` | `CostStillRecorded`, `DailyLimit`, `NoRunLeftRunning` | a run's cost is on its row; the last two where no call outlasts the margin and no statement fails |
| `RunsAreSingle`, `TerminalIsFinal` | `OneActiveRun`, `OneRunPerKey` | one active run, one run per key; a final status is final |
| `ScansInTurn` | `OneScanAtWork`, `LatestIsNewest`, `ComparedWithPredecessor` | scans come one after the other at work, in what is shown, in what they are compared with |
| `WindowIsTheCalls`, `SettledOnce` | `SettledIsFinal`, `ReadyIsSettled` | a return is over the window of its call; every call is settled, and once |
| `SchemaIsSound` | `EffectIffRecorded`, `AppliedInOrder`, `ServesItsSchema` | a migration's effects are there exactly when it is recorded; no gaps; an instance serves on its own schema |
| `WorkSettles` | | research runs and scans end, dry-run instances come up, over crashes and kills |
| `CountsAreKept`, `OffStaysOff` | `RingsOnce`, `PushedOnce`, `AlmostAtMostMaxAlerts` | an arming rings once a day and is pushed once; racing requests pass the limit by their number less one; off stays off, for what was turned off between two checks |
| `NothingIsLeftBehind` | `LockHolderWorks`, `StaleIsExplained` | no way out of a poll keeps the lock or leaves a stale mark without a reason; on the deployed schema a poll with quotes writes none (section 6) |
| `UndoneOnlyUnguarded` | `NewerQuoteStaysUnderLock`, `GoodSessionEndsByOlderRefusal` | an older answer of a dashboard replaces no newer quote of another's; of all that callers meet, only the refusal of an older token ends a session the broker accepts. It does not say that neither happens: a button's older answer replaces a newer quote, and the late refusal ends the newer session |
| `CacheFollowsTable`, `NextOpenIsEarliest` | | the calendar's cache agrees with the table outside a post, but for a lookup that a post has crossed or that fell back on the file; the next opening is the earliest |
| `OneBasis` | | adjusted rows are of one basis, but for the exceptions its comment names |
| `TablesAreSound` | `TypeOK`, `RowsAreListed` | a row belongs to the listing that has its token |
| `OverstatedOnlyByFills` | | a live SELL exceeds what the broker would sell by no more than the fills since the row was read: less than "a SELL never exceeds what the broker says can be sold today" (`sellable_check.py:2`), which the code does not achieve |
| `OkSyncIsExact`, `ImportsSurvive` | | after an ok sync, nobody else having written since, the tables are the account; a sync leaves alone the rows it has itself read as imports |
| `TypeOK`, `TypesOK` | | the type invariants, of the instance's modules |

Bounds and why they are enough.

- Orders: a plan of two orders shows every interaction inside a command
  (a rejected order before an approved one, a duplicate inside the plan); two
  commands are what a race needs. The duplicate window is not a length but a
  moving boundary, so every age of a row is reached. `Uncertain` names the gates
  whose data vary; with two commands one gate is enough, since the gates differ
  only in the rules that the regime of one command enumerates.
- Committee: three analysts on two threads give one queued call behind two
  running ones, the smallest case of a cancelled future; the cap of seven lies
  between the cheapest and the dearest total, so a refusal happens at each stage.
- Research runs: three requests are a first one, its retry and a competitor; one
  midnight; one crash. `MaxPaid` 1 tells a free failure from a paid one, which is
  all the quota sees. Scans: three, so that one may be given up, and a result may be
  compared with either of two. Settlement: one call, two horizons, one longer than
  the bars that are read; four days. Start: two instances, three files, a longer release,
  an edited and a failing one, two kills.
- Alerts: one above the limit of one, two creators, two midnights. The history
  counters stop at two, one above what the properties allow.
- Quotes: two dashboards contend for the lock, a button goes round it; two sign-ins
  and two answers are a newer and an older one. Calendar: three days, of which two are
  weekends, under every calendar. Bars: four days with a holiday, two threads, two
  synchronizations that ask the source; every set of missing rows.
- Broker: one symbol on two exchanges, one unit, two trades, one import, one
  midnight, two syncs; the gate with every setting that changes its arithmetic.
- Rebalancer: two stocks in a sector exercise the inner loop, a third in another
  sector the buys; rows are settled, unsettled or mixed, with fresh, stale, missing
  and zero quotes; one lot is two, one volume is capped; one set of limits has the
  cap below the least trade, one is without an effective cap. Four orders are fewer
  than the signals of some books. One move of the book separates any two reads.
- Profiles: three activations of three profiles can wait in a circle if any can;
  the weights round up, down and to both sides. Snapshots: three days, of which any may lack
  a snapshot. Backtest: three folds that touch. Tax: a year of three days and a window of
  one put a lot on each side of each boundary.

The runs without deadlock checking contain parts that really stop: a plan, a
committee run or a backtest that has ended, requests that were answered, and bounds
on days that run out. Waiting that should not happen is stated where it could
(`NoDeadlock` of `Profiles`, `LockHolderWorks` of `QuotePoller`, `WorkSettles`).

Symmetry is used in `broker_books` (the two syncs) and in `market_records` (the two
creators, the two synchronizations): the modules tell their members apart nowhere, and
no liveness property is checked in these runs.

## 4. Fairness

- `OrderPipeline`: weak fairness of each command's steps. A command is a
  sequential program; the broker call returns or raises (the client's timeout).
  A kill is always possible and never forced.
- `Committee`: weak fairness of all steps. Each thread runs, and each API call
  answers, fails or times out (`CALL_TIMEOUT_SEC`).
- `ResearchRuns`: weak fairness of begun transactions, of the threads, and of
  ageing. `Sweep` is fair too: it stands for somebody who opens the list of runs
  again. The code has no other sweep; the endpoint that polls one run does not
  sweep (`blueprint.py:644-656`), so without that visit a run whose thread is
  lost stays active. `WorkSettles` is to be read with this in mind.
- `ScannerRuns`: weak fairness of a scan's thread, of the passing of three hours, and
  of the evening job, which the scheduler starts every day and which gives up what is
  too old.
- `Outcomes`: weak fairness of the job's beginning, and strong fairness of each
  settlement. The job runs every evening; that a bar of the stock is not to be had, or
  that the job breaks off before a call, may happen any number of times but not
  every evening.
- `Startup`: weak fairness of an instance's steps: a process manager starts it again
  after every kill, and kills are bounded.
- The other modules state safety only.

## 5. What is proved

All proofs are for every value of the constants that satisfies the module's
named assumption. A module that the MC modules only instantiate states what it asks of its constants as
a formula (`StartupAssumption`, `CacheAssumption`, `FoldsAssumption`, ...) and the MC module
asserts all of them (`BackgroundAssumption`, `RecordsAssumption`, `PlanningAssumption`), so that TLC
evaluates them. The constants of the instances are declared in the MC module and
given their values in the configuration: the theorems about `AllSpec` are of any number
of requests, bars, days and so on, and the run is one case of them.

| Module | Theorems | State the property of the runs |
|---|---|---|
| `OrderPipeline_proofs` | `TypeCorrect`, `LicensedOrders`, `TruthfulAudit`, `LogKeptAndHeeded`, `Refinement` | `TypeOK`, `OrdersAreLicensed`, `AuditTellsTheTruth`, `LogIsKeptAndHeeded`, `ImplementsLedger` |
| `Rebalancer_proofs` | `RebalancerTypes`, `PlanWithinLimits`, `PlanSellsOnce` | `PlanKeepsLimits`, `SalesAreSound` |
| `Planning_proofs` | `ValuationWeighsRight`, `BacktestLooksBack`, `BacktestAddsUp`, `OneProfileInForce`, `ProfilesStaySound`, `LotsUsedWell`, `FlowsCounted`, `PlanningTypes` | `NoLookahead`, `TradesAreTheMoney`, `OneActive`, `ProfilesAreSound`, `LotsAreUsedWell`, `FlowsCountOnce`, `TypesOK` |
| `Committee_proofs` | `BudgetIsHard`, `RunEndsInOrder`, `RunMoneyAddsUp` | `Budgeted`, `EndsInOrder`, `MoneyAddsUp` |
| `Background_proofs` | `SingleRuns`, `NoStatusComesBack`, `RowsTell`, `ReturnsAreOfTheirCalls`, `SettledForGood`, `ScansComeInTurn`, `SoundSchema`, `BackgroundTypes` | `RunsAreSingle`, `TerminalIsFinal`, `RowsTellWhatHappened`, `WindowIsTheCalls`, `ScansInTurn`, `SchemaIsSound`, `TypesOK` |
| `MarketRecords_proofs` | `SettledAlertsStayOff`, `CountsStay`, `NothingLeftByPolls`, `NewerUndoneOnlyUnguarded`, `CalendarIsFollowed`, `OpeningsAreEarliest`, `PricesShareABasis`, `RecordsTypes` | `OffStaysOff`, `CountsAreKept`, `NothingIsLeftBehind`, `UndoneOnlyUnguarded`, `CacheFollowsTable`, `NextOpenIsEarliest`, `OneBasis`, `TypesOK` |
| `BrokerSync_proofs` | `SoundTables`, `GateTrailsByFills`, `OkSyncAddsUp`, `ImportedRowsSurvive` | `TablesAreSound`, `OverstatedOnlyByFills`, `OkSyncIsExact`, `ImportsSurvive` |

`LibraryLemmas` has what the operators of the library return. Sums over a finite set
(`SumFunctionOnSet`) are defined by a recursion that takes the elements in an order
of its own. The recursion has one solution (`PartialSumsUnique`, `SumUnfold`), and by a minimal
counterexample among the subsets the order does not matter (`SumTakeOut`,
`SumPutIn`), which is induction enough: equal terms have equal sums, a sequence's sum
grows by what is appended (`SumAppend`), rounded terms by half a unit each at most (`RoundedSum`).
Least and greatest elements (`MinIs`, `MaxIs`) and the element of a given rank
(`RankExists`, `RankIsUnique`) are the rest. For this the models write sums with `SumFunctionOnSet`.
A list that is worked off item by item is a recursive function of how many are done (`Selling`,
`Harvesting` in `TaxGuard`): there is one such run (`RunExists`), and what holds at its beginning and
is kept by a step holds all the way, because a first failure has a step before it (`FirstFailure`).

The arguments, component by component:

- **OrderPipeline**: `IInv` is inductive (`Invariance`). `TypeOK` and
  the properties are not: that an order about to be sent has its approval needs
  the positions of the cursors (`Cursors`), the mode of a result (`ResultsFit`),
  the check rows written so far (`Logging`), the verdicts already recorded
  (`VerdictsRecorded`) and which rows and sent orders a command can have made by
  now (`RowFits`, `SentFits`). A step of one command changes nothing the others'
  part speaks of except by growing the tables (`FrameKeeps`, `InsertPart`), so
  each action needs only its own command's part.
  `LogKeptAndHeeded` needs more (`LInv`): that an order past the last gate, or
  approved, is like no row the command could have found when it began (`Heeds`),
  and what it has left in the log so far (`Keeps`). A row inserted later is younger
  than any command that runs, so what the log answered once stays true
  (`FreshStays`); the window only moves forward.
  `Refinement`: by `RowsInOrder` an order has at most
  one row of each stage, so the ledger read off the table is well defined; each
  action proposes, sends, reports, simulates or stutters.
- **Rebalancer**: for any valuation, any book, any targets and any limits. `IInv`
  adds `CashKept`: nothing is bought and no cash is usable before the sells are over, and from then on
  usable cash is exactly what is left above the buffer. The arithmetic is in `SellBound` and `BuyBound`,
  which rest on integer division and the lot rounding never going up. `PlanSellsOnce`
  needs `SalesInv`: every sell has an actionable overweight signal for its reason (`ReasonsHold`),
  the sells of one signal are worth no more than its amount, and with what the inner loop still needs
  no more either (`WithinAmounts`), a signal still to do has no sells (`SignalsInTurn`), and a
  stock that was sold has one charge (`OneCharge`). From there it is rounding: a weight is
  the nearest hundredth of a percent and an amount the nearest unit, so the sells stop
  within half of each (`AmountStopsAtTarget`). `RebalancerAssumption` says that the
  weights are rounded shares (`WeighsRight`); `ValuationWeighsRight` proves this of
  `Valuator` for every book, where every sector is that of some stock.
- **WalkForward**: `WInv`. Nothing made so far is of the present bar or later
  (`InOrder` with `Now`), a purchase is pending only when nothing is held (`OnePosition`),
  and the cash, the position at what it cost and the closed trades add up after every fill
  (`Money`). `FoldsAssumption` asks that folds share no bar and that the training window is longer than the
  horizon, as the default request has it; without the first, finding 5 is the counterexample.
  Its types are not inductive by themselves: that the bar at work and the one an order waits for exist
  needs the folds that are left to end before the history does (`InHistory`, `FoldsFit`), and a
  position is never bought on credit because the purchase looks at its charges.
- **TaxGuard**: for any lots of any holdings. After `k` lots a sale has taken of each what
  the older ones left of it (`OldestFirst`), which is the count of its shares within the quantity (`SaleIsSplit`). After
  `k` candidates a harvest's budget is the exemption less what it has earned, and of each candidate
  it has taken all, or its gain is zero, or the budget is less than the gain of one share
  (`WithinBudget`); as the budget only shrinks, this still holds at the end. An advice of an earlier day
  promises no more than that it was free of tax.
- **Snapshots**: for any amounts, gains and days, and with the query's limit. `SInv`: a flow in the table is the
  movement of its day, however it came there (`FlowsAreMoves`), a row's unit NAV is its value over its units to the
  nearest unit (`IsSound`), and its units are those of its base and what came in since. The row of today is
  the one that recording again would write. `FlowsAreNotGains` then is arithmetic (`UnitNavStands`): the unit NAV
  before and after a mere flow differ by what rounding the units issued, at the old unit NAV,
  and the two unit NAVs can make, which is the bound the property states.
- **Profiles**: a transaction turns off only rows it holds, and turns its own on once
  it holds the active one (`Holding`, `TurnsOff`); no row is held by two transactions
  (`HeldByOne`). That no circle of waiting transactions arises is `NoCircle` over `Chased`: the row found active is
  locked first, its holder is chased by nobody who has found it, and who waits for an
  inactive row has not looked for others yet. What is saved is whole by `RoundedSum`.
- **Committee**: the assumption used is that a call never costs more than `worst_case`, which the
  code calls an upper bound (`committee.py:180`). It is an estimate; where it is
  wrong the cap is as wrong. `RunEndsInOrder` follows the one thread that runs the
  stages: a result it has collected is final, and one that stopped the run is
  remembered (`CollectedKept`), the debate begins with every analyst's result and goes
  turn by turn (`DebateKept`), a call is open only in the stage that waits for it
  (`CallsKept`), and a decision keeps what it was made on (`DecisionKept`).
  `RunMoneyAddsUp`: what was spent is the sum of what the calls cost (`SpentKept`), and a call that cost something is
  settled or on record (`PaidKept`).
- **ResearchRuns**: `IInv` adds that at most one transaction holds the advisory lock
  (`OneTransaction`), that swept rows are locked for others (`LocksHold`), and that what a request has checked
  still holds when it inserts (`CheckedActive`, `CheckedKey`). `AnyStep` has the steps of both regimes, so one
  induction is for both. `RowsTell` adds what a thread has paid and where it has put it (`CostInv`) for both,
  and for the regime without late answers and failing statements that a row which has ended was old or
  its thread has ended (`RowsEnd`) and that a request about to insert has room in the day (`WithinLimit`).
- **ScannerRuns**: rows run in the order of their numbers (`RowsInTurn`), a thread's row
  runs or was given up (`WorkIsListed`), and who tells of its result has it last, or another has
  finished since (`TellsItsOwn`).
- **Outcomes**: the days of bars are finitely many naturals, and the bar a horizon later is the one of a
  rank; with no bar missing, the rank is the distance in days (`RankSpans`). `SettledForGood` is the safety half of
  `SettledOnce`.
- **Startup**: a row of `schema_migrations` never changes, so what an
  instance has compared stays compared; the files left to do are the only ones of its
  release that may not be in the table (`Knows`, `DoneIsIn`, `BaselineRecorded`).
- **PriceAlerts**: for `SettledAlertsStayOff`, nothing is held between checks and whatever a check
  holds is in the set it read. For `CountsStay`, a ring leaves its
  mark on the row, which is unarmed or was rung today, and what the check has read of a
  rung alert shows it too; a push leaves its key among those sent, and the check finds
  the same key until the row is written.
- **QuotePoller**: a dashboard that polls holds the lock
  (`WorkersHoldLock`), so no dashboard has written a newer answer than the one being
  written (`AnswersInOrder`); the broker accepts only the token it issued last, so a
  refused caller holds an older one (`TokensInOrder`). This explains who may end a good
  session; it does not keep them from it.
- **MarketCalendar**: a lookup that no commit has crossed holds the table as it is (`LookupsFollow`), and only
  such a lookup is stored. `OpeningsAreEarliest` needs no induction: a walk over the days finds the least one.
- **PriceCache**: the longest argument. While nothing is excused, some set of corporate
  actions that includes all up to the newest day reached explains every row no refetch has still to mark (`SomeBasis`).
  An answer that none of a later basis has overtaken knows the actions up to its days and up to the rows
  (`AnswersKnow`), fits the rows if it is about to append to them or to mark them (`AnswersFit`), and knows no less than one
  that came before a refetch (`LaterKnowsMore`). No factor counts too much (`RowsNotAhead`), so
  a thread whose newest row agrees with the present has compared them all (`BaseTells`): this
  is why comparing one row is enough in the code.
- **BrokerSync**: `Tables`: a token's row is of the token's listing, and what a sync holds is its own
  answer. `Today`: no row or answer is of a day to come, and those of today agree with the account but for units sold since
  (`RowTells`, `AnswerTells`), which is what the gate may overstate. `Exact`: as long as nobody wrote after
  a sync, its holdings are its answer and nothing else (`HoldingsExact`), and with its positions they are the account (`BooksExact`).
  The broker reports a holding on one exchange (`SyncAssumption`).

Only model-checked:

- Every liveness property (`CommandAloneEnds`, `RunEnds`, `WorkSettles`, the second half of
  `SettledOnce`): the prover has no fairness and no `ENABLED`.
- The findings' properties, which do not hold.

## 6. Findings

1. `AllOrdersAreLogged`: `duplicate_check.py:22` selects columns that no migration creates, so on the
   deployed schema each order that passes seven gates ends the command before its
   result is logged. Nothing is sent (`FaultFailsClosed`). The unit tests replace
   the query.
2. `SyncKeepsExistingToken`: at `kite_sync.py:152` the update of a made-up token meets the foreign keys of the
   imported row, which aborts the transaction; the handler says that it keeps the
   existing token and goes on in a transaction that cannot go on.
3. `HitIsFinal`: at `historical_cache.py:323` a bar fetched during the session is stored, and after
   16:00 it is taken for the day's close.
4. `ReturnIsAgainstPriorDay`: at `snapshot_recorder.py:96` the query that should give the previous snapshot
   returns the oldest 500, so from the 501st on returns are against the 500th.
5. `BoughtBeforeSold`: at `walk_forward.py:82` a request can lengthen the test window but not the step, so
   folds overlap and the simulation goes back in time with its position.
6. `OneExemption`: at `tax_guard.py:134` the yearly exemption is taken off per holding.

Seen while modelling, and left without a run:

- `kite_auth.py:153`: `invalidate_token` marks whatever token the row holds by then. A caller
  that is refused with an older token, while the user signs in again, ends the new session,
  of which the sign-in has just reported "Access token stored. Valid until ~... 06:00 IST"
  (`kite_auth.py:104`), and the user has to sign in once more.
  `GoodSessionEndsByOlderRefusal` shows that nothing else ends a good session.
- `kite_quote_poller.py:97`: the upsert of a quote names `live_prices.tradingsymbol`, a column that no
  migration creates (`005_live_prices.sql` and later). On the deployed schema it raises at the first
  symbol with a quote, nothing catches it, and the poll writes no quote; only where no symbol has one are rows
  marked stale. The unit tests replace the query. `slippage_check.py:29` has the same column, in a statement
  whose failure is caught and means no price. The inserts of `kite_sync.py` do not name it.
- `kite_quote_poller.py:45`: the buttons poll without the lock, so the answer of a slow poll replaces
  a newer one's quotes.
- `kite_sync.py:541`: the update that empties a row the broker no longer reports does not look at
  the row's source, so a row of the broker's that a file made an import of after the sync's reading
  is wiped, against "never wipe user CSV or manual imports" (`kite_sync.py:507`).
- `historical_cache.py:336`: a refetch is an upsert and two markings without a lock; an answer of an older
  basis that comes after it, or a stop between them, leaves rows of two bases until the next complete
  refetch (`OneBasis` names these exceptions).
- `market_hours.py:54`: a lookup that read the table before a post's commit may be cached after
  the post's clearing, and stays until the next one.
- `order_router.py:126`: a timeout after the broker accepted is logged as FAILED, and two
  commands that overlap may both send an order that each found no trace of.
- `price_alerts.py:155`: a repeating alert turned off during the check that rings it is written back as on.
- `committee.py:347`: a cancelled future raises `CancelledError`, which is not a
  `_Stop`; it leaves `run_committee`, and the caller records a failed run without
  the calls made since the last `progress` (`EveryPaidCallOnRecord` in `Committee`).
- `runs.py:252`: the margin before the sweep allows one timeout, but the client
  retries twice; a run swept at no cost can be answered, and charged, later. `DailyLimit`
  is therefore checked where no call outlasts the margin. `runs.py:222`: statements of
  `execute_run` outside its `try` leave a row running, against its docstring;
  `NoRunLeftRunning` is checked where no statement fails.
- `price_alerts.py:198`: the key that removes duplicate pushes is made of the
  day of the previous ring, and two rings of a day can share it (`EveryRingIsPushed`).
- `price_alerts.py:44`: requests that race may pass the limit on alerts.
- `rebalancer.py:476`: full liquidation is decided before the turnover cap lowers
  the quantity, so the sell of a part is exempt from the minimum trade value and
  marked as a liquidation (`SmallSalesLiquidate`).
- `rebalancer.py:466`: one stock may be sold for its sector and again for its own weight in one plan,
  together more than is held; the gate on sells meets each order alone.
- `repository.py:433-459`: posting an ordinary holiday to the calendar fails, because
  the entry is dumped without its empty fields and the statement's parameters are missing;
  the model's posts are of special sessions only.
- `repository.py`, `get_realized_ltcg_ytd`: values sales at the last price, and
  answers 0 when it fails; `TaxGuard` takes any answer.
- `safety_certification.py:123`: a live instance comes up only on a quote of the last
  two minutes, and quotes are polled by instances that serve. `DryRunComesUp` is the
  promise without it.
- `tax_guard.py`: the warning window is described as 335 to 365 days, but at 365 days a lot
  is neither long-term nor near it.
- `walk_forward.py`: when the training window is no longer than the horizon, forward
  returns are not cut off at its end.
- `historical_cache.py:197-198` says of a missing adjusted close that it stays missing, so that
  the row is fetched again and never labelled adjusted on a guess; but the upsert (`repository.py:1002`)
  is a `COALESCE`, so where the row has an adjusted close already, the old one stays, whatever its basis.
- A journal entry older than the 400 days that a settlement reads is settled over
  a later window; a missing bar stretches the stock's window and the index's differently
  (`WindowIsTheCalls` says by how much).
- `blueprint.py:1262` reads `opp.action` and `opp.reason`, which the DTO does not have.
- The profile that migration 007 seeds has a row for 10% cash and none for the rest.

## 7. Not modelled

- Floating-point statistics have no state, and their values cannot be enumerated: the
  optimiser, indicator scores, Monte Carlo, projections, trade odds, performance ratios.
- Stateless formatting or arithmetic over decimals: the cost calculator's schedule (a
  constant charge in `WalkForward`, the DP charge in `Rebalancer`), instrument maps, CSV and
  news parsing, DTOs.
- Pure input and output: news and fundamentals (`ON CONFLICT DO NOTHING`), the HTTP
  routing, the frontend, scripts, settings read once at start.
- The risk guards keep one monotone maximum; the scheduler's table of jobs has no
  logic of its own (each job is an action of its component).

Where this could go on: the other three push events; a composition of `OrderPipeline` with
`BrokerSync` in which the gate's finding is `SellableCheck`'s.
