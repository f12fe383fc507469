# Manju Trade AI Pro: models and proofs

TLA+ specifications of the parts of the program in which several processes,
tasks, requests or databases must agree. In the backend (`src/backend/app`): the
paper-trade table and everything that writes it, the Stock-of-the-Day engine, the
MTS Silver strategy with its daily risk gate, the lock that decides which worker
runs the cron jobs, the broker sessions and the live orders. In the web client
(`src/frontend`): the tab with its session, and ten pages that poll, cache, or
act on the account. TLC checks small instances, TLAPS proves the safety
properties for every instance.

## The system

One FastAPI program runs as several uvicorn workers (`--workers 2` in
`docker-compose.prod.yml`). They share PostgreSQL (users, trades), MongoDB
(picks, signals, journals, reports) and Redis (broker sessions). Each worker is
one asyncio loop: a handler runs alone between two `await`s, and anything may
run at an `await`. One worker also runs an APScheduler with some forty cron jobs,
each at most once at a time (`max_instances=1`).

The client is a Next.js program in a browser tab. A page's component mounts and
unmounts; its timers stop with it, its requests do not: the continuation after an
`await` still runs, can no longer set state, but may still write `localStorage`, a
module-level cache or a ref, start an interval, or move the tab to `/login`.

| component | state | operations | hard part | correct when |
|---|---|---|---|---|
| paper trading (`api/v1/paper.py`) | `trades` rows | place, close, cancel | check, await a quote, write | columns of a row agree; a result is kept; a cancelled order stays cancelled |
| position monitor (`infra/monitoring`) | `_seen`, `_store` in the process | list, quote, alert, fill; acknowledge, clear | works on a detached copy; a restart forgets | one alert per event; a reached order is filled |
| Stock of the Day (`services/stock_of_day_service.py`) | `stock_of_day`, `sotd_journal`, `trades` | generate, auto-trade, check, expire, regenerate | two databases, no transaction; three jobs and an admin | links agree; an ended pick stays ended; its trade is closed; one trade a day |
| scheduler lock (`core/scheduler.py`, `main.py`) | an advisory lock, `_lock_conn`, `_scheduler` | boot, acquire, skip, stop, release | the lock is a session's, not a process's | one scheduler, and not none |
| MCX strategies (`services/mcx_*_strategy_service.py`) | `mcx_trade_signals` | gate, log, resolve in two stages | counts read once, used twice; no unique index | daily limits hold; a banked target is no loss |
| broker sessions (`infra/brokers/session_store.py`) | a cache per process before Redis | connect, get, remove | a change reaches one worker | every worker uses the session that is stored |
| live orders (`api/v1/live.py`, `live-view.tsx`) | `live_orders`, the broker's own book | place, cancel, list | the broker acts before the record does | the record agrees with the broker |
| browser tab (`login-form.tsx`, session checks) | the token, the open page | sign in, open, leave, check | answers outlive pages | only an expired session ends, and it does |
| MCX pages (`mcx-view.tsx`, `metals-view.tsx`) | contract, quote, quote cache | switch, poll | a quote of another contract arrives late | the cache is keyed right; the quote settles |
| Strategy Lab page | jobs on the server, one interval per kind and its ref | start, open, poll | two awaits before an interval starts | one interval per kind, stopped in the end |
| Quick Trade page | selection, two caches that outlive the page | select | two answers per selection, late | the ticket and its levels are of the selected stock |
| paper, alerts, broker pages | a switch; a list; a connection | toggle; create, delete, poll; connect, return from Kite | optimistic lists, one-time tokens | what is shown is what the server has; a token is sent once |
| MCX Strategy Dashboard | what the last poll said, in refs | poll, sound | polls out of order, remounts | a signal sounds once |
| watch list page | active list, items, quotes, interval | select, refresh, edit | an interval that outlives its list | the quotes of the list on screen settle |
| Kite limiter (`kite_rate_limiter.py`) | `_next_allowed_at` | throttle | concurrent callers | calls keep their distance |
| other pick engines, Chartink, MCX signals | collections of picks and signals | generate, resolve | like Stock of the Day | like Stock of the Day |
| scoring, prediction, back-testing, dashboards | none of their own, or a cache | compute | numerical | tests |

Interactions: the scheduler lock decides on how many workers the jobs run; the
position monitor and the Stock-of-the-Day jobs are such jobs; both write the
`trades` rows the REST handlers write. The live page calls the handlers of `live.py`
on any worker, and these ask that worker's session cache for a broker. Every page
shares the tab's token, and some may take it away from all. `PROJECT.json` lists every component, those
left out with the reason, and the hazards, each at its line.

## The modules

| module | models |
|---|---|
| `TradeLedger` | abstract: what a paper trade promises its owner |
| `PickLedger` | abstract: what the Stock of the Day promises about its picks and their trades |
| `OrderLedger` | abstract: what live trading promises of an order at the broker and of its record |
| `PaperTrade` | the `trades` table, the handlers of `paper.py`, `run_position_check`, the alert store; implements `TradeLedger` |
| `StockOfDay` | `stock_of_day_service.py` over its collections and the trades it places; implements `PickLedger` |
| `SilverStrategy` | `mcx_silver_strategy_service.py` and `mcx_silver_risk_gate.py` over `mcx_trade_signals` |
| `SchedulerLock` | `try_acquire_scheduler_lock`, the lifespan of `main.py`, the running jobs |
| `Browser` | one tab: token, signing in and out, opening and leaving pages, the session check |
| `FuturesView`, `StrategyLab`, `TradeTicket`, `PaperDesk`, `AlertRules`, `BrokerDesk`, `SignalAlarm`, `WatchDesk` | one page each (the first one: two), extending `Browser` |
| `BrokerSession` | `session_store.py`: a cache per worker before Redis |
| `LiveDesk` | the live page, the handlers behind it, the broker's book and the record; extends `BrokerSession`, implements `OrderLedger` |
| `WebClient` | composes the tab with all pages |
| `MC*` | instances for TLC |
| `*Proofs` | theorems and their proofs |

### PaperTrade

`rows` is the table. A handler reads the row (`CloseRead`, `CancelRead`), waits, merges what it made of
its copy (`CloseMerge`, `CancelMerge`) and commits (`Commit`); `req` keeps what it holds
in between, and `RequestFails` is every way it ends without writing. `mon` is the
monitor's pass: `ListAllOpen`, `ListAllPending`, `CheckPrices` (one action: the code
does not await between the first alert and the last), then `FillMerge` and `FillCommit` per order. `seen` and
`alerts` are the module globals of each worker.

How a write lands is modelled column by column. `get_by_id` returns a copy and drops its reference to the
ORM object, so `TradeRepository.update` has nothing to compare the copy with but the row of that moment: its
merge selects the row, sets every column that differs (`Changed`), and the commit flushes these (`Flushed`). A
stale copy therefore undoes what others wrote, in columns its handler never touched: a cancel that read a LIMIT
order before it was filled and closed writes it back as cancelled, without opening stamp and exit
price. `ResultKept` exempts exactly this (`CancelOnItsWay`), the ledger lets a queued
order be voided at any point, and both forbid it for a trade placed at the market. The kind of an order is no column; `terms` keeps it
for the properties.

Left out: quantities, users, the text of errors, `closed_at` (written with the
exit price), and the risk engine, which only refuses more orders.

### StockOfDay

`gen[g]` is a task in `generate_and_save_daily_pick`, `run[r]` one in
`run_sotd_price_check` (a checker) or `expire_open_picks` (an expirer). Each database call is an action.
A run keeps the list it read, and its picks by identifier, so that it acts on picks that others ended
or deleted meanwhile. `Fault` bounds the failures: `GenerateFails` and `RunFails` end a task
(a crash, or an exception nobody catches), `PlaceFails` and `CloseFails` are the
exceptions the code catches and goes on after. Prices are left out: a check finds the target hit, the
stop hit, or neither. `today` is the date; `DayTurns` may fall between any two steps.
`PickLedger` sees of a pick its stage (`Stage`: watching, trading, ended, deleted) and the trade it is linked to, and of
a trade whether it is open. Tasks, lists, the journal and the dates are not in it, and most steps stutter; a second
end, an end of a deleted pick, or a second closing of a trade change nothing it can see.

### SilverStrategy

`sig` is the collection for one user and contract, `pass` the job of each scheduler: `ListOpen` and
`Quote`, then one write per signal (`BankTarget1`, `StopOut`, `TakeProfit`, `Expire`, or `LeaveOpen`), then
`Gate`, then look and insert (`FindNoneOpen`, `LogSignal`) for BUY and for SELL. The code decides
by the copy it listed; so does the model (`half` in `pass`). The gate
keeps no counter: `ClosedToday`, `Streaks` and `RealizedPnl` are computed from the signals, as in the code.
`Streaks` is a set because signals closed in one pass share `closed_at`, so the sort may
put them in any order. Scores and prices are choices; P&L is in points, as in the code.
A signal closed before today is forgotten unless a pass still lists it, since nothing reads it again.

### SchedulerLock

`holder` is PostgreSQL's side of the lock, `conn` the process's side. They differ after a
crash (`Reap` is PostgreSQL noticing) and after a lost session (`DropSession`), about
which the process never learns. `Stop` only asks: `shutdown` is queued on the event loop, which cancels
coroutines and not their threads. `Release` frees the lock at once, as the lifespan does, and what still
runs goes on until it ends or the process does (`Exit`). A booting worker may take the lock meanwhile, so that a job may
overlap with the last run of it on the worker that exits, and two passes of a monitor may: there `SingleScheduler` fails for a moment.

### The web client

A behaviour of `WebClient` is about one page (`page \in Pages`), chosen at the start:
the pages share the tab, and no state but the token, so two pages meet only through
`Browser`. A page's module has an action per effect, handler, timer and answer. Opening a
page is one step of tab and page together (`Opening` is a conjunct of `GasOpens`,
`LabOpens`, ...), and so is leaving it (`Closing`), because a bounced session check leaves whatever
page is open. `mount` numbers the components of a page: a request carries the mount
that sent it, and `Alive(m)` says whether its answer can still set state. Requests in
flight are sets of records, answered in any order, or failed by the environment
(`Fail`, bounded by `MaxFaults`). Data are abstracted to what they are about: a
quote is its contract, stock or list.

* `FuturesView`: the quote asked for before a switch may be shown, and must be cached, under
  what it was asked for. The two pages differ in how they open: a deep link selects a contract.
* `StrategyLab`: `starts` are `handleStart` calls between their awaits, `polls` the intervals
  that run (with the mount whose ref knows them), `ticks` and `loads` the poll's two requests. A past job is opened by
  the status in the list, which may be out of date (`StatusListed`). Jobs may end and need not: a job is a task of one
  worker, and one lost with the worker stays active for ever (`strategy_lab_service.py:213-215`, `266`), polled by whoever watches it.
* `TradeTicket`: a selection shows what the module's two maps hold and asks for both anew. `ticket` is the
  state of the ticket's component: the side, and of which stock and for which side its stop and target are. `Render` is the effect
  that fills it, on first render and when recommendation or price change. Nothing resets the side
  (`trade-view.tsx:261-264`, no key at `575`): the SELL of the stock picked before may stay beside the levels of a BUY, an order
  the server's check of stop and target refuses. Quotes that carry an error, and edits of prices, quantity and order type, are left out.
* `PaperDesk`: `autoUnsure` marks what a switch cannot know, an update lost on its way back
  or left behind by the page. A failed list of trades signs out, whatever failed.
* `AlertRules`: the list on screen is changed by hand and by polls that carry what the server had
  when it was read.
* `BrokerDesk`: Kite's return with a one-time token in the URL, reloads, and the one flag that
  guards the connect buttons. It takes the server for one place; `BrokerSession` shows that it is not.
* `SignalAlarm`: `heard` are the refs of each component; `overtaken` notes that a poll was
  answered after a later one, which the code does not guard against.
* `WatchDesk`: the list effect, and the items effect with the interval it starts (`ItemsNow`), also when a symbol is added
  before the items of its list have come.

Without a token most pages bounce to `/login` at once, and such a visit is left out. Quick Trade and the MCX Strategy Dashboard
stay open (`UnguardedPages`), but ask for nothing (`Load`) and find nothing to select. Widgets that only load and draw are left out.

### BrokerSession and LiveDesk

`stored` is Redis, `cached[w]` the broker object a worker has, `writes` the Redis commands of
`set_broker` and `remove` on their way. A session is the number of the login that issued
it. `LogIn`, `UseSimulated` and `Disconnect` change one worker's cache at once; the simulated broker
has no credentials, so nothing is written for it. A request of the live page goes through `LookUp` (cache,
or Redis and `LookUpEnds`), then the broker (`BrokerTakes`, `BrokerCancels`), then MongoDB (`Save`,
`UpdateStatus`), and may fail at each. `mount = 0` marks a request nobody waits for: its handler
goes on. `cut` has the orders whose own request met a fault between broker and record.
`UpdateStatus` is given the broker's number and looks for it among our own, as the code does: it
changes nothing for a live broker.
`OrderLedger` keeps the broker's book and the record only: one taking, one end, and a record that never leads the
book. Its `Correct`, a record following a cancel, is a step the ledger would allow and the code never takes.

## What is checked

| run | instance | shows |
|---|---|---|
| `paper_trade` | 1 trade, 2 calls, 2 workers, one scheduling, 3 prices | `TypeOK`, `RowCoherent`, `AlertOnce`, `ClearedStaysCleared`, `ResultKept`, `LedgerSpec` (refinement), `LimitIsServed` (liveness) |
| `paper_trade_cancel` | the same | `CancelledIsFinal` is violated |
| `stock_of_day` | 3 picks, 2 trades, 2 generators, a checker, an expirer, 1 failure, 1 day | `TypeOK`, `LinkSound`, `EndedFirst`, `TradeWatched`, `PickLedgerSpec` (refinement) |
| `stock_of_day_unique` | 2 generators, no failure | `OnePickPerDate` is violated |
| `stock_of_day_fair` | 2 picks, 1 trade, 1 generator, 1 failure, 2 days | `PickEnds`, `TradeEnds` (liveness) |
| `stock_of_day_cap` | 1 generator, no failure | `DailyCap` is violated |
| `silver` | 4 signals, 2 trades and 1 loss a day, 1 scheduler | `TypeOK`, `OpenPerDirection`, `DayBounded`, `LoggedWithinLimits`, `BankedKept` |
| `silver_fair` | 2 signals, any number of days | `SignalsEnd` (liveness) |
| `silver_cap` | 3 signals, 2 trades a day | `DayCap` is violated |
| `scheduler_lock` | 3 workers, a failed check, a lost session, 2 crashes | `TypeOK`, `SchedulersBounded`, `JobOnce`, `ColdStart` (liveness) |
| `web_client` | ten pages, 1 session, 1 fault, 2 of most things | `TypeOK`, `OnePollPerKind`, `TicketOfSelected`, `AutoTradeShown`, `TokenSentOnce`, `OneConnectPerPage`, `AlarmOnce`, `OrdersRecorded`, `OrderLedgerSpec` (refinement), `OnlyExpiredLeaves`; `SessionEnds`, `QuoteSettles`, `PollsStop`, `RulesSettle`, `ListQuotesSettle` (liveness) |
| `broker_session` | the live page, 2 workers, 2 changes of the broker, no fault | `RedisIsTruth` is violated |

Why the bounds are enough. Three prices leave one entry price with room on
both sides, so that every comparison of the monitor goes both ways. Trades never touch one
another: a handler is about one row, and a pass takes the orders of its list one by one, so one trade shows every race for it. Two calls are
the close/close and close/cancel races, and with the monitor between them the late cancel. The second worker has no scheduler: its
alert store stays empty, whatever the first one alerts. A Stock-of-the-Day pick meets at most one checker,
one expirer and a regenerating admin; two picks are what a regenerated day has, the third is one too many. One
failure reaches every window between two writes. Four signals are one more than a day of two trades can have: the gate's limit plus both directions.
Signals are symmetric in the safety run, where no property names one. Three workers are one to hold the lock, one to be refused,
one to boot late.

In `web_client`, two visits of a page are enough for an answer to outlive its component and meet the
next one; two clicks are a double click, a change of mind or two stocks in turn, and one click changes the contract, the list or the alarm
once, which is what a late answer needs. Two contracts, stocks, jobs or lists are what a late answer can confuse; the jobs of a behaviour
are all of one kind, since kinds share nothing. One fault fails any one request or breaks any one
write. The Strategy Lab and the live page are visited once, because what they leave running is what
matters and a second visit multiplies the states; one order, one worker and one change of the broker there
reach every step, and the theorem about them has no such bounds. Pages stop when clicks and
sessions are used up, so `web_client` and `broker_session` do not check for deadlock.

### What the violations show

* A cancelled LIMIT order opens anyway when the monitor listed it before the cancel: the pass
  writes back the copy it read (`position_monitor.py:228`).
* `max_daily_trades` counts stored picks, and regenerating deletes today's
  (`api/v1/stock_of_day.py:137`): the next auto-trade is the second of the day, the first is watched by nobody.
* The 09:30 job and an admin both find no pick of the day and both insert one (`stock_of_day_service.py:32`): the unique
  index the repository module speaks of is created nowhere. `PicksPerDate`, one pick for each generating task, is what holds.
* The silver gate counts closed signals only (`mcx_silver_strategy_service.py:444`): a day capped at
  `max_trades_per_day` ends with one more. `DayBounded` says it is never two more.
* Once a worker has a broker session cached, no login, disconnect or change to the simulated broker served by another
  worker reaches it (`session_store.py:60`), although Redis is called the source of truth. The unattended login of
  each morning runs on the scheduler's worker; the other one goes on with yesterday's session until
  it restarts.

`SchedulersBounded` counts lost sessions on purpose: nothing keeps the session of the
scheduler lock alive (`scheduler.py:59`), and when PostgreSQL drops it the next worker to boot is a second scheduler.

Two more properties of `PaperTrade`, `OnlyPendingIsCancelled` and `ClosedOnce`, fail the same way
(a cancel overtaken by a fill, two closes that both saw OPEN); they are stated in the module and in no run.

### Fairness

* `PaperTrade`: passes start every five minutes and go on (weak fairness). That not every pass
  fails, that orders are listed in market hours again and again, and that some pass sees the limit
  price are assumptions on the environment (strong fairness), stated as such in the module.
  Nothing is assumed of the users.
* `StockOfDay`: the expire job runs every trading day, and a task that started goes on: weak
  fairness of its steps. Nothing is assumed of generators or of the price check.
* `SilverStrategy`: passes start every five minutes and go on, days pass (weak fairness). That not every
  quote fails, and that a signal is not always the one a cut-off pass missed, are assumptions on
  the environment (strong fairness).
* `WebClient`: timers of an open page fire, and a request is answered or
  fails (weak fairness of each, the failures bounded). The server is not assumed to end its jobs, so `PollsStop` speaks of the jobs that end. Nobody is assumed to click, to open a page, to sign in
  or to stay signed in. `QuoteSettles`, `PollsStop` and `ListQuotesSettle` say what they need of the user, the
  session and the network themselves (`<>[]Shown`, `[](expired = {})`, `faults = 0`).
* `SchedulerLock`: a worker that boots gets an answer about the lock. Nothing
  makes a worker boot, stop or crash.

## What is proved

For all constants, from the modules' named assumptions:

* `PaperTradeProofs`: `TypeOK`, `AlertOnce`, `ClearedStaysCleared`, and `MarketRowCoherent`, for any number of schedulers; and, under
  `SingleScheduler`, `RowCoherent`, `ResultKept` and the refinement `Spec => LedgerSpec`. The invariant says what a
  handler holds: a copy read open or pending, and, once merged, which of its columns may differ from a row that went on changing
  (`ClosedSound`, `CancelledSound`), and that nobody ever has a trade placed at the market in hand to cancel or fill it. The second
  part needs the single scheduler: an order a pass has yet to fill was never opened (`PassSound`), and an open row is whole, and
  whoever writes it next changes its status too (`OpenSound`). With two, one pass fills the order, its owner closes it, and the other
  pass reopens it. `SchedulerLock` is where that assumption comes from (`OnlyTheHolderRuns`), and where it can fail.
* `StockOfDayProofs`: `TypeOK`, `LinkSound`, `EndedFirst`, `TradeWatched`, `PicksPerDate`, the action property `NoReturn` and
  the refinement `Spec => PickLedgerSpec`. The invariant adds what
  a task carries (`GenSound`: a trade only between placing it and saving the pick) and what a run may have listed
  (`RunSound`: only picks that traded, and the one in hand has ended). `TradeWatched` needs in addition that a
  run has no pick in hand between two of them (`HandsFree`). `PicksPerDate` counts: each pick of a date is
  charged to a generator that looked before it was there, so the generators must be finitely many
  (`GeneratorsAssumption`). The refinement needs that the trade a generator carries is linked to no pick (`Unlinked`), so that
  saving the pick is the ledger's `Trade`; it says in one formula what `NoReturn` says of picks, and that a
  trade is placed before it is linked, linked once and closed for good.
* `SilverStrategyProofs`: `TypeOK` and `OpenPerDirection`, for any number of schedulers; and, under `SingleScheduler`,
  `BankedKept`, `DayBounded` and `LoggedWithinLimits`. `OpenPerDirection` counts: whoever is about to log saw no open signal of its
  direction, so the open signals of a direction and the schedulers about to log one are together never more than the schedulers
  (`OpenCounted`); a lost advisory lock costs one more open signal, and not one more with each pass. `OnePerDirection`, its
  case of one scheduler, is part of the invariant of the others.
  The invariant adds that what a pass listed is still open and as it listed it, that no signal is open in
  the direction a pass is about to log, and that a pass beyond the gate runs on a day below its limit;
  one open signal per direction then bounds the open ones by two. `LoggedWithinLimits` rests on
  `StillAllowed`: while a pass that came through the gate may log, the gate would still let it through, for nothing closes in between, and
  midnight empties the day (with `MaxLoss > 0`: a limit of 0 would forbid every trade, and a pass under way at midnight logs all the same).
* `SchedulerLockProofs`: `TypeOK`, `SchedulersBounded`, `JobOnce`, `LockOwned`. The invariant counts the
  schedulers, stopping ones included, that do not hold the lock: each one costs a failed check or a lost session. `OnlyTheHolderRuns` reads the
  same invariant the other way: until one of these happened, whoever schedules, or runs a job and is not exiting, is the holder of the lock, which is the
  single scheduler the theorems of the engines assume.
* `ClientTypeProofs`: `TypeOK` of `WebClient`, page by page, with a frame lemma per page for the steps of the others.
* `ClientProofs`: `QuoteCacheKeyed` and `OnlyExpiredLeaves` follow from types and steps. `TicketOfSelected`
  needs that quote and recommendation are of the selected stock while no ticket is on screen as well (`QuoteInv`), and that the effect has filled the
  ticket from them by the time it is (`TicketFilled`, `RenderFills`).
  `TokenSentOnce` needs that the URL loses its token in the step that reads it (`KiteInv`); `OneConnectPerPage` that
  connects in flight belong to components already mounted (`ConnectInv`); `OnePollPerKind` that a job
  under way has a kind that no longer changes (`LabInv`); `AutoTradeShown` that the switch, the one update in flight and the
  server differ by that update only (`PaperInv`).
* `SignalAlarmProofs`: `AlarmOnce`. Three layers: rows in flight are ordered by mount and by age (`OrderInv`), equal ages
  have equal labels (`LabelInv`), and a signal that rang is remembered by whoever could ring it
  again (`RungInv`), each needing the one before.
* `LiveDeskProofs`: `OrdersRecorded` and the refinement `Spec => OrderLedgerSpec`, for any orders, workers, faults and changes of the
  broker. The invariant adds what a request knows of its order at each stage (`Carried`: none at the broker before it
  acts, no record before it saves) and that one request places it (`OneRequest`).

`NoReturn`, `LockOwned`, `OnePerDirection`, `QuoteCacheKeyed`, `PicksPerDate` and `MarketRowCoherent` are proved and in no run: a stronger property of the same run, or a
sharper one, stands for each. `Correct` of `OrderLedger` is the only step of an abstract specification that nothing maps to.

Only model-checked: liveness (`LimitIsServed`, `PickEnds`, `TradeEnds`, `SignalsEnd`, `ColdStart`, `SessionEnds`, `QuoteSettles`,
`PollsStop`, `RulesSettle`, `ListQuotesSettle`), which is out of the prover's reach.

## Read, and in no run

Disagreements met while modelling that no run shows, because they are pure functions or
because nothing in the repository states what should hold:

* `risk_engine.py:69`: `validate_trade` collects the violations of stop distance and risk-reward and then
  returns `passed=True` without them; only direction and position size refuse an order.
* `zerodha.py:83-91`: a LIMIT order of the live page is sent to Kite as a MARKET order, its price unused.
* `live.py:135`: a cancelled live order stays open in MongoDB, because its status is looked for under the broker's
  number (`UpdateStatus`).
* `kite_rate_limiter.py:35`: the limit is the account's, the timeline a process's; two workers double the rate.
* `strategy-lab-view.tsx:1046`: when the request for the results of an ended run fails, nothing asks again (`ResultsFail`).
* `historical-data-view.tsx`: `browseSeries` keeps no note of what it asked for, so candles of the series browsed before
  may arrive late, and the CSV is written from what is shown under the name of what is selected.

## The plan, what is left

1. `DayBounded` of `SilverStrategy` for two schedulers, where a stale pass may close a signal a second time on the next day; the parameters of the gold and natural-gas strategies.
2. The other pick engines as one parameterised module, implementing `PickLedger` too.
3. The trade desk of the MCX pages and the portfolio pages, where they do more than load and draw.

## Not modelled

Scoring, prediction and back-testing compute numbers from prices and keep no state: tests reach them better.
Broker adapters and market data clients are HTTP; where they matter they are a choice of
answers or a failure. Authentication and notifications change no modelled state.

Most of the client's lines are markup, formatting and the types and one-line `fetch` wrappers of `lib/api.ts`: they have no state, no
order and no failure of their own beyond a request that is answered or not, which the modelled pages stand for.
The pages left out (dashboard, portfolio assistant, US stocks, reports and the like) load once or poll one list and draw it; the
map therefore covers a small share of the client's lines, and would cover more only by naming lines no definition
translates.
