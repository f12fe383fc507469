----------------------------- MODULE PaperTrade -----------------------------
(***************************************************************************)
(* The paper-trade table (PostgreSQL `trades`) and everything that writes  *)
(* it: the REST handlers of api/v1/paper.py, the Stock-of-the-Day closer,  *)
(* and the position monitor that alerts on open trades and fills LIMIT     *)
(* orders.  A handler is a read, an await, and a write: other writers run  *)
(* in between.                                                             *)
(*                                                                         *)
(* How a write lands matters.  Every writer works on a detached copy of    *)
(* the row as it read it, and TradeRepository.update merges that copy: it  *)
(* selects the row again, sets every column that differs from the copy,    *)
(* and the commit flushes those columns.  So a stale copy undoes what      *)
(* other writers did to any column, and a column that agreed when the row  *)
(* was selected is left to whoever writes before the commit.               *)
(*                                                                         *)
(* Prices are small integers; a quote is any price or no answer.           *)
(* closed_at is written with exit_price by every writer and is left out.   *)
(***************************************************************************)
EXTENDS Integers, FiniteSets

CONSTANTS
  Trades,      \* identifiers a trade may be created under
  Requests,    \* concurrent close / cancel calls
  Workers,     \* server processes, each with its own alert store
  Schedulers,  \* the workers whose scheduler runs the position monitor
  Symbols,
  Prices,
  None         \* a NULL column, or a quote that failed

ASSUME SchedulersAssumption == Schedulers \subseteq Workers
ASSUME PricesAssumption == Prices \subseteq Nat
ASSUME NoneAssumption == None \notin Prices

\* What the advisory lock in core/scheduler.py is there to ensure.
SingleScheduler == \A p, q \in Schedulers : p = q

VARIABLES
  rows,        \* the trades table
  req,         \* handler in flight: what it read, before it writes
  mon,         \* the monitor pass of each scheduler
  seen,        \* position_monitor._seen, per process
  alerts,      \* position_monitor._store, per process: alerts per (trade, event)
  marketOpen   \* is_market_open_ist()

vars == <<rows, req, mon, seen, alerts, marketOpen>>

Status  == {"none", "pending", "open", "closed", "cancelled"}
Signals == {"BUY", "SELL"}
Events  == {"stop_hit", "target_hit"}
Keys    == Trades \X Events

(***************************************************************************)
(* What an order asks for.  place_trade refuses a stop or a target on the  *)
(* wrong side of the entry price.                                          *)
(***************************************************************************)
Directional(x) ==
  IF x.signal = "BUY" THEN x.stop_loss < x.entry /\ x.entry < x.target
                      ELSE x.target < x.entry /\ x.entry < x.stop_loss

\* The kind of an order is no column of the table: it is kept here for the
\* properties, which tell apart what was filled at once and what was queued.
Terms == {x \in [symbol : Symbols, signal : Signals, entry : Prices, stop_loss : Prices,
                 target : Prices, kind : {"market", "limit"}] : Directional(x)}

StopHit(x, p)      == IF x.signal = "BUY" THEN p <= x.stop_loss ELSE p >= x.stop_loss
TargetHit(x, p)    == IF x.signal = "BUY" THEN p >= x.target    ELSE p <= x.target
LimitReached(x, p) == IF x.signal = "BUY" THEN p <= x.entry     ELSE p >= x.entry

Row   == [status : Status, terms : Terms \cup {None}, opened : BOOLEAN,
          exit : Prices \cup {None}]
NoRow == [status |-> "none", terms |-> None, opened |-> FALSE, exit |-> None]

(***************************************************************************)
(* TradeRepository.update: what the merge finds changed, and what the      *)
(* commit then makes of the row.                                           *)
(***************************************************************************)
Columns == {"status", "opened", "exit"}

Changed(row, copy) == {c \in Columns : row[c] # copy[c]}

Flushed(row, copy, cols) ==
  [row EXCEPT !.status = IF "status" \in cols THEN copy.status ELSE @,
              !.opened = IF "opened" \in cols THEN copy.opened ELSE @,
              !.exit   = IF "exit"   \in cols THEN copy.exit   ELSE @]

Idle     == [pc |-> "idle", trade |-> None, copy |-> NoRow, cols |-> {}]
\* A pass of the monitor that is not writing.
Pass(pc, open, pend) == [pc |-> pc, open |-> open, pend |-> pend, order |-> None, cols |-> {}]
IdlePass == Pass("idle", {}, {})
NoAlert  == [fresh |-> 0, acked |-> 0]

Init ==
  /\ rows = [t \in Trades |-> NoRow]
  /\ req = [r \in Requests |-> Idle]
  /\ mon = [p \in Schedulers |-> IdlePass]
  /\ seen = [p \in Workers |-> {}]
  /\ alerts = [p \in Workers |-> [k \in Keys |-> NoAlert]]
  /\ marketOpen \in BOOLEAN

-----------------------------------------------------------------------------
(* The REST handlers.                                                      *)

\* place_trade without a limit price: filled at the live quote, refused
\* while the market is closed.
PlaceMarket(t) ==
  /\ rows[t].status = "none"
  /\ marketOpen
  /\ \E x \in Terms :
       /\ x.kind = "market"
       /\ rows' = [rows EXCEPT ![t] = [status |-> "open", terms |-> x,
                                       opened |-> TRUE, exit |-> None]]
  /\ UNCHANGED <<req, mon, seen, alerts, marketOpen>>

\* place_trade with a limit price: queued at any hour.
PlaceLimit(t) ==
  /\ rows[t].status = "none"
  /\ \E x \in Terms :
       /\ x.kind = "limit"
       /\ rows' = [rows EXCEPT ![t] = [status |-> "pending", terms |-> x,
                                       opened |-> FALSE, exit |-> None]]
  /\ UNCHANGED <<req, mon, seen, alerts, marketOpen>>

\* What a handler in flight holds: the row as it read it.
Holds(r, pc, t) ==
  /\ req[r].pc = "idle"
  /\ req' = [req EXCEPT ![r] = [pc |-> pc, trade |-> t, copy |-> rows[t], cols |-> {}]]
  /\ UNCHANGED <<rows, mon, seen, alerts, marketOpen>>

\* The merge of a changed copy: it selects the row and finds the columns to write.
Merges(r, copy) ==
  /\ req' = [req EXCEPT ![r] = [pc |-> "writing", trade |-> @.trade, copy |-> copy,
                                cols |-> Changed(rows[req[r].trade], copy)]]
  /\ UNCHANGED <<rows, mon, seen, alerts, marketOpen>>

\* Mutant: refuses only trades that already ended, so a pending order closes too.
CloseReadUnended(r, t) ==
  /\ rows[t].status \in {"pending", "open"}
  /\ Holds(r, "closing", t)

\* close_trade and _close_paper_trade load the row and go on if it is OPEN.
CloseRead(r, t) ==
  /\ rows[t].status = "open"
  /\ Holds(r, "closing", t)

\* The quote (or the caller's price) is in.
CloseMerge(r) ==
  /\ req[r].pc = "closing"
  /\ \E price \in Prices :
       Merges(r, [req[r].copy EXCEPT !.status = "closed", !.exit = price])

\* cancel_trade loads the row and goes on if it is PENDING.
CancelRead(r, t) ==
  /\ rows[t].status = "pending"
  /\ Holds(r, "cancelling", t)

CancelMerge(r) ==
  /\ req[r].pc = "cancelling"
  /\ Merges(r, [req[r].copy EXCEPT !.status = "cancelled"])

\* The commit of either.
Commit(r) ==
  /\ req[r].pc = "writing"
  /\ rows' = [rows EXCEPT ![req[r].trade] = Flushed(@, req[r].copy, req[r].cols)]
  /\ req' = [req EXCEPT ![r] = Idle]
  /\ UNCHANGED <<mon, seen, alerts, marketOpen>>

\* No quote (503), a price outside the day's range (422), a dropped
\* connection or a lost process: nothing was written.
RequestFails(r) ==
  /\ req[r].pc # "idle"
  /\ req' = [req EXCEPT ![r] = Idle]
  /\ UNCHANGED <<rows, mon, seen, alerts, marketOpen>>

\* PATCH and DELETE on an alert reach the store of the worker that serves them.
AckAlert(p, k) ==
  /\ alerts[p][k].fresh > 0
  /\ alerts' = [alerts EXCEPT ![p][k] =
                  [fresh |-> @.fresh - 1, acked |-> @.acked + 1]]
  /\ UNCHANGED <<rows, req, mon, seen, marketOpen>>

\* Mutants: clears without looking the alert up; also forgets the dedup key.
ClearAlertUnchecked(p, k) ==
  /\ alerts' = [alerts EXCEPT ![p][k].fresh = @ - 1]
  /\ UNCHANGED <<rows, req, mon, seen, marketOpen>>

ClearAlertAndKey(p, k) ==
  /\ alerts[p][k].fresh + alerts[p][k].acked > 0
  /\ alerts' = [alerts EXCEPT ![p][k] = NoAlert]
  /\ seen' = [seen EXCEPT ![p] = @ \ {k}]
  /\ UNCHANGED <<rows, req, mon, marketOpen>>

\* clear_alert removes the alert and leaves its dedup key.
ClearAlert(p, k) ==
  /\ \/ /\ alerts[p][k].fresh > 0
        /\ alerts' = [alerts EXCEPT ![p][k].fresh = @ - 1]
     \/ /\ alerts[p][k].acked > 0
        /\ alerts' = [alerts EXCEPT ![p][k].acked = @ - 1]
  /\ UNCHANGED <<rows, req, mon, seen, marketOpen>>

-----------------------------------------------------------------------------
(* The position monitor: run_position_check.                               *)

ListAllOpen(p) ==
  /\ mon[p].pc = "idle"
  /\ mon' = [mon EXCEPT ![p] =
               Pass("listing", {t \in Trades : rows[t].status = "open"}, {})]
  /\ UNCHANGED <<rows, req, seen, alerts, marketOpen>>

\* Mutants: returns before the orders when no trade is open; lists every trade
\* that has not ended.
ListAllPendingIfOpen(p) ==
  /\ mon[p].pc = "listing"
  /\ LET pend == IF marketOpen THEN {t \in Trades : rows[t].status = "pending"} ELSE {}
     IN  mon' = [mon EXCEPT ![p] =
                   IF mon[p].open = {} THEN IdlePass
                   ELSE Pass("quoting", mon[p].open, pend)]
  /\ UNCHANGED <<rows, req, seen, alerts, marketOpen>>

ListAllUnended(p) ==
  /\ mon[p].pc = "listing"
  /\ LET pend == {t \in Trades : rows[t].status \in {"pending", "open"}}
     IN  mon' = [mon EXCEPT ![p] = Pass("quoting", mon[p].open, pend)]
  /\ UNCHANGED <<rows, req, seen, alerts, marketOpen>>

\* PENDING orders are listed only in market hours; with nothing listed the
\* pass is over.
ListAllPending(p) ==
  /\ mon[p].pc = "listing"
  /\ LET pend == IF marketOpen THEN {t \in Trades : rows[t].status = "pending"} ELSE {}
     IN  mon' = [mon EXCEPT ![p] =
                   IF mon[p].open = {} /\ pend = {} THEN IdlePass
                   ELSE Pass("quoting", mon[p].open, pend)]
  /\ UNCHANGED <<rows, req, seen, alerts, marketOpen>>

\* The (trade, event) pairs that fire on the trades listed open.
Fired(p, quote) ==
  {k \in mon[p].open \X Events :
     LET x == rows[k[1]].terms
         price == quote[x.symbol]
     IN  /\ price # None
         /\ IF k[2] = "stop_hit" THEN StopHit(x, price) ELSE TargetHit(x, price)}

Due(p, quote) ==
  {t \in mon[p].pend :
     LET x == rows[t].terms
     IN  quote[x.symbol] # None /\ LimitReached(x, quote[x.symbol])}

\* Mutant: alerts without consulting the dedup set.
CheckPricesAgain(p, quote) ==
  /\ mon[p].pc = "quoting"
  /\ LET new == Fired(p, quote)
     IN  /\ seen' = [seen EXCEPT ![p] = @ \cup new]
         /\ alerts' = [alerts EXCEPT ![p] =
              [k \in Keys |-> IF k \in new THEN [alerts[p][k] EXCEPT !.fresh = @ + 1]
                                           ELSE alerts[p][k]]]
  /\ mon' = [mon EXCEPT ![p] = Pass("filling", {}, Due(p, quote))]
  /\ UNCHANGED <<rows, req, marketOpen>>

\* Quotes arrive (any may fail); alerts are raised without a further await;
\* the orders whose limit was reached remain to be filled.
CheckPrices(p, quote) ==
  /\ mon[p].pc = "quoting"
  /\ LET new == Fired(p, quote) \ seen[p]
     IN  /\ seen' = [seen EXCEPT ![p] = @ \cup new]
         /\ alerts' = [alerts EXCEPT ![p] =
              [k \in Keys |-> IF k \in new THEN [alerts[p][k] EXCEPT !.fresh = @ + 1]
                                                  ELSE alerts[p][k]]]
  /\ mon' = [mon EXCEPT ![p] = Pass("filling", {}, Due(p, quote))]
  /\ UNCHANGED <<rows, req, marketOpen>>

\* Mutant: opens the order without stamping opened_at.
FilledUnstamped(row) == [status |-> "open", terms |-> row.terms, opened |-> row.opened, exit |-> None]

\* What the pass makes of its copy of a PENDING row, which had no exit price.
Filled(row) == [status |-> "open", terms |-> row.terms, opened |-> TRUE, exit |-> None]

\* The listed order is written as OPEN: merged, its stamp always a new one,
FillMerge(p, t) ==
  /\ mon[p].pc = "filling"
  /\ t \in mon[p].pend
  /\ mon' = [mon EXCEPT ![p] = [pc |-> "writing", open |-> {}, pend |-> @.pend \ {t}, order |-> t,
                                cols |-> Changed(rows[t], Filled(rows[t])) \cup {"opened"}]]
  /\ UNCHANGED <<rows, req, seen, alerts, marketOpen>>

\* and committed.
FillCommit(p) ==
  /\ mon[p].pc = "writing"
  /\ rows' = [rows EXCEPT ![mon[p].order] = Flushed(@, Filled(@), mon[p].cols)]
  /\ mon' = [mon EXCEPT ![p] = Pass("filling", {}, mon[p].pend)]
  /\ UNCHANGED <<req, seen, alerts, marketOpen>>

PassEnds(p) ==
  /\ mon[p].pc = "filling"
  /\ mon[p].pend = {}
  /\ mon' = [mon EXCEPT ![p] = IdlePass]
  /\ UNCHANGED <<rows, req, seen, alerts, marketOpen>>

\* A database error ends the pass: what it already wrote stays.
PassFails(p) ==
  /\ mon[p].pc # "idle"
  /\ mon' = [mon EXCEPT ![p] = IdlePass]
  /\ UNCHANGED <<rows, req, seen, alerts, marketOpen>>

-----------------------------------------------------------------------------
(* The environment.                                                        *)

\* The alert store and the dedup set are module globals: a restart empties both.
Restart(p) ==
  /\ seen' = [seen EXCEPT ![p] = {}]
  /\ alerts' = [alerts EXCEPT ![p] = [k \in Keys |-> NoAlert]]
  /\ mon' = [q \in Schedulers |-> IF q = p THEN IdlePass ELSE mon[q]]
  /\ UNCHANGED <<rows, req, marketOpen>>

MarketTurns ==
  /\ marketOpen' = ~marketOpen
  /\ UNCHANGED <<rows, req, mon, seen, alerts>>

Quotes == [Symbols -> Prices \cup {None}]

Handlers ==
  \/ \E t \in Trades : PlaceMarket(t) \/ PlaceLimit(t)
  \/ \E r \in Requests : \/ \E t \in Trades : CloseRead(r, t) \/ CancelRead(r, t)
                         \/ CloseMerge(r)
                         \/ CancelMerge(r)
                         \/ Commit(r)
                         \/ RequestFails(r)
  \/ \E p \in Workers, k \in Keys : AckAlert(p, k) \/ ClearAlert(p, k)

Monitor ==
  \E p \in Schedulers :
     \/ ListAllOpen(p)
     \/ ListAllPending(p)
     \/ \E quote \in Quotes : CheckPrices(p, quote)
     \/ \E t \in Trades : FillMerge(p, t)
     \/ FillCommit(p)
     \/ PassEnds(p)
     \/ PassFails(p)

Environment == MarketTurns \/ \E p \in Workers : Restart(p)

Next == Handlers \/ Monitor \/ Environment

Spec == Init /\ [][Next]_vars

(***************************************************************************)
(* Fairness.  APScheduler starts a pass every five minutes and a pass that *)
(* started goes on (weak fairness).  That a pass is not lost to a database *)
(* error or a restart every single time, and that some pass quotes a price *)
(* at the limit, are assumptions on the environment (strong fairness), and *)
(* so is that passes keep listing orders in market hours.                  *)
(***************************************************************************)
QuoteAtLimit(p, t) ==
  \E quote \in Quotes : t \in Due(p, quote) /\ CheckPrices(p, quote)

Fairness ==
  \A p \in Schedulers :
     /\ WF_vars(ListAllOpen(p))
     /\ WF_vars(PassEnds(p))
     /\ SF_vars(FillCommit(p))
     /\ []<><<ListAllPending(p) /\ marketOpen>>_vars
     /\ \A t \in Trades : SF_vars(QuoteAtLimit(p, t)) /\ SF_vars(FillMerge(p, t))

FairSpec == Spec /\ Fairness

-----------------------------------------------------------------------------
(* Properties.                                                             *)

\* Every variable keeps its shape.
TypeOK ==
  /\ rows \in [Trades -> Row]
  /\ req \in [Requests -> [pc : {"idle", "closing", "cancelling", "writing"},
                           trade : Trades \cup {None}, copy : Row, cols : SUBSET Columns]]
  /\ mon \in [Schedulers -> [pc : {"idle", "listing", "quoting", "filling", "writing"},
                             open : SUBSET Trades, pend : SUBSET Trades,
                             order : Trades \cup {None}, cols : SUBSET Columns]]
  /\ seen \in [Workers -> SUBSET Keys]
  /\ alerts \in [Workers -> [Keys -> [fresh : Nat, acked : Nat]]]
  /\ marketOpen \in BOOLEAN

Market(row) == row.status # "none" /\ row.terms.kind = "market"

\* The columns of a row agree as far as its readers rely on it (Trade.pnl, the
\* monitor, the cap on open trades): a pending row was never opened and an open
\* row has been, neither has an exit price, and a trade placed at the market has
\* one exactly when it is closed.  Stale copies merged column by column never
\* break this with one scheduler.  (A LIMIT order that a cancel reached late is
\* CANCELLED or CLOSED with whatever the two writers left in its columns.)
RowCoherent ==
  \A t \in Trades :
     /\ rows[t].status \in {"none", "pending"} => ~rows[t].opened /\ rows[t].exit = None
     /\ rows[t].status = "open" => rows[t].opened /\ rows[t].exit = None
     /\ Market(rows[t]) => /\ rows[t].status \in {"open", "closed"}
                           /\ rows[t].opened
                           /\ rows[t].exit = None <=> rows[t].status = "open"

\* A process holds at most one alert for a (trade, event), however many passes
\* see the breach and whatever the user acknowledges or clears in between.
AlertOnce ==
  \A p \in Workers, k \in Keys :
     /\ alerts[p][k].fresh + alerts[p][k].acked <= 1
     /\ k \notin seen[p] => alerts[p][k] = NoAlert

\* An alert the user cleared does not come back until the process restarts: it is
\* not raised again, and its dedup key goes only with all keys and all alerts.
ClearedStaysCleared ==
  [][\A p \in Workers, k \in Keys : k \in seen[p] =>
       /\ alerts[p][k] = NoAlert => alerts'[p][k] = NoAlert
       /\ k \notin seen'[p] => \A j \in Keys : j \notin seen'[p] /\ alerts'[p][j] = NoAlert]_vars

\* A cancel of t on its way to the table: it read t PENDING, whatever t is now.
CancelOnItsWay(t) ==
  \E r \in Requests : /\ req[r].pc = "writing" /\ req[r].trade = t
                       /\ req[r].copy.status = "cancelled"

\* A closed trade does not turn open again, and a realised result is erased by one thing
\* only: a cancel that read the order while it waited for its limit, and writes
\* that copy back.  With one scheduler the monitor's stale copies do neither, and
\* the result of a trade placed at the market is never lost.
ResultKept ==
  [][\A t \in Trades :
       /\ rows[t].status = "closed" => rows'[t].status \in {"closed", "cancelled"}
       /\ rows[t].exit # None /\ rows'[t].exit = None =>
             CancelOnItsWay(t) /\ ~Market(rows[t])]_vars

\* A LIMIT order whose price is reached again and again in market hours is
\* filled, unless its owner cancels it.
LimitIsServed == \A t \in Trades : rows[t].status = "pending" ~> rows[t].status # "pending"

\* What the docs and tests say, and the interleavings break:
\* a cancelled order stays cancelled,
CancelledIsFinal ==
  [][\A t \in Trades : rows[t].status = "cancelled" => rows'[t].status = "cancelled"]_vars

\* only a pending order is cancelled,
OnlyPendingIsCancelled ==
  [][\A t \in Trades :
       rows'[t].status = "cancelled" => rows[t].status \in {"pending", "cancelled"}]_vars

\* and a closed trade cannot be closed again at another price.
ClosedOnce ==
  [][\A t \in Trades : rows[t].exit # None => rows'[t].exit = rows[t].exit]_vars

(***************************************************************************)
(* The promise of the table: what may become of a trade placed at the      *)
(* market, and of an order queued for its limit.                           *)
(***************************************************************************)
Phase(row) ==
  CASE row.status = "none"      -> "absent"
    [] row.status = "pending"   -> "waiting"
    [] row.status = "open"      -> "running"
    [] row.status = "closed"    -> "settled"
    [] row.status = "cancelled" -> "void"

Queued(row) == row.status # "none" /\ row.terms.kind = "limit"

Ledger == INSTANCE TradeLedger WITH phase  <- [t \in Trades |-> Phase(rows[t])],
                                    queued <- {t \in Trades : Queued(rows[t])}
LedgerSpec == Ledger!Spec
=============================================================================
