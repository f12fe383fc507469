--------------------------- MODULE SilverStrategy ---------------------------
(***************************************************************************)
(* The MTS Silver strategy (services/mcx_silver_strategy_service.py): a    *)
(* job runs every five minutes; it resolves the open signals of a user and *)
(* contract, asks the daily risk gate (mcx_silver_risk_gate.py), and logs  *)
(* at most one new signal per direction.  The gold and natural-gas         *)
(* strategies have the same steps.  Users and contracts never touch one    *)
(* another's signals: this is one of them.                                 *)
(*                                                                         *)
(* The gate keeps no counter.  It recounts the signals closed today from   *)
(* the collection, which knows nothing of those still open.                *)
(*                                                                         *)
(* A price is left out: a pass finds the target or the stop of a signal    *)
(* hit, or neither.  P&L is in points, the first stop being Risk away.     *)
(***************************************************************************)
EXTENDS Integers, FiniteSets, FiniteSetsExt, Functions

CONSTANTS
  Signals,     \* identifiers of documents of mcx_trade_signals
  Schedulers,  \* the workers whose scheduler runs the job
  MaxTrades,   \* SilverRiskConfig.max_trades_per_day
  MaxLosses,   \* SilverRiskConfig.max_consecutive_losses
  MaxLoss,     \* capital * max_daily_loss_pct
  ExpiryDays,  \* MTS_SIGNAL_EXPIRY_DAYS
  Risk,        \* points from entry to stop; the targets are one and two Risks away
  None

ASSUME SignalsAssumption == IsFiniteSet(Signals)
ASSUME SchedulersAssumption == IsFiniteSet(Schedulers)
ASSUME LimitsAssumption ==
  /\ MaxTrades \in Nat \ {0} /\ MaxLosses \in Nat \ {0} /\ MaxLoss \in Nat
  /\ ExpiryDays \in Nat \ {0} /\ Risk \in Nat \ {0}
ASSUME NoneAssumption == None \notin {"WIN", "LOSS", "EXPIRED"} /\ None \notin {"BUY", "SELL"}

\* What the advisory lock in core/scheduler.py is there to ensure.
SingleScheduler == \A s, p \in Schedulers : s = p

VARIABLES
  sig,   \* the collection
  pass   \* the pass of each scheduler

vars == <<sig, pass>>

Directions == {"BUY", "SELL"}
Results    == {"WIN", "LOSS", "EXPIRED"}
Points     == -Risk .. 2 * Risk

\* age counts the midnights of an open signal, up to one past ExpiryDays; stamp orders
\* the signals closed today by closed_at, and is 0 for all others.
Signal == [status : {"none", "open", "closed"}, direction : Directions \cup {None},
           half : BOOLEAN, age : 0..(ExpiryDays + 1), result : Results \cup {None},
           pnl : Points, stamp : Nat]

\* A pass keeps what it listed, which of that had its first target hit or is
\* old enough to expire, and the closed_at it took with the quote: stamp is None
\* once that lies before midnight, 0 until a signal is closed with it.
Pass == [pc : {"idle", "listed", "resolving", "gating", "looking", "logging"},
         todo : SUBSET Signals, half : SUBSET Signals, old : SUBSET Signals,
         stamp : Nat \cup {None}, direction : Directions \cup {None}]

NoSignal == [status |-> "none", direction |-> None, half |-> FALSE, age |-> 0,
             result |-> None, pnl |-> 0, stamp |-> 0]
IdlePass == [pc |-> "idle", todo |-> {}, half |-> {}, old |-> {}, stamp |-> 0,
             direction |-> None]

Open        == {i \in Signals : sig[i].status = "open"}
ClosedToday == {i \in Signals : sig[i].stamp > 0}

Init ==
  /\ sig = [i \in Signals |-> NoSignal]
  /\ pass = [s \in Schedulers |-> IdlePass]

-----------------------------------------------------------------------------
(* resolve_open_silver_signals                                             *)

ListOpen(s) ==
  /\ pass[s].pc = "idle"
  /\ pass' = [pass EXCEPT ![s] =
       IF Open = {} THEN [IdlePass EXCEPT !.pc = "gating"]
       ELSE [IdlePass EXCEPT !.pc = "listed", !.todo = Open,
                             !.half = {i \in Open : sig[i].half}]]
  /\ UNCHANGED sig

\* Mutant: a signal expires on one day only.
QuoteOneDay(s) ==
  /\ pass[s].pc = "listed"
  /\ pass' = [pass EXCEPT ![s].pc = "resolving",
                          ![s].old = {i \in @ \cup pass[s].todo : sig[i].age = ExpiryDays}]
  /\ UNCHANGED sig

\* The quote is in and `now` is taken.  Ages are in fractions of a day: on
\* its last midnight a signal may or may not be old enough.
Quote(s) ==
  /\ pass[s].pc = "listed"
  /\ \E old \in SUBSET pass[s].todo :
       /\ {i \in pass[s].todo : sig[i].age > ExpiryDays} \subseteq old
       /\ old \subseteq {i \in pass[s].todo : sig[i].age >= ExpiryDays}
       /\ pass' = [pass EXCEPT ![s].pc = "resolving", ![s].old = old]
  /\ UNCHANGED sig

\* The price is at no level and the signal is not old.
LeaveOpen(s, i) ==
  /\ pass[s].pc = "resolving"
  /\ i \in pass[s].todo \ pass[s].old
  /\ pass' = [pass EXCEPT ![s].todo = @ \ {i}]
  /\ UNCHANGED sig

\* mark_target1_hit: half is banked, the stop moves to the entry price.
BankTarget1(s, i) ==
  /\ pass[s].pc = "resolving"
  /\ i \in pass[s].todo \ pass[s].half
  /\ sig' = [sig EXCEPT ![i].half = TRUE]
  /\ pass' = [pass EXCEPT ![s].todo = @ \ {i}]

\* close_signal, by id, with the `now` of the pass as closed_at.
Close(s, i, result, pnl) ==
  LET stamp == IF pass[s].stamp = 0 THEN Cardinality(ClosedToday) + 1 ELSE pass[s].stamp
  IN  /\ sig' = [sig EXCEPT ![i] =
                   [status |-> "closed", direction |-> @.direction, half |-> @.half,
                    age |-> 0, result |-> result, pnl |-> pnl,
                    stamp |-> IF stamp = None THEN 0 ELSE stamp]]
      /\ pass' = [pass EXCEPT ![s].todo = @ \ {i}, ![s].stamp = stamp]

\* Mutants: a result of another engine; the stop also ends a signal that banked.
StopOutMislabelled(s, i) ==
  /\ pass[s].pc = "resolving"
  /\ i \in pass[s].todo \ pass[s].half
  /\ Close(s, i, "STOP_HIT", -Risk)

StopOutBanked(s, i) ==
  /\ pass[s].pc = "resolving"
  /\ i \in pass[s].todo
  /\ Close(s, i, "LOSS", -Risk)

\* The stop, before the first target.
StopOut(s, i) ==
  /\ pass[s].pc = "resolving"
  /\ i \in pass[s].todo \ pass[s].half
  /\ Close(s, i, "LOSS", -Risk)

\* The second target, or the stop at the entry price.
TakeProfit(s, i) ==
  /\ pass[s].pc = "resolving"
  /\ i \in pass[s].todo \cap pass[s].half
  /\ \E pnl \in {2 * Risk, 0} : Close(s, i, "WIN", pnl)

\* Closed at a price between the levels.
Expire(s, i) ==
  /\ pass[s].pc = "resolving"
  /\ i \in pass[s].todo \cap pass[s].old
  /\ \E pnl \in IF i \in pass[s].half THEN 1 .. (2 * Risk - 1) ELSE (1 - Risk) .. (Risk - 1) :
       Close(s, i, "EXPIRED", pnl)

Resolved(s) ==
  /\ pass[s].pc = "resolving"
  /\ pass[s].todo = {}
  /\ pass' = [pass EXCEPT ![s] = [IdlePass EXCEPT !.pc = "gating"]]
  /\ UNCHANGED sig

-----------------------------------------------------------------------------
(* can_generate_new_signal                                                 *)

Losses      == {i \in ClosedToday : sig[i].result = "LOSS"}
LastOther   == Max({0} \cup {sig[i].stamp : i \in ClosedToday \ Losses})
RealizedPnl == SumFunction([i \in ClosedToday |-> sig[i].pnl])

\* compute_daily_state counts the losses at the end of the list sorted by
\* closed_at; the signals that one pass closed share it, in any order.
Streaks ==
  Cardinality({i \in Losses : sig[i].stamp > LastOther}) ..
  Cardinality({i \in Losses : sig[i].stamp >= LastOther})

\* Mutant: one trade too many.
CanTradeAtCap(streak) ==
  /\ Cardinality(ClosedToday) <= MaxTrades
  /\ streak < MaxLosses
  /\ RealizedPnl > -MaxLoss

\* check_can_trade
CanTrade(streak) ==
  /\ Cardinality(ClosedToday) < MaxTrades
  /\ streak < MaxLosses
  /\ RealizedPnl > -MaxLoss

\* Mutant: the pause comes one loss late.
GateLate(s) ==
  /\ pass[s].pc = "gating"
  /\ \/ /\ \E streak \in Streaks : CanTrade(Max({0, streak - 1}))
        /\ pass' = [pass EXCEPT ![s] = [IdlePass EXCEPT !.pc = "looking", !.direction = "BUY"]]
     \/ pass' = [pass EXCEPT ![s] = IdlePass]
  /\ UNCHANGED sig

\* Outside the session, or close to the contract's expiry: blocked at any time.
Gate(s) ==
  /\ pass[s].pc = "gating"
  /\ \/ /\ \E streak \in Streaks : CanTrade(streak)
        /\ pass' = [pass EXCEPT ![s] = [IdlePass EXCEPT !.pc = "looking", !.direction = "BUY"]]
     \/ pass' = [pass EXCEPT ![s] = IdlePass]
  /\ UNCHANGED sig

-----------------------------------------------------------------------------
(* check_and_log_silver_signal, for BUY and then for SELL                  *)

After(direction) ==
  IF direction = "BUY" THEN [IdlePass EXCEPT !.pc = "looking", !.direction = "SELL"]
                       ELSE IdlePass

\* The verdict is WATCH or NO_TRADE, or a signal is open.
NoSignalNow(s) ==
  /\ pass[s].pc = "looking"
  /\ pass' = [pass EXCEPT ![s] = After(@.direction)]
  /\ UNCHANGED sig

\* Mutant: does not look.
FindUnchecked(s) ==
  /\ pass[s].pc = "looking"
  /\ pass' = [pass EXCEPT ![s].pc = "logging"]
  /\ UNCHANGED sig

\* get_open_signal finds nothing,
FindNoneOpen(s) ==
  /\ pass[s].pc = "looking"
  /\ \A i \in Open : sig[i].direction # pass[s].direction
  /\ pass' = [pass EXCEPT ![s].pc = "logging"]
  /\ UNCHANGED sig

\* and create_signal inserts, whatever was inserted meanwhile.
LogSignal(s) ==
  /\ pass[s].pc = "logging"
  /\ \E i \in Signals :
       /\ sig[i].status = "none"
       /\ sig' = [sig EXCEPT ![i] = [NoSignal EXCEPT !.status = "open",
                                                     !.direction = pass[s].direction]]
  /\ pass' = [pass EXCEPT ![s] = After(@.direction)]

\* The job catches any exception of a contract, and a crash ends it as well.
PassFails(s) ==
  /\ pass[s].pc # "idle"
  /\ pass' = [pass EXCEPT ![s] = IdlePass]
  /\ UNCHANGED sig

-----------------------------------------------------------------------------
\* Midnight: nothing was closed today; open signals are a day older.  A signal
\* closed on an earlier day is read by nobody but a pass that still lists it:
\* its identifier stands for another signal from now on.
Kept(i) == sig[i].status = "open" \/ \E s \in Schedulers : i \in pass[s].todo

Older(x) ==
  [x EXCEPT !.stamp = 0,
            !.age = IF x.status = "open" /\ @ <= ExpiryDays THEN @ + 1 ELSE @]

DayTurns ==
  /\ sig' = [i \in Signals |-> IF Kept(i) THEN Older(sig[i]) ELSE NoSignal]
  /\ pass' = [s \in Schedulers |->
       IF pass[s].pc = "resolving" THEN [pass[s] EXCEPT !.stamp = None] ELSE pass[s]]

Step(s) ==
  \/ ListOpen(s) \/ Quote(s) \/ Resolved(s) \/ Gate(s)
  \/ NoSignalNow(s) \/ FindNoneOpen(s) \/ LogSignal(s) \/ PassFails(s)
  \/ \E i \in Signals : LeaveOpen(s, i) \/ BankTarget1(s, i) \/ StopOut(s, i)
                          \/ TakeProfit(s, i) \/ Expire(s, i)

Next == DayTurns \/ \E s \in Schedulers : Step(s)

Spec == Init /\ [][Next]_vars

(***************************************************************************)
(* Fairness.  Days pass, a pass starts every five minutes, and what it     *)
(* does next it does (weak fairness).  That not every quote fails, and     *)
(* not every pass is cut off before it reaches a signal, are assumptions   *)
(* on the environment (strong fairness).                                   *)
(***************************************************************************)
Resolve(s, i) ==
  LeaveOpen(s, i) \/ BankTarget1(s, i) \/ StopOut(s, i) \/ TakeProfit(s, i) \/ Expire(s, i)

Fairness ==
  /\ WF_vars(DayTurns)
  /\ \A s \in Schedulers :
       /\ WF_vars(ListOpen(s)) /\ SF_vars(Quote(s)) /\ WF_vars(Resolved(s)) /\ WF_vars(Gate(s))
       /\ WF_vars(NoSignalNow(s) \/ FindNoneOpen(s)) /\ WF_vars(LogSignal(s))
       /\ \A i \in Signals : SF_vars(Resolve(s, i))

FairSpec == Spec /\ Fairness

-----------------------------------------------------------------------------
(* Properties.                                                             *)

\* Both variables keep their shape.
TypeOK ==
  /\ sig \in [Signals -> Signal]
  /\ pass \in [Schedulers -> Pass]

\* There are never more open signals of one direction than schedulers, although nothing
\* but the look before the insert prevents it: one, while the advisory lock holds.
OpenPerDirection ==
  \A d \in Directions :
    Cardinality({i \in Open : sig[i].direction = d}) <= Cardinality(Schedulers)

\* The gate does not see the open signals, so a day may end with one trade more
\* than max_trades_per_day; with one scheduler it never ends with two more.
DayBounded == Cardinality(Open) + Cardinality(ClosedToday) <= MaxTrades + 1

\* A signal is logged only on a day whose closings so far allow a trade: what the
\* gate found still holds two scores and two look-ups later.
LoggedWithinLimits ==
  [][\A i \in Signals : sig[i].status = "none" /\ sig'[i].status = "open" =>
       \E streak \in Streaks : CanTrade(streak)]_vars

\* A signal that banked its first target never ends as a loss, and a closed one
\* keeps its result for the day, however long ago the pass listed it.
BankedKept ==
  [][\A i \in Signals :
       /\ sig[i].half => sig'[i].result # "LOSS"
       /\ sig[i].status = "closed" =>
            \/ sig'[i].result = sig[i].result /\ sig'[i].pnl = sig[i].pnl
            \/ sig'[i] = NoSignal]_vars

\* Every open signal is closed: no limit of the gate and no banked target keeps
\* it open past its expiry.
SignalsEnd == \A i \in Signals : sig[i].status = "open" ~> sig[i].status # "open"

\* What the risk configuration says, and signals open when the gate counts break (see
\* the findings): at most max_trades_per_day trades end on a day.
DayCap == Cardinality(ClosedToday) <= MaxTrades
=============================================================================
