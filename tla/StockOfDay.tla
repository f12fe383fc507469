----------------------------- MODULE StockOfDay -----------------------------
(***************************************************************************)
(* The Stock-of-the-Day engine.  A pick lives in MongoDB, the paper trade  *)
(* it places lives in PostgreSQL, and no transaction spans the two:        *)
(* services/stock_of_day_service.py orders the writes and hopes.           *)
(*                                                                         *)
(* Three jobs run, each at most once at a time on the scheduler: generate  *)
(* (09:30), price check (every five minutes) and expire (15:35).  An admin *)
(* may also generate (deleting today's pick first) and check from the REST *)
(* API, on any worker, at any moment.                                      *)
(*                                                                         *)
(* Prices are left out: a check finds the target or the stop hit, or       *)
(* neither.  A run works on the list it read, whatever happened since.     *)
(***************************************************************************)
EXTENDS Integers, FiniteSets

CONSTANTS
  Picks,       \* identifiers of MongoDB documents
  Trades,      \* identifiers of rows of `trades`
  Generators,  \* tasks generating a pick: the 09:30 job and admin calls
  Checkers,    \* tasks in run_sotd_price_check: the job and admin calls
  Expirers,    \* tasks in expire_open_picks: the 15:35 job
  MaxDaily,    \* SotDSettings.max_daily_trades
  MaxDay,      \* bound: calendar days
  MaxFaults,   \* bound: failures of a task or of a database call
  None

ASSUME RunsAssumption == Checkers \cap Expirers = {}
ASSUME GeneratorsAssumption == IsFiniteSet(Generators)
ASSUME BoundsAssumption == MaxDaily \in Nat /\ MaxDay \in Nat \ {0} /\ MaxFaults \in Nat
ASSUME NoneAssumption == None \notin Trades /\ None \notin Picks /\ None \notin Nat

VARIABLES
  today,    \* the date in IST
  picks,    \* the stock_of_day collection
  journal,  \* the ends recorded in the sotd_journal collection: (pick, event)
  trades,   \* the rows auto-traded by this engine, with the day they opened
  gen,      \* generate_and_save_daily_pick, per task
  run,      \* run_sotd_price_check or expire_open_picks, per task
  faults    \* how many failures there were

vars == <<today, picks, journal, trades, gen, run, faults>>

Runs   == Checkers \cup Expirers
Days   == 1..MaxDay
Ends   == {"TARGET_HIT", "STOP_HIT", "EXPIRED"}
Status == {"absent", "deleted", "WATCHING", "TRADING"} \cup Ends

Pick  == [status : Status, date : Days \cup {None}, trade : Trades \cup {None}]
Trade == [status : {"none", "open", "closed"}, date : Days \cup {None}]

NoPick  == [status |-> "absent", date |-> None, trade |-> None]
NoTrade == [status |-> "none", date |-> None]
IdleGen == [pc |-> "idle", date |-> None, trade |-> None]
IdleRun == [pc |-> "idle", todo |-> {}, pick |-> None, event |-> None]

Building(date) == [pc |-> "building", date |-> date, trade |-> None]
Looping(todo)  == [pc |-> "loop", todo |-> todo, pick |-> None, event |-> None]

Stored(p)  == picks[p].status \notin {"absent", "deleted"}
Dated(d)   == {p \in Picks : Stored(p) /\ picks[p].date = d}

\* count_auto_trades_today: stored picks of the date that carry a trade.
AutoTraded(d) == {p \in Dated(d) : picks[p].trade # None}

Init ==
  /\ today = 1
  /\ picks = [p \in Picks |-> NoPick]
  /\ journal = {}
  /\ trades = [t \in Trades |-> NoTrade]
  /\ gen = [g \in Generators |-> IdleGen]
  /\ run = [r \in Runs |-> IdleRun]
  /\ faults = 0

Fault == faults < MaxFaults /\ faults' = faults + 1

-----------------------------------------------------------------------------
(* generate_and_save_daily_pick                                            *)

\* The admin's regenerate deletes one pick of today before it generates; the
\* trade of that pick is not touched.
DeleteToday(g) ==
  /\ gen[g].pc = "idle"
  /\ \/ \E p \in Dated(today) : picks' = [picks EXCEPT ![p].status = "deleted"]
     \/ Dated(today) = {} /\ picks' = picks
  /\ gen' = [gen EXCEPT ![g].pc = "asked"]
  /\ UNCHANGED <<today, journal, trades, run, faults>>

\* Generate goes on only if no pick of today is stored.
CheckExisting(g) ==
  /\ gen[g].pc \in {"idle", "asked"}
  /\ gen' = [gen EXCEPT ![g] =
               IF Dated(today) # {} THEN IdleGen
               ELSE Building(today)]
  /\ UNCHANGED <<today, picks, journal, trades, run, faults>>

\* No candidate: nothing is saved.
NoCandidate(g) ==
  /\ gen[g].pc = "building"
  /\ gen' = [gen EXCEPT ![g] = IdleGen]
  /\ UNCHANGED <<today, picks, journal, trades, run, faults>>

\* The score is below the threshold, auto-trade is off, or the market is closed.
BuildWatching(g) ==
  /\ gen[g].pc = "building"
  /\ gen' = [gen EXCEPT ![g].pc = "saving"]
  /\ UNCHANGED <<today, picks, journal, trades, run, faults>>

\* _auto_place_trade counts the trades of the day it is by then.
CountTrades(g) ==
  /\ gen[g].pc = "building"
  /\ gen' = [gen EXCEPT ![g].pc =
               IF Cardinality(AutoTraded(today)) >= MaxDaily THEN "saving" ELSE "placing"]
  /\ UNCHANGED <<today, picks, journal, trades, run, faults>>

\* The trade is committed first; only then is the pick linked to it.
PlaceTrade(g) ==
  /\ gen[g].pc = "placing"
  /\ \E t \in Trades :
       /\ trades[t].status = "none"
       /\ trades' = [trades EXCEPT ![t] = [status |-> "open", date |-> today]]
       /\ gen' = [gen EXCEPT ![g] = [pc |-> "saving", date |-> @.date, trade |-> t]]
  /\ UNCHANGED <<today, picks, journal, run, faults>>

\* An exception is swallowed, before the trade was committed or after: the pick
\* goes on as WATCHING.
PlaceFails(g) ==
  /\ gen[g].pc = "placing"
  /\ Fault
  /\ \/ trades' = trades
     \/ \E t \in Trades : /\ trades[t].status = "none"
                          /\ trades' = [trades EXCEPT ![t] =
                                          [status |-> "open", date |-> today]]
  /\ gen' = [gen EXCEPT ![g].pc = "saving"]
  /\ UNCHANGED <<today, picks, journal, run>>

\* Mutant: saves every pick as TRADING.
SavePickTrading(g) ==
  /\ gen[g].pc = "saving"
  /\ \E p \in Picks :
       /\ picks[p].status = "absent"
       /\ picks' = [picks EXCEPT ![p] =
            [status |-> "TRADING", date |-> gen[g].date, trade |-> gen[g].trade]]
  /\ gen' = [gen EXCEPT ![g] = IdleGen]
  /\ UNCHANGED <<today, journal, trades, run, faults>>

\* repo.save inserts: there is no index that would refuse a second pick of a date.
SavePick(g) ==
  /\ gen[g].pc = "saving"
  /\ \E p \in Picks :
       /\ picks[p].status = "absent"
       /\ picks' = [picks EXCEPT ![p] =
            [status |-> IF gen[g].trade = None THEN "WATCHING" ELSE "TRADING",
             date |-> gen[g].date, trade |-> gen[g].trade]]
  /\ gen' = [gen EXCEPT ![g] = IdleGen]
  /\ UNCHANGED <<today, journal, trades, run, faults>>

\* A crash, or an exception of a database call: what was written stays.
GenerateFails(g) ==
  /\ gen[g].pc # "idle"
  /\ Fault
  /\ gen' = [gen EXCEPT ![g] = IdleGen]
  /\ UNCHANGED <<today, picks, journal, trades, run>>

-----------------------------------------------------------------------------
(* run_sotd_price_check and expire_open_picks                              *)

\* Mutant: reads the TRADING picks of today only.
ListTradingToday(r) ==
  /\ run[r].pc = "idle"
  /\ run' = [run EXCEPT ![r] = Looping({p \in Dated(today) : picks[p].status = "TRADING"})]
  /\ UNCHANGED <<today, picks, journal, trades, gen, faults>>

\* Both read the TRADING picks, then wait for quotes.
ListTrading(r) ==
  /\ run[r].pc = "idle"
  /\ run' = [run EXCEPT ![r] = Looping({p \in Picks : picks[p].status = "TRADING"})]
  /\ UNCHANGED <<today, picks, journal, trades, gen, faults>>

\* No quote, or a price between stop and target: a check passes the pick by.
PassBy(r, p) ==
  /\ r \in Checkers
  /\ run[r].pc = "loop"
  /\ p \in run[r].todo
  /\ run' = [run EXCEPT ![r].todo = @ \ {p}]
  /\ UNCHANGED <<today, picks, journal, trades, gen, faults>>

Decides(r) == IF r \in Checkers THEN {"TARGET_HIT", "STOP_HIT"} ELSE {"EXPIRED"}

\* Mutants: a status nobody knows; no journal entry; no closing; an upsert.
EndPickMislabelled(r, p) ==
  /\ run[r].pc = "loop"
  /\ p \in run[r].todo
  /\ picks' = IF Stored(p) THEN [picks EXCEPT ![p].status = "CLOSED"] ELSE picks
  /\ run' = [run EXCEPT ![r] = Looping(run[r].todo \ {p})]
  /\ UNCHANGED <<today, journal, trades, gen, faults>>

EndPickUnjournaled(r, p) ==
  /\ run[r].pc = "loop"
  /\ p \in run[r].todo
  /\ \E event \in Decides(r) :
       /\ picks' = IF Stored(p) THEN [picks EXCEPT ![p].status = event] ELSE picks
       /\ run' = [run EXCEPT ![r] = [pc |-> "closing", todo |-> run[r].todo \ {p},
                                     pick |-> p, event |-> event]]
  /\ UNCHANGED <<today, journal, trades, gen, faults>>

EndPickOnly(r, p) ==
  /\ run[r].pc = "loop"
  /\ p \in run[r].todo
  /\ \E event \in Decides(r) :
       picks' = IF Stored(p) THEN [picks EXCEPT ![p].status = event] ELSE picks
  /\ run' = [run EXCEPT ![r] = Looping(run[r].todo \ {p})]
  /\ UNCHANGED <<today, journal, trades, gen, faults>>

EndPickUpsert(r, p) ==
  /\ run[r].pc = "loop"
  /\ p \in run[r].todo
  /\ \E event \in Decides(r) :
       /\ picks' = [picks EXCEPT ![p].status = event]
       /\ run' = [run EXCEPT ![r] = [pc |-> "journal", todo |-> run[r].todo \ {p},
                                     pick |-> p, event |-> event]]
  /\ UNCHANGED <<today, journal, trades, gen, faults>>

\* The pick is ended by id, whatever its status is by now; a deleted pick is
\* not found and stays deleted.
EndPick(r, p) ==
  /\ run[r].pc = "loop"
  /\ p \in run[r].todo
  /\ \E event \in Decides(r) :
       /\ picks' = IF Stored(p) THEN [picks EXCEPT ![p].status = event] ELSE picks
       /\ run' = [run EXCEPT ![r] = [pc |-> "journal", todo |-> run[r].todo \ {p},
                                     pick |-> p, event |-> event]]
  /\ UNCHANGED <<today, journal, trades, gen, faults>>

AddJournalEntry(r) ==
  /\ run[r].pc = "journal"
  /\ journal' = journal \cup {<<run[r].pick, run[r].event>>}
  /\ run' = [run EXCEPT ![r].pc = "closing"]
  /\ UNCHANGED <<today, picks, trades, gen, faults>>

\* Mutant: closes only the trades opened today.
CloseReadToday(r) ==
  /\ run[r].pc = "closing"
  /\ run' = [run EXCEPT ![r] =
       IF LET t == trades[picks[run[r].pick].trade] IN t.status = "open" /\ t.date = today
       THEN [run[r] EXCEPT !.pc = "closed"] ELSE Looping(run[r].todo)]
  /\ UNCHANGED <<today, picks, journal, trades, gen, faults>>

\* _close_paper_trade reads the row and goes on if it is OPEN,
CloseRead(r) ==
  /\ run[r].pc = "closing"
  /\ run' = [run EXCEPT ![r] =
       IF trades[picks[run[r].pick].trade].status = "open"
       THEN [run[r] EXCEPT !.pc = "closed"] ELSE Looping(run[r].todo)]
  /\ UNCHANGED <<today, picks, journal, trades, gen, faults>>

\* and writes it closed.
CloseWrite(r) ==
  /\ run[r].pc = "closed"
  /\ trades' = [trades EXCEPT ![picks[run[r].pick].trade].status = "closed"]
  /\ run' = [run EXCEPT ![r] = Looping(run[r].todo)]
  /\ UNCHANGED <<today, picks, journal, gen, faults>>

\* _close_paper_trade logs an exception and returns: the run goes on.
CloseFails(r) ==
  /\ run[r].pc \in {"closing", "closed"}
  /\ Fault
  /\ run' = [run EXCEPT ![r] = Looping(run[r].todo)]
  /\ UNCHANGED <<today, picks, journal, trades, gen>>

RunEnds(r) ==
  /\ run[r].pc = "loop"
  /\ run[r].todo = {}
  /\ run' = [run EXCEPT ![r] = IdleRun]
  /\ UNCHANGED <<today, picks, journal, trades, gen, faults>>

RunFails(r) ==
  /\ run[r].pc # "idle"
  /\ Fault
  /\ run' = [run EXCEPT ![r] = IdleRun]
  /\ UNCHANGED <<today, picks, journal, trades, gen>>

-----------------------------------------------------------------------------
(* The environment.                                                        *)

\* The owner closes the trade by hand (PaperTrade has the handler's steps).
UserCloses(t) ==
  /\ trades[t].status = "open"
  /\ trades' = [trades EXCEPT ![t].status = "closed"]
  /\ UNCHANGED <<today, picks, journal, gen, run, faults>>

DayTurns ==
  /\ today < MaxDay
  /\ today' = today + 1
  /\ UNCHANGED <<picks, journal, trades, gen, run, faults>>

Generate ==
  \E g \in Generators :
     \/ DeleteToday(g) \/ CheckExisting(g) \/ NoCandidate(g) \/ BuildWatching(g)
     \/ CountTrades(g) \/ PlaceTrade(g) \/ PlaceFails(g) \/ SavePick(g)
     \/ GenerateFails(g)

Watch ==
  \E r \in Runs :
     \/ ListTrading(r)
     \/ \E p \in Picks : PassBy(r, p) \/ EndPick(r, p)
     \/ AddJournalEntry(r) \/ CloseRead(r) \/ CloseWrite(r) \/ CloseFails(r)
     \/ RunEnds(r) \/ RunFails(r)

Next == Generate \/ Watch \/ DayTurns \/ \E t \in Trades : UserCloses(t)

Spec == Init /\ [][Next]_vars

\* The jobs are scheduled day after day, and a task that started goes on.
Fairness ==
  /\ \A r \in Expirers :
       /\ WF_vars(ListTrading(r)) /\ WF_vars(RunEnds(r))
       /\ WF_vars(\E p \in Picks : EndPick(r, p))
  /\ \A r \in Runs :
       WF_vars(AddJournalEntry(r)) /\ WF_vars(CloseRead(r)) /\ WF_vars(CloseWrite(r))

FairSpec == Spec /\ Fairness

-----------------------------------------------------------------------------
(* Properties.                                                             *)

\* Every variable keeps its shape.
TypeOK ==
  /\ today \in Days
  /\ picks \in [Picks -> Pick]
  /\ journal \subseteq Picks \X Ends
  /\ trades \in [Trades -> Trade]
  /\ gen \in [Generators ->
              [pc : {"idle", "asked", "building", "placing", "saving"},
               date : Days \cup {None}, trade : Trades \cup {None}]]
  /\ run \in [Runs -> [pc : {"idle", "loop", "journal", "closing", "closed"},
                       todo : SUBSET Picks, pick : Picks \cup {None},
                       event : Ends \cup {None}]]
  /\ faults \in Nat

\* The two databases agree on the link, whatever fails between the two commits:
\* a stored link names a trade that was placed, no trade is linked from two picks
\* or from a pick and a task about to save it, and only a linked pick trades.
LinkSound ==
  /\ \A p \in Picks :
       /\ picks[p].trade # None => trades[picks[p].trade].status # "none"
       /\ picks[p].status \in {"TRADING"} \cup Ends => picks[p].trade # None
       /\ \A q \in Picks : picks[p].trade = picks[q].trade /\ p # q => picks[p].trade = None
       /\ \A g \in Generators : picks[p].trade = gen[g].trade => picks[p].trade = None
  /\ \A g, h \in Generators : gen[g].trade = gen[h].trade /\ g # h => gen[g].trade = None

\* What the repository says of its collection (see the findings): one pick a date.
OnePickPerDate == \A p, q \in Picks : Stored(p) /\ Stored(q) /\ picks[p].date = picks[q].date => p = q

\* What the code ensures: at most one pick of a date per generating task.
PicksPerDate ==
  \A d \in Days : Cardinality(Dated(d)) <= Cardinality(Generators)

\* The engine closes a trade only after its pick has ended (or was deleted) and
\* the journal says why, also when another run works on the same pick.
EndedFirst ==
  \A r \in Runs : run[r].pc \in {"closing", "closed"} =>
    /\ picks[run[r].pick].status \in Ends \cup {"deleted"}
    /\ <<run[r].pick, run[r].event>> \in journal

\* An ended pick never trades again and a deleted one never comes back, however
\* stale the list a run works on.
NoReturn ==
  [][\A p \in Picks :
       /\ picks[p].status \in Ends => picks'[p].status \in Ends \cup {"deleted"}
       /\ picks[p].status = "deleted" => picks'[p].status = "deleted"]_vars

\* A trading pick ends: the expire job gets to it.
PickEnds == \A p \in Picks : picks[p].status = "TRADING" ~> picks[p].status # "TRADING"

\* The trade of an ended pick is closed, unless something failed on the way.
TradeEnds ==
  \A p \in Picks, t \in Trades :
    picks[p].status \in Ends /\ picks[p].trade = t ~>
      faults > 0 \/ trades[t].status = "closed"

\* An open auto-trade is on its way to be closed: a trading pick carries it, a
\* task is about to save that pick, or the run that ended the pick is about to
\* close it.  Only the admin's delete or a failure leaves one behind.
TradeWatched ==
  \A t \in Trades : trades[t].status = "open" =>
    \/ \E p \in Picks : picks[p].trade = t /\
         (picks[p].status \in {"TRADING", "deleted"} \/ \E r \in Runs : run[r].pick = p)
    \/ \E g \in Generators : gen[g].trade = t
    \/ faults > 0

\* What the settings say, and regeneration breaks (see the findings): at most
\* max_daily_trades auto-trades per calendar day.
DailyCap ==
  \A d \in Days : Cardinality({t \in Trades : trades[t].date = d}) <= MaxDaily

-----------------------------------------------------------------------------
(* The engine keeps the promises of PickLedger.                            *)

Stage(p) ==
  CASE picks[p].status = "WATCHING" -> "watching"
    [] picks[p].status = "TRADING"  -> "trading"
    [] picks[p].status \in Ends     -> "ended"
    [] OTHER                        -> picks[p].status

Ledger == INSTANCE PickLedger WITH
            stage    <- [p \in Picks |-> Stage(p)],
            link     <- [p \in Picks |-> picks[p].trade],
            position <- [t \in Trades |-> trades[t].status]

\* Generators, checkers, expirers and the admin, who read one database and write
\* the other and work on lists read long ago, never break a promise of PickLedger: a
\* second end, an end of a deleted pick and a second closing change nothing of it.
PickLedgerSpec == Ledger!Spec
=============================================================================
