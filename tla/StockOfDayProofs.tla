-------------------------- MODULE StockOfDayProofs --------------------------
(***************************************************************************)
(* Theorems about StockOfDay for any number of picks, trades, tasks, days  *)
(* and failures.                                                           *)
(***************************************************************************)
EXTENDS StockOfDay, FiniteSetTheorems, TLAPS

\* A task carries a trade only from placing it to saving the pick, and the trade
\* it carries was placed.
GenSound ==
  \A g \in Generators : gen[g].trade # None =>
    gen[g].pc = "saving" /\ trades[gen[g].trade].status # "none"

\* A pick whose trade may be closed, whatever happened to it since it was listed.
Traded(p) == picks[p].status \in {"TRADING", "deleted"} \cup Ends /\ picks[p].trade # None

\* A run works on picks that traded; the one in hand has ended.
RunSound ==
  \A r \in Runs :
    /\ \A p \in run[r].todo : Traded(p)
    /\ run[r].pc \in {"journal", "closing", "closed"} =>
         /\ run[r].pick \in Picks
         /\ run[r].event \in Ends
         /\ Traded(run[r].pick)
         /\ picks[run[r].pick].status # "TRADING"

Inv == TypeOK /\ LinkSound /\ EndedFirst /\ GenSound /\ RunSound

-----------------------------------------------------------------------------
LEMMA InitInv == Init => Inv
<1> SUFFICES ASSUME Init PROVE Inv
  OBVIOUS
<1>1. TypeOK
  BY BoundsAssumption
  DEF Init, TypeOK, Pick, Trade, Status, Days, NoPick, NoTrade, IdleGen, IdleRun
<1>2. LinkSound
  BY DEF Init, LinkSound, NoPick, IdleGen, Ends
<1>3. EndedFirst
  BY DEF Init, EndedFirst, IdleRun
<1>4. GenSound /\ RunSound
  BY DEF Init, GenSound, RunSound, IdleGen, IdleRun
<1> QED
  BY <1>1, <1>2, <1>3, <1>4 DEF Inv

\* Steps of a generating task that write neither database.
LEMMA GenStepInv ==
  ASSUME Inv, NEW g \in Generators,
         CheckExisting(g) \/ NoCandidate(g) \/ BuildWatching(g) \/ CountTrades(g)
           \/ GenerateFails(g)
  PROVE  Inv'
<1> USE DEF Inv
<1>1. PICK pc \in {"idle", "building", "saving", "placing"}, d \in Days \cup {None} :
        gen' = [gen EXCEPT ![g] = [pc |-> pc, date |-> d, trade |-> None]]
  <2>0. gen \in [Generators -> [pc : {"idle", "asked", "building", "placing", "saving"},
                 date : Days \cup {None}, trade : Trades \cup {None}]] /\ today \in Days
    BY DEF TypeOK
  <2>1. CASE CheckExisting(g)
    <3>1. \/ gen' = [gen EXCEPT ![g] = [pc |-> "idle", date |-> None, trade |-> None]]
          \/ gen' = [gen EXCEPT ![g] = [pc |-> "building", date |-> today, trade |-> None]]
      BY <2>1 DEF CheckExisting, IdleGen, Building
    <3> QED
      BY <2>0, <3>1
  <2>2. CASE NoCandidate(g) \/ GenerateFails(g)
    BY <2>2 DEF NoCandidate, GenerateFails, IdleGen
  <2>3. CASE BuildWatching(g) \/ CountTrades(g)
    <3>1. gen[g].trade = None
      BY <2>3 DEF GenSound, BuildWatching, CountTrades
    <3>2. PICK pc \in {"saving", "placing"} : gen' = [gen EXCEPT ![g].pc = pc]
      BY <2>3 DEF BuildWatching, CountTrades
    <3>3. [gen[g] EXCEPT !.pc = pc] = [pc |-> pc, date |-> gen[g].date, trade |-> None]
      BY <2>0, <3>1
    <3>4. gen' = [gen EXCEPT ![g] = [pc |-> pc, date |-> gen[g].date, trade |-> None]]
      BY <2>0, <3>2, <3>3
    <3> QED
      BY <2>0, <3>4
  <2> QED
    BY <2>1, <2>2, <2>3
<1>2. UNCHANGED <<today, picks, journal, trades, run>> /\ faults' \in Nat
  BY DEF CheckExisting, NoCandidate, BuildWatching, CountTrades, GenerateFails, Fault, TypeOK
<1>3. TypeOK'
  BY <1>1, <1>2 DEF TypeOK
<1>4. \A h \in Generators : gen'[h].trade \in {gen[h].trade, None}
                            /\ (gen'[h].trade # None => gen'[h] = gen[h])
  BY <1>1 DEF TypeOK
<1>5. LinkSound' /\ GenSound'
  BY <1>2, <1>4 DEF LinkSound, GenSound
<1>6. EndedFirst' /\ RunSound'
  BY <1>2 DEF EndedFirst, RunSound, Traded
<1> QED
  BY <1>3, <1>5, <1>6

\* The admin's delete.
LEMMA DeleteInv ==
  ASSUME Inv, NEW g \in Generators, DeleteToday(g)
  PROVE  Inv'
<1> USE DEF Inv
<1>1. gen' = [gen EXCEPT ![g].pc = "asked"] /\ gen[g].pc = "idle"
      /\ UNCHANGED <<today, journal, trades, run, faults>>
  BY DEF DeleteToday
<1>2. \A p \in Picks : /\ picks'[p].status \in {picks[p].status, "deleted"}
                       /\ picks'[p].trade = picks[p].trade
                       /\ picks[p].status = "deleted" => picks'[p].status = "deleted"
  BY DEF DeleteToday, TypeOK, Pick, Dated
<1>3. TypeOK'
  <2>1. picks' \in [Picks -> Pick]
    BY DEF DeleteToday, TypeOK, Pick, Status, Dated
  <2> QED
    BY <1>1, <2>1 DEF TypeOK
<1>4. \A h \in Generators : gen'[h].trade = gen[h].trade
                            /\ (gen[h].trade # None => gen'[h].pc = gen[h].pc)
  BY <1>1 DEF TypeOK, GenSound
<1>5. LinkSound' /\ GenSound'
  BY <1>1, <1>2, <1>4 DEF LinkSound, GenSound, Ends
<1>6. EndedFirst'
  BY <1>1, <1>2 DEF EndedFirst, RunSound
<1>7. RunSound'
  <2>1. \A p \in Picks : Traded(p) => Traded(p)'
    BY <1>2 DEF Traded
  <2> QED
    BY <1>1, <1>2, <2>1 DEF RunSound, TypeOK
<1> QED
  BY <1>3, <1>5, <1>6, <1>7

\* A trade is placed: nobody knew it before.
LEMMA PlaceInv ==
  ASSUME Inv, NEW g \in Generators, PlaceTrade(g) \/ PlaceFails(g)
  PROVE  Inv'
<1> USE DEF Inv
<1>1. UNCHANGED <<today, picks, journal, run>> /\ faults' \in Nat /\ gen[g].pc = "placing"
  BY DEF PlaceTrade, PlaceFails, Fault, TypeOK
<1>2. gen[g].trade = None
  BY <1>1 DEF GenSound
<1>3. PICK u \in Trades \cup {None} :
        /\ gen' = [gen EXCEPT ![g] = [pc |-> "saving", date |-> gen[g].date, trade |-> u]]
        /\ u # None => trades[u].status = "none" /\ trades'[u].status # "none"
  <2>1. CASE PlaceTrade(g)
    <3>1. PICK t \in Trades :
            /\ trades[t].status = "none"
            /\ trades' = [trades EXCEPT ![t] = [status |-> "open", date |-> today]]
            /\ gen' = [gen EXCEPT ![g] = [pc |-> "saving", date |-> gen[g].date, trade |-> t]]
      BY <2>1 DEF PlaceTrade
    <3> QED
      BY <3>1 DEF TypeOK
  <2>2. CASE PlaceFails(g)
    <3>1. gen' = [gen EXCEPT ![g].pc = "saving"]
      BY <2>2 DEF PlaceFails
    <3>2. [gen[g] EXCEPT !.pc = "saving"] = [pc |-> "saving", date |-> gen[g].date, trade |-> None]
      BY <1>2 DEF TypeOK
    <3>3. gen' = [gen EXCEPT ![g] = [pc |-> "saving", date |-> gen[g].date, trade |-> None]]
      BY <3>1, <3>2
    <3> QED
      BY <3>3
  <2> QED
    BY <2>1, <2>2
<1>4. trades' \in [Trades -> Trade]
      /\ \A t \in Trades : trades[t].status # "none" => trades'[t].status # "none"
  <2>1. CASE trades' = trades
    BY <2>1 DEF TypeOK
  <2>2. CASE \E t \in Trades : trades' = [trades EXCEPT ![t] = [status |-> "open", date |-> today]]
    BY <2>2 DEF TypeOK, Trade
  <2> QED
    BY <2>1, <2>2 DEF PlaceTrade, PlaceFails
<1>5. TypeOK'
  BY <1>1, <1>3, <1>4 DEF TypeOK
<1>6. /\ gen'[g].trade = u /\ gen'[g].pc = "saving"
      /\ \A h \in Generators \ {g} : gen'[h] = gen[h]
  BY <1>3 DEF TypeOK
<1>7. GenSound'
  BY <1>3, <1>4, <1>6 DEF GenSound, TypeOK
<1>8. u # None => /\ \A p \in Picks : picks[p].trade # u
                  /\ \A h \in Generators : gen[h].trade # u
  BY <1>3 DEF LinkSound, GenSound
<1>9. LinkSound'
  <2>1. picks' = picks /\ \A p \in Picks : picks[p].trade \in Trades \cup {None}
    BY <1>1 DEF TypeOK, Pick
  <2>2. \A p \in Picks :
          /\ picks[p].trade # None => trades'[picks[p].trade].status # "none"
          /\ picks[p].status \in {"TRADING"} \cup Ends => picks[p].trade # None
    BY <1>4, <2>1 DEF LinkSound
  <2>3. \A p \in Picks, h \in Generators :
          picks[p].trade = gen'[h].trade => picks[p].trade = None
    BY <1>6, <1>8 DEF LinkSound
  <2>4. \A h, i \in Generators : gen'[h].trade = gen'[i].trade /\ h # i => gen'[h].trade = None
    BY <1>6, <1>8 DEF LinkSound
  <2> QED
    BY <2>1, <2>2, <2>3, <2>4 DEF LinkSound
<1>10. EndedFirst' /\ RunSound'
  BY <1>1 DEF EndedFirst, RunSound, Traded
<1> QED
  BY <1>5, <1>7, <1>9, <1>10

\* The task hands its trade over to the pick it saves.
LEMMA SaveInv ==
  ASSUME Inv, NEW g \in Generators, SavePick(g)
  PROVE  Inv'
<1> USE DEF Inv
<1>1. UNCHANGED <<today, journal, trades, run, faults>> /\ gen' = [gen EXCEPT ![g] = IdleGen]
  BY DEF SavePick
<1>2. PICK p \in Picks :
        /\ picks[p].status = "absent"
        /\ picks' = [picks EXCEPT ![p] =
             [status |-> IF gen[g].trade = None THEN "WATCHING" ELSE "TRADING",
              date |-> gen[g].date, trade |-> gen[g].trade]]
  BY DEF SavePick
<1>3. TypeOK'
  <2>1. picks' \in [Picks -> Pick]
    BY <1>2 DEF TypeOK, Pick, Status
  <2>2. gen' \in [Generators -> [pc : {"idle", "asked", "building", "placing", "saving"},
                  date : Days \cup {None}, trade : Trades \cup {None}]]
    BY <1>1 DEF TypeOK, IdleGen
  <2> QED
    BY <1>1, <2>1, <2>2 DEF TypeOK
<1>4. /\ picks'[p].trade = gen[g].trade
      /\ picks'[p].status = IF gen[g].trade = None THEN "WATCHING" ELSE "TRADING"
      /\ \A q \in Picks \ {p} : picks'[q] = picks[q]
  BY <1>2 DEF TypeOK
<1>5. gen'[g].trade = None /\ \A h \in Generators \ {g} : gen'[h] = gen[h]
  BY <1>1 DEF TypeOK, IdleGen
<1>6. GenSound'
  BY <1>1, <1>5 DEF GenSound
<1>7. LinkSound'
  <2>1. \A q \in Picks :
          /\ picks'[q].trade # None => trades'[picks'[q].trade].status # "none"
          /\ picks'[q].status \in {"TRADING"} \cup Ends => picks'[q].trade # None
    BY <1>1, <1>4 DEF LinkSound, GenSound, Ends
  <2>2. \A q, s \in Picks : picks'[q].trade = picks'[s].trade /\ q # s => picks'[q].trade = None
    BY <1>4 DEF LinkSound
  <2>3. \A q \in Picks, h \in Generators :
          picks'[q].trade = gen'[h].trade => picks'[q].trade = None
    BY <1>4, <1>5 DEF LinkSound
  <2>4. \A h, i \in Generators : gen'[h].trade = gen'[i].trade /\ h # i => gen'[h].trade = None
    BY <1>5 DEF LinkSound
  <2> QED
    BY <2>1, <2>2, <2>3, <2>4 DEF LinkSound
<1>8. \A r \in Runs : p \notin run[r].todo
                      /\ (run[r].pc \in {"journal", "closing", "closed"} => run[r].pick # p)
  BY <1>2 DEF RunSound, Traded, Ends
<1>9. EndedFirst'
  BY <1>1, <1>4, <1>8 DEF EndedFirst, RunSound
<1>10. RunSound'
  BY <1>1, <1>4, <1>8 DEF RunSound, Traded, TypeOK
<1> QED
  BY <1>3, <1>6, <1>7, <1>9, <1>10

\* A run lists the trading picks, passes one by, or ends.
LEMMA ListInv ==
  ASSUME Inv, NEW r \in Runs,
         ListTrading(r) \/ (\E p \in Picks : PassBy(r, p)) \/ RunEnds(r) \/ RunFails(r)
  PROVE  Inv'
<1> USE DEF Inv
<1>1. UNCHANGED <<today, picks, journal, trades, gen>> /\ faults' \in Nat
  BY DEF ListTrading, PassBy, RunEnds, RunFails, Fault, TypeOK
<1>2. PICK pc \in {"idle", "loop"}, todo \in SUBSET Picks, k \in Picks \cup {None},
           event \in Ends \cup {None} :
        /\ run' = [run EXCEPT ![r] = [pc |-> pc, todo |-> todo, pick |-> k, event |-> event]]
        /\ \A p \in todo : Traded(p)
  <2>1. CASE ListTrading(r)
    <3> DEFINE todo == {p \in Picks : picks[p].status = "TRADING"}
    <3>1. \A p \in todo : Traded(p)
      BY DEF LinkSound, Traded
    <3>2. run' = [run EXCEPT ![r] = [pc |-> "loop", todo |-> todo, pick |-> None, event |-> None]]
      BY <2>1 DEF ListTrading, Looping
    <3> QED
      BY <3>1, <3>2
  <2>2. CASE \E p \in Picks : PassBy(r, p)
    <3>1. PICK p \in Picks : PassBy(r, p)
      BY <2>2
    <3> DEFINE todo == run[r].todo \ {p}
    <3>2. todo \in SUBSET Picks /\ \A q \in todo : Traded(q)
      BY DEF TypeOK, RunSound
    <3>3. run[r].pick \in Picks \cup {None} /\ run[r].event \in Ends \cup {None}
      BY DEF TypeOK
    <3>4. run[r].pc = "loop" /\ run' = [run EXCEPT ![r].todo = todo]
      BY <3>1 DEF PassBy
    <3>5. run[r] \in [pc : {"idle", "loop", "journal", "closing", "closed"}, todo : SUBSET Picks,
                      pick : Picks \cup {None}, event : Ends \cup {None}]
      BY DEF TypeOK
    <3> HIDE DEF todo
    <3>6. [run[r] EXCEPT !.todo = todo]
            = [pc |-> "loop", todo |-> todo, pick |-> run[r].pick, event |-> run[r].event]
      BY <3>4, <3>5
    <3>7. run' = [run EXCEPT ![r] =
                    [pc |-> "loop", todo |-> todo, pick |-> run[r].pick, event |-> run[r].event]]
      BY <3>4, <3>6
    <3> QED
      BY <3>2, <3>3, <3>7, Zenon
  <2>3. CASE RunEnds(r) \/ RunFails(r)
    <3>1. run' = [run EXCEPT ![r] = [pc |-> "idle", todo |-> {}, pick |-> None, event |-> None]]
      BY <2>3 DEF RunEnds, RunFails, IdleRun
    <3>2. {} \in SUBSET Picks /\ \A p \in {} : Traded(p)
      OBVIOUS
    <3>3. None \in Picks \cup {None} /\ None \in Ends \cup {None}
      OBVIOUS
    <3> QED
      BY <3>1, <3>2, <3>3, Zenon
  <2> QED
    BY <2>1, <2>2, <2>3
<1>3. TypeOK'
  BY <1>1, <1>2 DEF TypeOK
<1>4. run'[r].pc \in {"idle", "loop"} /\ run'[r].todo = todo
      /\ \A s \in Runs \ {r} : run'[s] = run[s]
  BY <1>2 DEF TypeOK
<1>5. LinkSound' /\ GenSound'
  BY <1>1 DEF LinkSound, GenSound
<1>6. EndedFirst'
  BY <1>1, <1>4 DEF EndedFirst
<1>7. RunSound'
  BY <1>1, <1>2, <1>4 DEF RunSound, Traded
<1> QED
  BY <1>3, <1>5, <1>6, <1>7

\* The pick is ended, or was deleted meanwhile.
LEMMA EndPickInv ==
  ASSUME Inv, NEW r \in Runs, NEW p \in Picks, EndPick(r, p)
  PROVE  Inv'
<1> USE DEF Inv
<1>1. UNCHANGED <<today, journal, trades, gen, faults>> /\ p \in run[r].todo
  BY DEF EndPick
<1>2. PICK event \in Ends :
        /\ picks' = IF Stored(p) THEN [picks EXCEPT ![p].status = event] ELSE picks
        /\ run' = [run EXCEPT ![r] = [pc |-> "journal", todo |-> run[r].todo \ {p},
                                      pick |-> p, event |-> event]]
  BY DEF EndPick, Decides, Ends
<1>3. Traded(p)
  BY <1>1 DEF RunSound
<1>4. /\ picks'[p].status \in Ends \cup {"deleted"}
      /\ \A q \in Picks : picks'[q].trade = picks[q].trade
      /\ \A q \in Picks \ {p} : picks'[q].status = picks[q].status
  <2>1. picks \in [Picks -> Pick]
    BY DEF TypeOK
  <2>2. CASE Stored(p)
    BY <1>2, <2>1, <2>2 DEF Pick
  <2>3. CASE ~Stored(p)
    BY <1>2, <1>3, <2>3 DEF Stored, Traded, Ends
  <2> QED
    BY <2>2, <2>3
<1>5. picks' \in [Picks -> Pick]
  <2>1. picks \in [Picks -> Pick] /\ event \in Status
    BY DEF TypeOK, Status
  <2>2. picks' = picks \/ picks' = [picks EXCEPT ![p].status = event]
    BY <1>2
  <2> QED
    BY <2>1, <2>2 DEF Pick
<1>6. TypeOK'
  BY <1>1, <1>2, <1>5 DEF TypeOK
<1>7. run'[r] = [pc |-> "journal", todo |-> run[r].todo \ {p}, pick |-> p, event |-> event]
      /\ \A s \in Runs \ {r} : run'[s] = run[s]
  BY <1>2 DEF TypeOK
<1>8. LinkSound' /\ GenSound'
  <2>1. \A q \in Picks :
          /\ picks'[q].trade # None => trades'[picks'[q].trade].status # "none"
          /\ picks'[q].status \in {"TRADING"} \cup Ends => picks'[q].trade # None
    BY <1>1, <1>3, <1>4 DEF LinkSound, Traded
  <2>2. \A q, s \in Picks : picks'[q].trade = picks'[s].trade /\ q # s => picks'[q].trade = None
    BY <1>4 DEF LinkSound
  <2>3. \A q \in Picks, h \in Generators :
          picks'[q].trade = gen'[h].trade => picks'[q].trade = None
    BY <1>1, <1>4 DEF LinkSound
  <2>4. \A h, i \in Generators : gen'[h].trade = gen'[i].trade /\ h # i => gen'[h].trade = None
    BY <1>1 DEF LinkSound
  <2> QED
    BY <1>1, <2>1, <2>2, <2>3, <2>4 DEF LinkSound, GenSound
<1>9. \A q \in Picks : Traded(q) =>
        picks'[q].status \in {"TRADING", "deleted"} \cup Ends /\ picks'[q].trade # None
  <2> SUFFICES ASSUME NEW q \in Picks, Traded(q)
               PROVE  picks'[q].status \in {"TRADING", "deleted"} \cup Ends
                      /\ picks'[q].trade # None
    OBVIOUS
  <2> QED
    BY <1>4 DEF Traded
<1>10. EndedFirst'
  <2> SUFFICES ASSUME NEW s \in Runs, run'[s].pc \in {"closing", "closed"}
               PROVE  /\ picks'[run'[s].pick].status \in Ends \cup {"deleted"}
                      /\ <<run'[s].pick, run'[s].event>> \in journal'
    BY DEF EndedFirst
  <2>1. s # r /\ run'[s] = run[s] /\ run[s].pick \in Picks
    BY <1>7 DEF RunSound
  <2>2. picks[run[s].pick].status \in Ends \cup {"deleted"}
        /\ <<run[s].pick, run[s].event>> \in journal
    BY <2>1 DEF EndedFirst
  <2> QED
    BY <1>1, <1>4, <2>1, <2>2
<1>11. RunSound'
  <2>1. \A s \in Runs : \A q \in run'[s].todo :
          picks'[q].status \in {"TRADING", "deleted"} \cup Ends /\ picks'[q].trade # None
    <3> SUFFICES ASSUME NEW s \in Runs, NEW q \in run'[s].todo
                 PROVE  q \in Picks /\ Traded(q)
      BY <1>9
    <3>1. q \in run[s].todo
      BY <1>7
    <3> QED
      BY <3>1 DEF TypeOK, RunSound
  <2>2. \A s \in Runs : run'[s].pc \in {"journal", "closing", "closed"} =>
          /\ run'[s].pick \in Picks
          /\ run'[s].event \in Ends
          /\ picks'[run'[s].pick].trade # None
          /\ picks'[run'[s].pick].status \in Ends \cup {"deleted"}
    <3> SUFFICES ASSUME NEW s \in Runs, run'[s].pc \in {"journal", "closing", "closed"}
                 PROVE  /\ run'[s].pick \in Picks
                        /\ run'[s].event \in Ends
                        /\ picks'[run'[s].pick].trade # None
                        /\ picks'[run'[s].pick].status \in Ends \cup {"deleted"}
      OBVIOUS
    <3>1. CASE s = r
      BY <1>3, <1>4, <1>7, <3>1 DEF Traded
    <3>2. CASE s # r
      <4>1. /\ run'[s] = run[s] /\ run[s].pick \in Picks /\ run[s].event \in Ends
            /\ picks[run[s].pick].trade # None
            /\ picks[run[s].pick].status \in Ends \cup {"deleted"}
        BY <1>7, <3>2 DEF RunSound, Traded
      <4> QED
        BY <1>4, <4>1
    <3> QED
      BY <3>1, <3>2
  <2> QED
    BY <2>1, <2>2 DEF RunSound, Traded, Ends
<1> QED
  BY <1>6, <1>8, <1>10, <1>11

\* The journal, then the trade.
LEMMA CloseInv ==
  ASSUME Inv, NEW r \in Runs,
         AddJournalEntry(r) \/ CloseRead(r) \/ CloseWrite(r) \/ CloseFails(r)
  PROVE  Inv'
<1> USE DEF Inv
<1>1. UNCHANGED <<today, picks, gen>> /\ faults' \in Nat /\ journal \subseteq journal'
  BY DEF AddJournalEntry, CloseRead, CloseWrite, CloseFails, Fault, TypeOK
<1>2. /\ run[r].pick \in Picks /\ run[r].event \in Ends
      /\ run[r].pc \in {"journal", "closing", "closed"}
  BY DEF RunSound, AddJournalEntry, CloseRead, CloseWrite, CloseFails
<1>3. run[r] \in [pc : {"idle", "loop", "journal", "closing", "closed"}, todo : SUBSET Picks,
                  pick : Picks \cup {None}, event : Ends \cup {None}]
  BY DEF TypeOK
<1> DEFINE At(pc) == [pc |-> pc, todo |-> run[r].todo, pick |-> run[r].pick,
                      event |-> run[r].event]
           Done   == Looping(run[r].todo)
<1>4. \/ \E pc \in {"closing", "closed"} :
           run' = [run EXCEPT ![r] = At(pc)] /\ <<run[r].pick, run[r].event>> \in journal'
      \/ run' = [run EXCEPT ![r] = Done]
  <2>1. CASE AddJournalEntry(r)
    <3>1. [run[r] EXCEPT !.pc = "closing"] = At("closing")
      BY <1>3
    <3>2. run' = [run EXCEPT ![r] = At("closing")]
      BY <2>1, <3>1 DEF AddJournalEntry
    <3>3. <<run[r].pick, run[r].event>> \in journal'
      BY <2>1 DEF AddJournalEntry
    <3> QED
      BY <3>2, <3>3
  <2>2. CASE CloseRead(r)
    <3>1. [run[r] EXCEPT !.pc = "closed"] = At("closed")
      BY <1>3
    <3>2. <<run[r].pick, run[r].event>> \in journal'
      BY <2>2 DEF CloseRead, EndedFirst
    <3>3. run' = [run EXCEPT ![r] = At("closed")] \/ run' = [run EXCEPT ![r] = Done]
      BY <2>2, <3>1 DEF CloseRead
    <3> QED
      BY <3>2, <3>3
  <2>3. CASE CloseWrite(r) \/ CloseFails(r)
    BY <2>3 DEF CloseWrite, CloseFails
  <2> QED
    BY <2>1, <2>2, <2>3
<1>5. /\ trades' \in [Trades -> Trade] /\ journal' \subseteq Picks \X Ends
      /\ \A t \in Trades : trades[t].status # "none" => trades'[t].status # "none"
  <2>1. journal' = journal \cup {<<run[r].pick, run[r].event>>} \/ journal' = journal
    BY DEF AddJournalEntry, CloseRead, CloseWrite, CloseFails
  <2>2. trades' = trades \/ trades' = [trades EXCEPT ![picks[run[r].pick].trade].status = "closed"]
    BY DEF AddJournalEntry, CloseRead, CloseWrite, CloseFails
  <2>3. trades \in [Trades -> Trade] /\ journal \subseteq Picks \X Ends
    BY DEF TypeOK
  <2>4. trades' \in [Trades -> Trade]
    BY <2>2, <2>3 DEF Trade
  <2>5. \A t \in Trades : trades[t].status # "none" => trades'[t].status # "none"
    BY <2>2, <2>3 DEF Trade
  <2> QED
    BY <1>2, <2>1, <2>3, <2>4, <2>5
<1>6. PICK new :
        /\ run' = [run EXCEPT ![r] = new]
        /\ new \in [pc : {"loop", "closing", "closed"}, todo : SUBSET Picks,
                    pick : Picks \cup {None}, event : Ends \cup {None}]
        /\ new.todo = run[r].todo
        /\ new.pc # "loop" => /\ new.pick = run[r].pick /\ new.event = run[r].event
                              /\ <<run[r].pick, run[r].event>> \in journal'
  <2>1. ASSUME NEW pc \in {"closing", "closed"}
        PROVE  /\ At(pc) \in [pc : {"loop", "closing", "closed"}, todo : SUBSET Picks,
                               pick : Picks \cup {None}, event : Ends \cup {None}]
               /\ At(pc).todo = run[r].todo /\ At(pc).pick = run[r].pick
               /\ At(pc).event = run[r].event
    BY <1>3
  <2>2. /\ Done \in [pc : {"loop", "closing", "closed"}, todo : SUBSET Picks,
                      pick : Picks \cup {None}, event : Ends \cup {None}]
        /\ Done.todo = run[r].todo /\ Done.pc = "loop"
    BY <1>3 DEF Looping
  <2> HIDE DEF At, Done
  <2> QED
    BY <1>4, <2>1, <2>2
<1>7. TypeOK'
  BY <1>1, <1>5, <1>6 DEF TypeOK
<1>8. run'[r] = new /\ \A s \in Runs \ {r} : run'[s] = run[s]
  BY <1>6 DEF TypeOK
<1>9. LinkSound' /\ GenSound'
  BY <1>1, <1>5 DEF LinkSound, GenSound, TypeOK, Pick
<1>10. EndedFirst'
  BY <1>1, <1>2, <1>6, <1>8 DEF EndedFirst, RunSound, Traded
<1>11. RunSound'
  BY <1>1, <1>2, <1>6, <1>8 DEF RunSound, Traded
<1> QED
  BY <1>7, <1>9, <1>10, <1>11

LEMMA EnvironmentInv ==
  ASSUME Inv, DayTurns \/ \E t \in Trades : UserCloses(t)
  PROVE  Inv'
<1> USE DEF Inv
<1>1. UNCHANGED <<picks, journal, gen, run, faults>>
  BY DEF DayTurns, UserCloses
<1>2. today' \in Days /\ trades' \in [Trades -> Trade]
      /\ \A t \in Trades : trades[t].status # "none" => trades'[t].status # "none"
  BY BoundsAssumption DEF DayTurns, UserCloses, TypeOK, Trade, Days
<1>3. TypeOK'
  BY <1>1, <1>2 DEF TypeOK
<1>4. LinkSound' /\ GenSound'
  BY <1>1, <1>2 DEF LinkSound, GenSound, TypeOK, Pick
<1>5. EndedFirst' /\ RunSound'
  BY <1>1 DEF EndedFirst, RunSound, Traded
<1> QED
  BY <1>3, <1>4, <1>5

LEMMA NextInv == Inv /\ [Next]_vars => Inv'
<1> SUFFICES ASSUME Inv, [Next]_vars PROVE Inv'
  OBVIOUS
<1>1. CASE Generate
  BY <1>1, GenStepInv, DeleteInv, PlaceInv, SaveInv DEF Generate
<1>2. CASE Watch
  BY <1>2, ListInv, EndPickInv, CloseInv DEF Watch
<1>3. CASE DayTurns \/ \E t \in Trades : UserCloses(t)
  BY <1>3, EnvironmentInv
<1>4. CASE UNCHANGED vars
  BY <1>4 DEF vars, Inv, TypeOK, LinkSound, EndedFirst, GenSound, RunSound, Traded
<1> QED
  BY <1>1, <1>2, <1>3, <1>4 DEF Next

LEMMA Invariance == Spec => []Inv
  BY InitInv, NextInv, PTL DEF Spec

-----------------------------------------------------------------------------
\* Every variable keeps its shape (stock_of_day_service.py).
THEOREM PicksTypeCorrect == Spec => []TypeOK
  BY Invariance, PTL DEF Inv

\* MongoDB and PostgreSQL agree on which trade belongs to which pick, although
\* no transaction spans the insert of the trade and the insert of the pick.
THEOREM LinksAreSound == Spec => []LinkSound
  BY Invariance, PTL DEF Inv

\* A run closes a trade only when its pick has ended and the journal says so,
\* however many runs work on stale lists.
THEOREM PicksEndFirst == Spec => []EndedFirst
  BY Invariance, PTL DEF Inv

\* An ended pick never trades again and a deleted one never comes back.
THEOREM PicksDoNotReturn == Spec => NoReturn
<1> DEFINE Stays == \A p \in Picks :
       /\ picks[p].status \in Ends => picks'[p].status \in Ends \cup {"deleted"}
       /\ picks[p].status = "deleted" => picks'[p].status = "deleted"
<1>1. Inv /\ [Next]_vars => [Stays]_vars
  <2> SUFFICES ASSUME Inv, Next PROVE Stays
    BY DEF vars
  <2>0. picks \in [Picks -> Pick]
    BY DEF Inv, TypeOK
  <2>1. CASE UNCHANGED picks
    BY <2>1
  <2>2. ASSUME NEW g \in Generators, DeleteToday(g) PROVE Stays
    BY <2>0, <2>2 DEF DeleteToday, Pick, Dated
  <2>3. ASSUME NEW g \in Generators, SavePick(g) PROVE Stays
    BY <2>0, <2>3 DEF SavePick, Pick, Ends
  <2>4. ASSUME NEW r \in Runs, NEW p \in Picks, EndPick(r, p) PROVE Stays
    <3>1. PICK event \in Ends :
            picks' = IF Stored(p) THEN [picks EXCEPT ![p].status = event] ELSE picks
      BY <2>4 DEF EndPick, Decides, Ends
    <3> QED
      BY <2>0, <3>1 DEF Pick, Stored, Ends
  <2> QED
    BY <2>1, <2>2, <2>3, <2>4
    DEF Next, Generate, Watch, CheckExisting, NoCandidate, BuildWatching, CountTrades,
        PlaceTrade, PlaceFails, GenerateFails, ListTrading, PassBy, AddJournalEntry, CloseRead,
        CloseWrite, CloseFails, RunEnds, RunFails, DayTurns, UserCloses
<1> QED
  BY <1>1, Invariance, PTL DEF Spec, NoReturn

-----------------------------------------------------------------------------
\* The generators that have found no pick of the date and may still save one.
InFlight(d) ==
  {g \in Generators : gen[g].pc \in {"building", "placing", "saving"} /\ gen[g].date = d}

\* A stored pick has used up the turn of a generator in flight: whoever goes on
\* after it finds a pick, unless an admin has deleted it.
CountInv ==
  \A d \in Days :
    /\ IsFiniteSet(Dated(d))
    /\ Cardinality(Dated(d)) + Cardinality(InFlight(d)) <= Cardinality(Generators)

\* What the tasks of a date are is finite.
LEMMA InFlightFinite ==
  \A d \in Days : IsFiniteSet(InFlight(d)) /\ Cardinality(InFlight(d)) \in Nat
BY GeneratorsAssumption, FS_Subset, FS_CardinalityType DEF InFlight

\* Fewer picks and fewer tasks in flight keep the count.
LEMMA CountFewer ==
  ASSUME NEW d \in Days, IsFiniteSet(Dated(d)),
         Cardinality(Dated(d)) + Cardinality(InFlight(d)) <= Cardinality(Generators),
         Dated(d)' \subseteq Dated(d), InFlight(d)' \subseteq InFlight(d)
  PROVE  /\ IsFiniteSet(Dated(d)')
         /\ Cardinality(Dated(d)') + Cardinality(InFlight(d)') <= Cardinality(Generators)
<1>1. IsFiniteSet(Dated(d)') /\ Cardinality(Dated(d)') <= Cardinality(Dated(d))
  BY FS_Subset
<1>2. IsFiniteSet(InFlight(d)') /\ Cardinality(InFlight(d)') <= Cardinality(InFlight(d))
  BY InFlightFinite, FS_Subset
<1>3. /\ Cardinality(Dated(d)) \in Nat /\ Cardinality(Dated(d)') \in Nat
      /\ Cardinality(InFlight(d)) \in Nat /\ Cardinality(InFlight(d)') \in Nat
      /\ Cardinality(Generators) \in Nat
  BY <1>1, <1>2, InFlightFinite, GeneratorsAssumption, FS_CardinalityType
<1> QED
  BY <1>1, <1>2, <1>3

\* Saving moves one from in flight to stored.
LEMMA CountSaved ==
  ASSUME Inv, CountInv, NEW g \in Generators, SavePick(g), NEW d \in Days
  PROVE  /\ IsFiniteSet(Dated(d)')
         /\ Cardinality(Dated(d)') + Cardinality(InFlight(d)') <= Cardinality(Generators)
<1>1. PICK p \in Picks :
        /\ picks[p].status = "absent"
        /\ picks' = [picks EXCEPT ![p] =
             [status |-> IF gen[g].trade = None THEN "WATCHING" ELSE "TRADING",
              date |-> gen[g].date, trade |-> gen[g].trade]]
  BY DEF SavePick
<1>2. /\ picks \in [Picks -> Pick] /\ gen[g].pc = "saving"
      /\ gen' = [gen EXCEPT ![g] = IdleGen] /\ DOMAIN gen = Generators
  BY DEF SavePick, Inv, TypeOK
<1>3. /\ picks'[p].date = gen[g].date /\ picks'[p].status \in {"WATCHING", "TRADING"}
      /\ \A q \in Picks : q # p => picks'[q] = picks[q]
  BY <1>1, <1>2
<1>4. InFlight(d)' = InFlight(d) \ {g}
  BY <1>2 DEF InFlight, IdleGen
<1>5. CASE gen[g].date # d
  <2>1. Dated(d)' \subseteq Dated(d)
    BY <1>3, <1>5 DEF Dated, Stored
  <2> QED
    BY <1>4, <2>1, CountFewer DEF CountInv
<1>6. CASE gen[g].date = d
  <2>1. g \in InFlight(d)
    BY <1>2, <1>6 DEF InFlight
  <2>2. Dated(d)' = Dated(d) \cup {p} /\ p \notin Dated(d)
    BY <1>1, <1>3, <1>6 DEF Dated, Stored
  <2>3. /\ IsFiniteSet(Dated(d)')
        /\ Cardinality(Dated(d)') = Cardinality(Dated(d)) + 1
    BY <2>2, FS_AddElement DEF CountInv
  <2>4. Cardinality(InFlight(d)') = Cardinality(InFlight(d)) - 1
    BY <1>4, <2>1, InFlightFinite, FS_RemoveElement
  <2>5. /\ Cardinality(Dated(d)) \in Nat /\ Cardinality(InFlight(d)) \in Nat
        /\ Cardinality(Generators) \in Nat
    BY InFlightFinite, GeneratorsAssumption, FS_CardinalityType DEF CountInv
  <2>6. Cardinality(Dated(d)) + Cardinality(InFlight(d)) <= Cardinality(Generators)
    BY DEF CountInv
  <2> QED
    BY <2>3, <2>4, <2>5, <2>6
<1> QED
  BY <1>5, <1>6

\* A task that found no pick goes on building: then none is stored.
LEMMA CountChecked ==
  ASSUME Inv, CountInv, NEW g \in Generators, CheckExisting(g), NEW d \in Days
  PROVE  /\ IsFiniteSet(Dated(d)')
         /\ Cardinality(Dated(d)') + Cardinality(InFlight(d)') <= Cardinality(Generators)
<1>1. /\ Dated(d)' = Dated(d) /\ Dated(today)' = Dated(today)
      /\ gen[g].pc \in {"idle", "asked"} /\ DOMAIN gen = Generators
      /\ gen' = [gen EXCEPT ![g] = IF Dated(today) # {} THEN IdleGen ELSE Building(today)]
  BY DEF CheckExisting, Inv, TypeOK, Dated, Stored
<1>2. CASE Dated(today) # {} \/ d # today
  <2>1. InFlight(d)' \subseteq InFlight(d)
    BY <1>1, <1>2 DEF InFlight, IdleGen, Building
  <2> QED
    BY <1>1, <2>1, CountFewer DEF CountInv
<1>3. CASE Dated(today) = {} /\ d = today
  <2>1. IsFiniteSet(Dated(d)') /\ Cardinality(Dated(d)') = 0
    BY <1>1, <1>3, FS_EmptySet
  <2>2. InFlight(d)' \subseteq Generators
    BY DEF InFlight
  <2>3. /\ Cardinality(InFlight(d)') <= Cardinality(Generators)
        /\ Cardinality(InFlight(d)') \in Nat
    BY <2>2, GeneratorsAssumption, FS_Subset, FS_CardinalityType
  <2> QED
    BY <2>1, <2>3
<1> QED
  BY <1>2, <1>3

\* Every other step stores no pick and lets no task in.
LEMMA CountOther ==
  ASSUME Inv, [Next]_vars, \A g \in Generators : ~SavePick(g) /\ ~CheckExisting(g),
         NEW d \in Days
  PROVE  Dated(d)' \subseteq Dated(d) /\ InFlight(d)' \subseteq InFlight(d)
<1>1. /\ picks \in [Picks -> Pick]
      /\ gen \in [Generators -> [pc : {"idle", "asked", "building", "placing", "saving"},
                                 date : Days \cup {None}, trade : Trades \cup {None}]]
  BY DEF Inv, TypeOK
<1>2. UNCHANGED picks => Dated(d)' = Dated(d)
  BY DEF Dated, Stored
<1>3. UNCHANGED gen => InFlight(d)' = InFlight(d)
  BY DEF InFlight
<1>4. CASE Watch
  <2>1. UNCHANGED gen
    BY <1>4 DEF Watch, ListTrading, PassBy, EndPick, AddJournalEntry, CloseRead, CloseWrite,
                CloseFails, RunEnds, RunFails
  <2>2. ASSUME NEW r \in Runs, NEW p \in Picks, EndPick(r, p)
        PROVE  Dated(d)' \subseteq Dated(d)
    <3>1. picks' = picks \/ \E event : Stored(p) /\ picks' = [picks EXCEPT ![p].status = event]
      BY <2>2 DEF EndPick
    <3> QED
      BY <1>1, <1>2, <3>1 DEF Dated, Stored, Pick
  <2>3. \/ UNCHANGED picks
        \/ \E r \in Runs, p \in Picks : EndPick(r, p)
    BY <1>4 DEF Watch, ListTrading, PassBy, AddJournalEntry, CloseRead, CloseWrite,
                CloseFails, RunEnds, RunFails
  <2> QED
    BY <1>2, <1>3, <2>1, <2>2, <2>3
<1>5. CASE UNCHANGED <<picks, gen>>
  BY <1>2, <1>3, <1>5
<1>6. ASSUME NEW g \in Generators, DeleteToday(g)
      PROVE  Dated(d)' \subseteq Dated(d) /\ InFlight(d)' \subseteq InFlight(d)
  <2>1. Dated(d)' \subseteq Dated(d)
    BY <1>1, <1>6 DEF DeleteToday, Dated, Stored, Pick
  <2>2. InFlight(d)' \subseteq InFlight(d)
    BY <1>1, <1>6 DEF DeleteToday, InFlight
  <2> QED
    BY <2>1, <2>2
<1>7. ASSUME NEW g \in Generators,
             \/ NoCandidate(g) \/ BuildWatching(g) \/ CountTrades(g)
             \/ PlaceTrade(g) \/ PlaceFails(g) \/ GenerateFails(g)
      PROVE  Dated(d)' \subseteq Dated(d) /\ InFlight(d)' \subseteq InFlight(d)
  <2>1. UNCHANGED picks
    BY <1>7 DEF NoCandidate, BuildWatching, CountTrades, PlaceTrade, PlaceFails, GenerateFails
  <2>2. \/ gen' = [gen EXCEPT ![g] = IdleGen]
        \/ gen[g].pc \in {"building", "placing"} /\
             \E pc : gen' = [gen EXCEPT ![g].pc = pc]
        \/ gen[g].pc = "placing" /\
             \E t : gen' = [gen EXCEPT ![g] = [pc |-> "saving", date |-> gen[g].date, trade |-> t]]
    BY <1>7 DEF NoCandidate, BuildWatching, CountTrades, PlaceTrade, PlaceFails, GenerateFails
  <2>3. InFlight(d)' \subseteq InFlight(d)
    BY <1>1, <2>2 DEF InFlight, IdleGen
  <2> QED
    BY <1>2, <2>1, <2>3
<1> QED
  BY <1>4, <1>5, <1>6, <1>7 DEF Next, Generate, DayTurns, UserCloses, vars

\* Concurrent generation and regeneration store at most one pick of a date per
\* generating task, although nothing but a look beforehand keeps a second one out.
THEOREM PicksPerDateBounded == Spec => []PicksPerDate
<1>1. Init => CountInv
  <2> SUFFICES ASSUME Init, NEW d \in Days
               PROVE  /\ IsFiniteSet(Dated(d))
                      /\ Cardinality(Dated(d)) + Cardinality(InFlight(d)) <= Cardinality(Generators)
    BY DEF CountInv
  <2>1. Dated(d) = {} /\ InFlight(d) = {}
    BY DEF Init, Dated, Stored, InFlight, NoPick, IdleGen
  <2> QED
    BY <2>1, FS_EmptySet, GeneratorsAssumption, FS_CardinalityType
<1>2. ASSUME Inv, CountInv, [Next]_vars
      PROVE  CountInv'
  <2> SUFFICES ASSUME NEW d \in Days
               PROVE  /\ IsFiniteSet(Dated(d)')
                      /\ Cardinality(Dated(d)') + Cardinality(InFlight(d)') <= Cardinality(Generators)
    BY DEF CountInv
  <2>1. CASE \E g \in Generators : SavePick(g) \/ CheckExisting(g)
    BY <1>2, <2>1, CountSaved, CountChecked
  <2>2. CASE \A g \in Generators : ~SavePick(g) /\ ~CheckExisting(g)
    <3>1. Dated(d)' \subseteq Dated(d) /\ InFlight(d)' \subseteq InFlight(d)
      BY <1>2, <2>2, CountOther
    <3> QED
      BY <1>2, <3>1, CountFewer DEF CountInv
  <2> QED
    BY <2>1, <2>2
<1>3. CountInv => PicksPerDate
  <2> SUFFICES ASSUME CountInv, NEW d \in Days
               PROVE  Cardinality(Dated(d)) <= Cardinality(Generators)
    BY DEF PicksPerDate
  <2>1. Cardinality(Dated(d)) \in Nat /\ Cardinality(Generators) \in Nat
    BY GeneratorsAssumption, FS_CardinalityType DEF CountInv
  <2> QED
    BY <2>1, InFlightFinite DEF CountInv
<1> QED
  BY <1>1, <1>2, <1>3, Invariance, PTL DEF Spec

-----------------------------------------------------------------------------
(* TradeWatched: whoever holds an open trade hands it on before letting go.  *)

\* A run without a pick to close holds none.
HandsFree == \A r \in Runs : run[r].pc \in {"idle", "loop"} => run[r].pick = None

\* The three places an open trade may be in.
Carried(t) ==
  \E p \in Picks : picks[p].trade = t /\
    (picks[p].status \in {"TRADING", "deleted"} \/ \E r \in Runs : run[r].pick = p)
Coming(t) == \E g \in Generators : gen[g].trade = t

WatchedInv == TradeWatched /\ HandsFree

\* The step of a generating task.
LEMMA WatchedGenerate ==
  ASSUME Inv, Inv', WatchedInv, Generate
  PROVE  WatchedInv'
<1> USE DEF Inv
<1>1. PICK g \in Generators :
        \/ DeleteToday(g) \/ CheckExisting(g) \/ NoCandidate(g) \/ BuildWatching(g)
        \/ CountTrades(g) \/ PlaceTrade(g) \/ PlaceFails(g) \/ SavePick(g)
        \/ GenerateFails(g)
  BY DEF Generate
<1>2. run' = run /\ faults \in Nat
  BY <1>1 DEF DeleteToday, CheckExisting, NoCandidate, BuildWatching, CountTrades, PlaceTrade,
              PlaceFails, SavePick, GenerateFails, TypeOK
<1>3. HandsFree'
  BY <1>2 DEF WatchedInv, HandsFree
<1>4. ASSUME NEW t \in Trades, trades'[t].status = "open", faults' = 0
      PROVE  Carried(t)' \/ Coming(t)'
  <2>1. t # None /\ ~PlaceFails(g) /\ ~GenerateFails(g)
    BY <1>2, <1>4, NoneAssumption DEF PlaceFails, GenerateFails, Fault
  <2>2. CASE DeleteToday(g)
    <3>1. trades' = trades /\ faults' = faults
          /\ \A h \in Generators : gen'[h].trade = gen[h].trade
      BY <2>2 DEF DeleteToday, TypeOK
    <3>2. \A p \in Picks : /\ picks'[p].trade = picks[p].trade
                           /\ picks'[p].status \in {picks[p].status, "deleted"}
      BY <2>2 DEF DeleteToday, TypeOK, Pick, Dated
    <3> QED
      BY <1>2, <1>4, <3>1, <3>2 DEF WatchedInv, TradeWatched, Carried, Coming
  <2>3. CASE CheckExisting(g) \/ NoCandidate(g) \/ BuildWatching(g) \/ CountTrades(g)
    <3>1. trades' = trades /\ faults' = faults /\ picks' = picks
          /\ \A h \in Generators \ {g} : gen'[h] = gen[h]
      BY <2>3 DEF CheckExisting, NoCandidate, BuildWatching, CountTrades, TypeOK
    <3>2. gen[g].trade = None
      BY <2>3 DEF GenSound, CheckExisting, NoCandidate, BuildWatching, CountTrades
    <3> QED
      BY <1>2, <1>4, <2>1, <3>1, <3>2 DEF WatchedInv, TradeWatched, Carried, Coming
  <2>4. CASE PlaceTrade(g)
    <3>1. PICK u \in Trades :
            /\ trades' = [trades EXCEPT ![u] = [status |-> "open", date |-> today]]
            /\ gen' = [gen EXCEPT ![g] = [pc |-> "saving", date |-> gen[g].date, trade |-> u]]
      BY <2>4 DEF PlaceTrade
    <3>2. picks' = picks /\ faults' = faults /\ gen[g].trade = None
      BY <2>4 DEF PlaceTrade, GenSound
    <3>3. gen'[g].trade = u /\ \A h \in Generators \ {g} : gen'[h] = gen[h]
      BY <3>1 DEF TypeOK
    <3>4. t # u => trades[t].status = "open"
      BY <1>4, <3>1 DEF TypeOK
    <3> QED
      BY <1>2, <1>4, <2>1, <3>2, <3>3, <3>4 DEF WatchedInv, TradeWatched, Carried, Coming
  <2>5. CASE SavePick(g)
    <3>1. PICK p \in Picks :
            /\ picks[p].status = "absent"
            /\ picks' = [picks EXCEPT ![p] =
                 [status |-> IF gen[g].trade = None THEN "WATCHING" ELSE "TRADING",
                  date |-> gen[g].date, trade |-> gen[g].trade]]
      BY <2>5 DEF SavePick
    <3>2. trades' = trades /\ faults' = faults /\ \A h \in Generators \ {g} : gen'[h] = gen[h]
      BY <2>5 DEF SavePick, TypeOK
    <3>3. gen[g].trade = t => picks'[p].trade = t /\ picks'[p].status = "TRADING"
      BY <2>1, <3>1 DEF TypeOK
    <3>4. \A q \in Picks \ {p} : picks'[q] = picks[q]
      BY <3>1 DEF TypeOK
    <3>5. \A r \in Runs : run[r].pick # p
      <4> SUFFICES ASSUME NEW r \in Runs, run[r].pick = p PROVE FALSE
        OBVIOUS
      <4>1. run[r].pc \in {"journal", "closing", "closed"}
        BY NoneAssumption DEF WatchedInv, HandsFree, TypeOK
      <4> QED
        BY <3>1, <4>1 DEF RunSound, Traded, Ends
    <3> QED
      BY <1>2, <1>4, <3>1, <3>2, <3>3, <3>4, <3>5 DEF WatchedInv, TradeWatched, Carried, Coming
  <2> QED
    BY <1>1, <2>1, <2>2, <2>3, <2>4, <2>5
<1>5. faults' \in Nat
  BY DEF TypeOK
<1> QED
  BY <1>3, <1>4, <1>5 DEF WatchedInv, TradeWatched, Carried, Coming

\* The step of a run.
LEMMA WatchedWatch ==
  ASSUME Inv, Inv', WatchedInv, Watch
  PROVE  WatchedInv'
<1> USE DEF Inv
<1>1. PICK r \in Runs :
        \/ ListTrading(r)
        \/ \E p \in Picks : PassBy(r, p) \/ EndPick(r, p)
        \/ AddJournalEntry(r) \/ CloseRead(r) \/ CloseWrite(r) \/ CloseFails(r)
        \/ RunEnds(r) \/ RunFails(r)
  BY DEF Watch
<1>2. gen' = gen /\ faults \in Nat /\ faults' \in Nat
  BY <1>1 DEF ListTrading, PassBy, EndPick, AddJournalEntry, CloseRead, CloseWrite, CloseFails,
              RunEnds, RunFails, TypeOK
<1>3. run[r] \in [pc : {"idle", "loop", "journal", "closing", "closed"}, todo : SUBSET Picks,
                  pick : Picks \cup {None}, event : Ends \cup {None}]
  BY DEF TypeOK
<1>4. \A s \in Runs \ {r} : run'[s] = run[s]
  BY <1>1 DEF ListTrading, PassBy, EndPick, AddJournalEntry, CloseRead, CloseWrite, CloseFails,
              RunEnds, RunFails, TypeOK
<1>5. ASSUME run'[r].pc \in {"idle", "loop"} => run'[r].pick = None,
             \A t \in Trades : trades'[t].status = "open" /\ faults' = 0 =>
               Carried(t)' \/ Coming(t)'
      PROVE  WatchedInv'
  <2>1. HandsFree'
    BY <1>4, <1>5 DEF WatchedInv, HandsFree
  <2> QED
    BY <1>2, <1>5, <2>1 DEF WatchedInv, TradeWatched, Carried, Coming
<1>6. CASE ListTrading(r) \/ RunEnds(r) \/ \E p \in Picks : PassBy(r, p)
  <2>1. run'[r].pick = None /\ run[r].pick = None
    BY <1>3, <1>6 DEF ListTrading, RunEnds, PassBy, Looping, IdleRun, TypeOK, WatchedInv, HandsFree
  <2>2. trades' = trades /\ faults' = faults /\ picks' = picks
    BY <1>6 DEF ListTrading, RunEnds, PassBy
  <2> QED
    BY <1>2, <1>4, <1>5, <2>1, <2>2, NoneAssumption DEF WatchedInv, TradeWatched, Carried, Coming
<1>7. CASE RunFails(r) \/ CloseFails(r)
  <2>1. faults' # 0 /\ run'[r].pick = None
    BY <1>2, <1>7 DEF RunFails, CloseFails, Fault, IdleRun, Looping, TypeOK
  <2> QED
    BY <1>5, <2>1
<1>8. CASE \E p \in Picks : EndPick(r, p)
  <2>1. PICK p \in Picks : EndPick(r, p)
    BY <1>8
  <2>2. run[r].pick = None /\ run'[r].pc = "journal" /\ run'[r].pick = p
    BY <2>1 DEF EndPick, TypeOK, WatchedInv, HandsFree
  <2>3. trades' = trades /\ faults' = faults
    BY <2>1 DEF EndPick
  <2>4. /\ \A q \in Picks : picks'[q].trade = picks[q].trade
        /\ \A q \in Picks \ {p} : picks'[q].status = picks[q].status
    <3>1. picks \in [Picks -> Pick]
      BY DEF TypeOK
    <3> QED
      BY <2>1, <3>1 DEF EndPick, Pick
  <2> QED
    BY <1>2, <1>4, <1>5, <2>2, <2>3, <2>4, NoneAssumption
    DEF WatchedInv, TradeWatched, Carried, Coming
<1>9. CASE AddJournalEntry(r)
  <2>1. run'[r].pick = run[r].pick /\ run'[r].pc = "closing"
    BY <1>3, <1>9 DEF AddJournalEntry, TypeOK
  <2>2. trades' = trades /\ faults' = faults /\ picks' = picks
    BY <1>9 DEF AddJournalEntry
  <2> QED
    BY <1>2, <1>4, <1>5, <2>1, <2>2 DEF WatchedInv, TradeWatched, Carried, Coming
<1>10. CASE CloseRead(r)
  <2>1. trades' = trades /\ faults' = faults /\ picks' = picks
    BY <1>10 DEF CloseRead
  <2>2. CASE trades[picks[run[r].pick].trade].status = "open"
    <3>1. run' = [run EXCEPT ![r] = [run[r] EXCEPT !.pc = "closed"]]
      BY <1>10, <2>2 DEF CloseRead
    <3>2. run'[r].pick = run[r].pick /\ run'[r].pc = "closed"
      BY <1>3, <3>1 DEF TypeOK
    <3> QED
      BY <1>2, <1>4, <1>5, <2>1, <3>2 DEF WatchedInv, TradeWatched, Carried, Coming
  <2>3. CASE trades[picks[run[r].pick].trade].status # "open"
    <3>1. run' = [run EXCEPT ![r] = Looping(run[r].todo)]
      BY <1>10, <2>3 DEF CloseRead
    <3>2. run'[r].pick = None
      BY <3>1 DEF Looping, TypeOK
    <3> QED
      BY <1>2, <1>4, <1>5, <2>1, <2>3, <3>2 DEF WatchedInv, TradeWatched, Carried, Coming
  <2> QED
    BY <2>2, <2>3
<1>11. CASE CloseWrite(r)
  <2>1. faults' = faults /\ picks' = picks /\ run'[r].pick = None
    BY <1>11 DEF CloseWrite, Looping, TypeOK
  <2>2. trades' = [trades EXCEPT ![picks[run[r].pick].trade].status = "closed"]
    BY <1>11 DEF CloseWrite
  <2>3. \A t \in Trades : trades'[t].status = "open" =>
          trades[t].status = "open" /\ t # picks[run[r].pick].trade
    BY <2>2 DEF TypeOK, Trade
  <2> QED
    BY <1>2, <1>4, <1>5, <2>1, <2>3 DEF WatchedInv, TradeWatched, Carried, Coming
<1> QED
  BY <1>1, <1>6, <1>7, <1>8, <1>9, <1>10, <1>11

\* An open auto-trade is always in somebody's hands, across two databases, three
\* jobs and an admin, until something fails or the admin deletes its pick.
THEOREM OpenTradesAreWatched == Spec => []TradeWatched
<1>1. Init => WatchedInv
  BY DEF Init, WatchedInv, TradeWatched, HandsFree, NoTrade, IdleRun
<1>2. ASSUME Inv, Inv', WatchedInv, [Next]_vars
      PROVE  WatchedInv'
  <2>1. CASE DayTurns \/ UNCHANGED vars
    BY <1>2, <2>1 DEF DayTurns, vars, WatchedInv, TradeWatched, HandsFree
  <2>2. CASE \E t \in Trades : UserCloses(t)
    <3>1. UNCHANGED <<picks, gen, run, faults>>
          /\ \A u \in Trades : trades'[u].status = "open" => trades[u].status = "open"
      BY <1>2, <2>2 DEF UserCloses, Inv, TypeOK, Trade
    <3> QED
      BY <1>2, <3>1 DEF WatchedInv, TradeWatched, HandsFree
  <2> QED
    BY <1>2, <2>1, <2>2, WatchedGenerate, WatchedWatch DEF Next
<1> QED
  BY <1>1, <1>2, Invariance, PTL DEF Spec, WatchedInv

-----------------------------------------------------------------------------
(* The engine implements PickLedger.  A step writes one pick or one trade, *)
(* or nothing the ledger knows of.                                         *)

Stages    == [p \in Picks |-> Stage(p)]
Links     == [p \in Picks |-> picks[p].trade]
Positions == [t \in Trades |-> trades[t].status]

LedgerStep == [Ledger!Next]_<<Stages, Links, Positions>>

\* A step that writes neither database.
LEMMA LedgerStutters ==
  ASSUME UNCHANGED <<picks, trades>> PROVE LedgerStep
<1> QED
  BY DEF LedgerStep, Stages, Links, Positions, Stage

\* The status of one pick changes.
LEMMA LedgerStage ==
  ASSUME Inv, UNCHANGED trades, NEW p \in Picks, NEW s \in Status,
         picks' = [picks EXCEPT ![p].status = s],
         \/ s = "deleted" /\ Stored(p)
         \/ s \in Ends /\ Stored(p) /\ Traded(p)
  PROVE  LedgerStep
<1>1. picks \in [Picks -> Pick]
  BY DEF Inv, TypeOK
<1>2. Links' = Links /\ Positions' = Positions
  BY <1>1 DEF Links, Positions, Pick
<1>3. Stages' = [Stages EXCEPT ![p] = Stage(p)']
  <2>1. \A q \in Picks \ {p} : Stage(q)' = Stage(q)
    BY <1>1 DEF Stage
  <2> QED
    BY <2>1 DEF Stages
<1>4. picks'[p].status = s
  BY <1>1 DEF Pick
<1>5. Stages[p] = Stage(p)
  BY DEF Stages
<1>6. CASE s = "deleted"
  <2>1. Stage(p)' = "deleted"
    BY <1>4, <1>6 DEF Stage, Ends
  <2>2. Stage(p) \in {"watching", "trading", "ended"}
    BY <1>1, <1>6 DEF Stage, Stored, Pick, Status, Ends
  <2>3. Ledger!Delete(p)
    BY <1>2, <1>3, <1>5, <2>1, <2>2 DEF Ledger!Delete, Stages, Links, Positions
  <2> QED
    BY <2>3 DEF LedgerStep, Ledger!Next
<1>7. CASE s \in Ends /\ Traded(p) /\ Stored(p)
  <2>1. Stage(p)' = "ended"
    BY <1>4, <1>7 DEF Stage, Ends
  <2>2. Stage(p) \in {"trading", "ended"}
    BY <1>7 DEF Stage, Stored, Traded, Ends
  <2>3. CASE Stage(p) = "ended"
    <3>1. Stages' = Stages
      BY <1>3, <1>5, <2>1, <2>3 DEF Stages
    <3> QED
      BY <1>2, <3>1 DEF LedgerStep
  <2>4. CASE Stage(p) = "trading"
    <3>1. Ledger!End(p)
      BY <1>2, <1>3, <1>5, <2>1, <2>4 DEF Ledger!End, Stages, Links, Positions
    <3> QED
      BY <3>1 DEF LedgerStep, Ledger!Next
  <2> QED
    BY <2>2, <2>3, <2>4
<1> QED
  BY <1>6, <1>7

\* The status of one trade changes.
LEMMA LedgerPosition ==
  ASSUME Inv, UNCHANGED picks, NEW t \in Trades, trades' \in [Trades -> Trade],
         \A u \in Trades \ {t} : trades'[u] = trades[u],
         \/ trades[t].status = "none" /\ trades'[t].status = "open"
         \/ trades[t].status # "none" /\ trades'[t].status = "closed"
  PROVE  LedgerStep
<1>1. trades \in [Trades -> Trade]
  BY DEF Inv, TypeOK
<1>2. Stages' = Stages /\ Links' = Links
  BY DEF Stages, Links, Stage
<1>3. Positions' = [Positions EXCEPT ![t] = trades'[t].status]
  BY DEF Positions
<1>4. Positions[t] = trades[t].status
  BY DEF Positions
<1>5. CASE trades[t].status = "none" /\ trades'[t].status = "open"
  <2>1. Ledger!Place(t)
    BY <1>2, <1>3, <1>4, <1>5 DEF Ledger!Place, Stages, Links, Positions
  <2> QED
    BY <2>1 DEF LedgerStep, Ledger!Next
<1>6. CASE trades[t].status = "open" /\ trades'[t].status = "closed"
  <2>1. Ledger!Close(t)
    BY <1>2, <1>3, <1>4, <1>6 DEF Ledger!Close, Stages, Links, Positions
  <2> QED
    BY <2>1 DEF LedgerStep, Ledger!Next
<1>7. CASE trades[t].status = "closed" /\ trades'[t].status = "closed"
  <2>1. Positions' = Positions
    BY <1>3, <1>4, <1>7 DEF Positions
  <2> QED
    BY <1>2, <2>1 DEF LedgerStep
<1> QED
  BY <1>1, <1>5, <1>6, <1>7 DEF Trade

\* A pick that was never stored has no trade.
Unlinked == \A p \in Picks : picks[p].status = "absent" => picks[p].trade = None

LEMMA UnlinkedStep == Inv /\ Unlinked /\ [Next]_vars => Unlinked'
<1> SUFFICES ASSUME Inv, Unlinked, [Next]_vars PROVE Unlinked'
  OBVIOUS
<1>0. picks \in [Picks -> Pick]
  BY DEF Inv, TypeOK
<1>1. CASE UNCHANGED picks
  BY <1>1 DEF Unlinked
<1>2. ASSUME NEW g \in Generators, DeleteToday(g) PROVE Unlinked'
  BY <1>0, <1>2 DEF DeleteToday, Pick, Dated, Unlinked
<1>3. ASSUME NEW g \in Generators, SavePick(g) PROVE Unlinked'
  BY <1>0, <1>3 DEF SavePick, Pick, Unlinked
<1>4. ASSUME NEW r \in Runs, NEW p \in Picks, EndPick(r, p) PROVE Unlinked'
  <2>1. PICK event \in Ends :
          picks' = IF Stored(p) THEN [picks EXCEPT ![p].status = event] ELSE picks
    BY <1>4 DEF EndPick, Decides, Ends
  <2> QED
    BY <1>0, <2>1 DEF Pick, Stored, Ends, Unlinked
<1> QED
  BY <1>1, <1>2, <1>3, <1>4
  DEF Next, vars, Generate, Watch, CheckExisting, NoCandidate, BuildWatching, CountTrades,
      PlaceTrade, PlaceFails, GenerateFails, ListTrading, PassBy, AddJournalEntry, CloseRead,
      CloseWrite, CloseFails, RunEnds, RunFails, DayTurns, UserCloses

\* A pick is stored: to be watched, or to trade on the trade its task placed.
LEMMA LedgerSave ==
  ASSUME Inv, Unlinked, NEW g \in Generators, SavePick(g)
  PROVE  LedgerStep
<1>0. picks \in [Picks -> Pick] /\ gen[g].trade \in Trades \cup {None}
  BY DEF Inv, TypeOK
<1>1. UNCHANGED trades /\ gen[g].pc = "saving"
  BY DEF SavePick
<1>2. PICK p \in Picks :
        /\ picks[p].status = "absent"
        /\ picks' = [picks EXCEPT ![p] =
             [status |-> IF gen[g].trade = None THEN "WATCHING" ELSE "TRADING",
              date |-> gen[g].date, trade |-> gen[g].trade]]
  BY DEF SavePick
<1>3. \A q \in Picks \ {p} : picks'[q] = picks[q]
  BY <1>0, <1>2
<1>4. /\ picks'[p].trade = gen[g].trade
      /\ picks'[p].status = IF gen[g].trade = None THEN "WATCHING" ELSE "TRADING"
  BY <1>0, <1>2
<1>5. /\ Stages' = [Stages EXCEPT ![p] = Stage(p)']
      /\ Links' = [Links EXCEPT ![p] = gen[g].trade]
      /\ Positions' = Positions
  <2>1. \A q \in Picks \ {p} : Stage(q)' = Stage(q)
    BY <1>3 DEF Stage
  <2> QED
    BY <1>1, <1>3, <1>4, <2>1 DEF Stages, Links, Positions
<1>6. Stage(p) = "absent"
  BY <1>2 DEF Stage, Ends
<1>7. CASE gen[g].trade = None
  <2>1. Stage(p)' = "watching"
    BY <1>4, <1>7 DEF Stage, Ends
  <2>2. picks[p].trade = None
    BY <1>2 DEF Unlinked
  <2>3. Ledger!Watch(p)
    BY <1>5, <1>6, <1>7, <2>1, <2>2 DEF Ledger!Watch, Stages, Links, Positions
  <2> QED
    BY <2>3 DEF LedgerStep, Ledger!Next
<1>8. CASE gen[g].trade # None
  <2>1. Stage(p)' = "trading"
    BY <1>4, <1>8 DEF Stage, Ends
  <2>2. trades[gen[g].trade].status # "none" /\ \A q \in Picks : picks[q].trade # gen[g].trade
    BY <1>0, <1>8 DEF Inv, LinkSound, GenSound
  <2>3. PICK u \in Trades : u = gen[g].trade
    BY <1>0, <1>8
  <2>4. Stages[p] = "absent" /\ Positions[u] # "none" /\ \A q \in Picks : Links[q] # u
    BY <1>6, <2>2, <2>3 DEF Stages, Links, Positions
  <2>5. Ledger!Trade(p, u)
    BY <1>5, <2>1, <2>3, <2>4 DEF Ledger!Trade, Stages, Links, Positions
  <2> QED
    BY <2>5 DEF LedgerStep, Ledger!Next
<1> QED
  BY <1>7, <1>8

\* Generators, price checks, expiries and an admin, on lists as old as they come, keep
\* the promises of PickLedger: a trade is placed before its pick trades and belongs to it
\* alone, a pick ends once, and nothing comes back.
THEOREM ImplementsPickLedger == Spec => PickLedgerSpec
<1>1. Init => Ledger!Init
  BY DEF Init, Ledger!Init, Stage, NoPick, NoTrade, Ends
<1>2. Init => Unlinked
  BY DEF Init, Unlinked, NoPick
<1>3. Inv /\ Unlinked /\ [Next]_vars => LedgerStep
  <2> SUFFICES ASSUME Inv, Unlinked, [Next]_vars PROVE LedgerStep
    OBVIOUS
  <2>1. CASE UNCHANGED <<picks, trades>>
    BY <2>1, LedgerStutters
  <2>2. ASSUME NEW g \in Generators, DeleteToday(g) PROVE LedgerStep
    <3>1. CASE \E p \in Dated(today) : picks' = [picks EXCEPT ![p].status = "deleted"]
      BY <2>2, <3>1, LedgerStage DEF DeleteToday, Dated, Status
    <3> QED
      BY <2>2, <3>1, LedgerStutters DEF DeleteToday
  <2>3. ASSUME NEW g \in Generators, PlaceTrade(g) \/ PlaceFails(g) PROVE LedgerStep
    <3>1. CASE trades' = trades
      BY <2>3, <3>1, LedgerStutters DEF PlaceTrade, PlaceFails
    <3>2. CASE \E t \in Trades : /\ trades[t].status = "none"
                                /\ trades' = [trades EXCEPT ![t] =
                                                [status |-> "open", date |-> today]]
      <4>1. PICK t \in Trades : /\ trades[t].status = "none"
                               /\ trades' = [trades EXCEPT ![t] =
                                               [status |-> "open", date |-> today]]
        BY <3>2
      <4>2. trades' \in [Trades -> Trade] /\ trades'[t].status = "open"
            /\ \A u \in Trades \ {t} : trades'[u] = trades[u]
        BY <4>1 DEF Inv, TypeOK, Trade
      <4> QED
        BY <2>3, <4>1, <4>2, LedgerPosition DEF PlaceTrade, PlaceFails
    <3> QED
      BY <2>3, <3>1, <3>2 DEF PlaceTrade, PlaceFails
  <2>4. ASSUME NEW g \in Generators, SavePick(g) PROVE LedgerStep
    BY <2>4, LedgerSave
  <2>5. ASSUME NEW r \in Runs, NEW p \in Picks, EndPick(r, p) PROVE LedgerStep
    <3>1. PICK event \in Ends :
            picks' = IF Stored(p) THEN [picks EXCEPT ![p].status = event] ELSE picks
      BY <2>5 DEF EndPick, Decides, Ends
    <3>2. UNCHANGED trades /\ Traded(p)
      BY <2>5 DEF EndPick, Inv, RunSound
    <3>3. CASE Stored(p)
      BY <3>1, <3>2, <3>3, LedgerStage DEF Status
    <3> QED
      BY <3>1, <3>2, <3>3, LedgerStutters
  <2>6. ASSUME NEW t \in Trades, trades[t].status # "none", UNCHANGED picks,
               trades' = [trades EXCEPT ![t].status = "closed"]
        PROVE  LedgerStep
    <3>1. trades' \in [Trades -> Trade] /\ trades'[t].status = "closed"
          /\ \A u \in Trades \ {t} : trades'[u] = trades[u]
      BY <2>6 DEF Inv, TypeOK, Trade
    <3> QED
      BY <2>6, <3>1, LedgerPosition
  <2>7. ASSUME NEW r \in Runs, CloseWrite(r) PROVE LedgerStep
    <3>1. picks[run[r].pick].trade \in Trades
      BY <2>7 DEF CloseWrite, Inv, TypeOK, Pick, RunSound, Traded
    <3>2. trades[picks[run[r].pick].trade].status # "none"
      BY <2>7 DEF CloseWrite, Inv, LinkSound, RunSound, Traded
    <3> QED
      BY <2>6, <2>7, <3>1, <3>2 DEF CloseWrite
  <2>8. ASSUME NEW t \in Trades, UserCloses(t) PROVE LedgerStep
    BY <2>6, <2>8 DEF UserCloses
  <2> QED
    BY <2>1, <2>2, <2>3, <2>4, <2>5, <2>7, <2>8
    DEF Next, vars, Generate, Watch, CheckExisting, NoCandidate, BuildWatching, CountTrades,
        GenerateFails, ListTrading, PassBy, AddJournalEntry, CloseRead, CloseFails, RunEnds,
        RunFails, DayTurns
<1> QED
  BY <1>1, <1>2, <1>3, Invariance, UnlinkedStep, PTL
  DEF Spec, PickLedgerSpec, Ledger!Spec, LedgerStep, Ledger!ledger, Stages, Links, Positions
=============================================================================
