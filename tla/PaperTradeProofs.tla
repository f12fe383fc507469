-------------------------- MODULE PaperTradeProofs --------------------------
(***************************************************************************)
(* Theorems about PaperTrade for any number of trades, requests, workers   *)
(* and prices.                                                             *)
(*                                                                         *)
(* Inv holds however many schedulers run: what a handler holds of a row,   *)
(* and that nobody queues, cancels or fills a trade placed at the market.  *)
(* A pass's order list is only trustworthy with one scheduler (PassSound,  *)
(* OpenSound); what a stale copy of the monitor could break assumes it.    *)
(***************************************************************************)
EXTENDS PaperTrade, TLAPS

\* What holds of a row whoever writes it.
RowSound ==
  \A t \in Trades :
     /\ rows[t].status \in {"none", "pending"} => ~rows[t].opened /\ rows[t].exit = None
     /\ rows[t].status = "pending" => Queued(rows[t])
     /\ Market(rows[t]) => /\ rows[t].status \in {"open", "closed"}
                           /\ rows[t].opened
                           /\ rows[t].exit = None <=> rows[t].status = "open"

\* A handler about to merge, or about to commit, with what it read.
ClosingSound(q, row) ==
  /\ row.status \notin {"none", "pending"}
  /\ q.copy.status = "open"
  /\ Market(row) => q.copy.opened

CancellingSound(q, row) ==
  /\ Queued(row)
  /\ q.copy.status = "pending" /\ ~q.copy.opened /\ q.copy.exit = None

ClosedSound(q, row) ==
  /\ row.status \notin {"none", "pending"}
  /\ q.copy.exit \in Prices
  /\ Market(row) => /\ q.copy.opened
                    /\ "status" \in q.cols => "exit" \in q.cols
                    /\ "status" \notin q.cols => row.status = "closed"

CancelledSound(q, row) ==
  /\ Queued(row)
  /\ ~q.copy.opened /\ q.copy.exit = None
  /\ row.status = "pending" => q.cols \subseteq {"status"}

ReqSound ==
  \A r \in Requests :
     req[r].pc # "idle" =>
        /\ req[r].trade \in Trades
        /\ rows[req[r].trade].status # "none"
        /\ req[r].pc = "closing" => ClosingSound(req[r], rows[req[r].trade])
        /\ req[r].pc = "cancelling" => CancellingSound(req[r], rows[req[r].trade])
        /\ req[r].pc = "writing" =>
              \/ req[r].copy.status = "closed" /\ ClosedSound(req[r], rows[req[r].trade])
              \/ req[r].copy.status = "cancelled" /\ CancelledSound(req[r], rows[req[r].trade])

\* A pass only ever has queued orders in hand.
MonSound ==
  \A p \in Schedulers :
     /\ \A t \in mon[p].pend : Queued(rows[t]) /\ rows[t].status # "none"
     /\ mon[p].pc = "writing" =>
           /\ mon[p].order \in Trades
           /\ Queued(rows[mon[p].order])
           /\ rows[mon[p].order].status # "none"
           /\ rows[mon[p].order].status = "pending" => "status" \in mon[p].cols

Inv == TypeOK /\ RowSound /\ AlertOnce /\ ReqSound /\ MonSound

-----------------------------------------------------------------------------
(* What a merge finds, and what a commit makes of a row.                   *)

LEMMA ChangedColumns ==
  ASSUME NEW row \in Row, NEW copy \in Row
  PROVE  /\ Changed(row, copy) \subseteq Columns
         /\ "status" \in Changed(row, copy) <=> row.status # copy.status
         /\ "opened" \in Changed(row, copy) <=> row.opened # copy.opened
         /\ "exit" \in Changed(row, copy) <=> row.exit # copy.exit
<1>1. row["status"] = row.status /\ row["opened"] = row.opened /\ row["exit"] = row.exit
  BY DEF Row
<1>2. copy["status"] = copy.status /\ copy["opened"] = copy.opened /\ copy["exit"] = copy.exit
  BY DEF Row
<1> QED
  BY <1>1, <1>2 DEF Changed, Columns

LEMMA FlushedRow ==
  ASSUME NEW row \in Row, NEW copy \in Row, NEW cols
  PROVE  /\ Flushed(row, copy, cols) \in Row
         /\ Flushed(row, copy, cols).terms = row.terms
         /\ Flushed(row, copy, cols).status = IF "status" \in cols THEN copy.status ELSE row.status
         /\ Flushed(row, copy, cols).opened = IF "opened" \in cols THEN copy.opened ELSE row.opened
         /\ Flushed(row, copy, cols).exit = IF "exit" \in cols THEN copy.exit ELSE row.exit
BY DEF Flushed, Row

LEMMA FilledRow ==
  ASSUME NEW row \in Row
  PROVE  /\ Filled(row) \in Row
         /\ Filled(row).status = "open" /\ Filled(row).opened /\ Filled(row).exit = None
BY DEF Filled, Row, Status

\* What any step keeps of a row that exists.
RowNext(old, new) ==
  old.status # "none" =>
     /\ new.terms = old.terms
     /\ new.status # "none"
     /\ new.status = "pending" => old.status = "pending"
     /\ Market(old) /\ old.status = "closed" => new.status = "closed"

LEMMA KeepReqSound ==
  ASSUME ReqSound, \A t \in Trades : RowNext(rows[t], rows'[t]),
         \A r \in Requests : req'[r] = req[r] \/ req'[r].pc = "idle"
  PROVE  ReqSound'
<1> SUFFICES ASSUME NEW r \in Requests, req'[r].pc # "idle"
             PROVE  /\ req'[r].trade \in Trades
                    /\ rows'[req'[r].trade].status # "none"
                    /\ req'[r].pc = "closing" => ClosingSound(req'[r], rows'[req'[r].trade])
                    /\ req'[r].pc = "cancelling" => CancellingSound(req'[r], rows'[req'[r].trade])
                    /\ req'[r].pc = "writing" =>
                         \/ req'[r].copy.status = "closed" /\ ClosedSound(req'[r], rows'[req'[r].trade])
                         \/ req'[r].copy.status = "cancelled" /\ CancelledSound(req'[r], rows'[req'[r].trade])
  BY DEF ReqSound
<1> DEFINE t == req[r].trade
<1>1. req'[r] = req[r] /\ req[r].pc # "idle"
  OBVIOUS
<1>2. t \in Trades /\ rows[t].status # "none"
  BY <1>1 DEF ReqSound
<1>3. RowNext(rows[t], rows'[t])
  BY <1>2
<1>4. CASE req[r].pc = "closing"
  <2>1. ClosingSound(req[r], rows[t])
    BY <1>1, <1>4 DEF ReqSound
  <2> QED
    BY <1>1, <1>2, <1>3, <1>4, <2>1 DEF RowNext, ClosingSound, Market
<1>5. CASE req[r].pc = "cancelling"
  <2>1. CancellingSound(req[r], rows[t])
    BY <1>1, <1>5 DEF ReqSound
  <2> QED
    BY <1>1, <1>2, <1>3, <1>5, <2>1 DEF RowNext, CancellingSound, Queued
<1>6. CASE req[r].pc = "writing"
  <2>1. \/ req[r].copy.status = "closed" /\ ClosedSound(req[r], rows[t])
        \/ req[r].copy.status = "cancelled" /\ CancelledSound(req[r], rows[t])
    BY <1>1, <1>6 DEF ReqSound
  <2>2. CASE req[r].copy.status = "closed" /\ ClosedSound(req[r], rows[t])
    BY <1>1, <1>2, <1>3, <1>6, <2>2 DEF RowNext, ClosedSound, Market
  <2>3. CASE req[r].copy.status = "cancelled" /\ CancelledSound(req[r], rows[t])
    BY <1>1, <1>2, <1>3, <1>6, <2>3 DEF RowNext, CancelledSound, Queued
  <2> QED
    BY <2>1, <2>2, <2>3
<1> QED
  BY <1>1, <1>2, <1>3, <1>4, <1>5, <1>6 DEF RowNext

LEMMA KeepMonSound ==
  ASSUME MonSound, \A t \in Trades : RowNext(rows[t], rows'[t]),
         \A p \in Schedulers : mon[p].pend \subseteq Trades,
         \A p \in Schedulers : mon'[p].pend \subseteq mon[p].pend,
         \A p \in Schedulers : mon'[p].pc = "writing" => mon'[p] = mon[p]
  PROVE  MonSound'
BY DEF MonSound, RowNext, Queued

-----------------------------------------------------------------------------
LEMMA InitInv == Init => Inv
<1> SUFFICES ASSUME Init PROVE Inv
  OBVIOUS
<1>1. NoRow \in Row
  BY DEF NoRow, Row, Status
<1>2. TypeOK
  BY <1>1 DEF Init, TypeOK, Idle, IdlePass, Pass, NoAlert
<1>3. RowSound
  BY DEF Init, RowSound, NoRow, Market
<1>4. AlertOnce
  BY DEF Init, AlertOnce, NoAlert
<1>5. ReqSound /\ MonSound
  BY DEF Init, ReqSound, MonSound, Idle, IdlePass, Pass
<1> QED
  BY <1>2, <1>3, <1>4, <1>5 DEF Inv

LEMMA PlaceInv ==
  ASSUME Inv, NEW t \in Trades, PlaceMarket(t) \/ PlaceLimit(t)
  PROVE  Inv'
<1> USE DEF Inv
<1>1. PICK x \in Terms, n \in Row :
        /\ rows' = [rows EXCEPT ![t] = n]
        /\ n.terms = x /\ n.exit = None
        /\ \/ x.kind = "market" /\ n.status = "open" /\ n.opened
           \/ x.kind = "limit" /\ n.status = "pending" /\ ~n.opened
  <2>1. CASE PlaceMarket(t)
    <3>1. PICK x \in Terms : /\ x.kind = "market"
                             /\ rows' = [rows EXCEPT ![t] = [status |-> "open", terms |-> x,
                                                            opened |-> TRUE, exit |-> None]]
      BY <2>1 DEF PlaceMarket
    <3>2. [status |-> "open", terms |-> x, opened |-> TRUE, exit |-> None] \in Row
      BY DEF Row, Status
    <3> QED
      BY <3>1, <3>2
  <2>2. CASE PlaceLimit(t)
    <3>1. PICK x \in Terms : /\ x.kind = "limit"
                             /\ rows' = [rows EXCEPT ![t] = [status |-> "pending", terms |-> x,
                                                            opened |-> FALSE, exit |-> None]]
      BY <2>2 DEF PlaceLimit
    <3>2. [status |-> "pending", terms |-> x, opened |-> FALSE, exit |-> None] \in Row
      BY DEF Row, Status
    <3> QED
      BY <3>1, <3>2
  <2> QED
    BY <2>1, <2>2
<1>2. rows[t].status = "none" /\ UNCHANGED <<req, mon, seen, alerts, marketOpen>>
  BY DEF PlaceMarket, PlaceLimit
<1>3. rows'[t] = n /\ \A u \in Trades \ {t} : rows'[u] = rows[u]
  BY <1>1 DEF TypeOK
<1>4. TypeOK'
  BY <1>1, <1>2 DEF TypeOK
<1>8. RowSound'
  BY <1>1, <1>3 DEF RowSound, Market, Queued
<1>9. \A u \in Trades : RowNext(rows[u], rows'[u])
  BY <1>2, <1>3 DEF RowNext
<1>10. ReqSound'
  BY <1>2, <1>9, KeepReqSound
<1>11. MonSound'
  BY <1>2, <1>9, KeepMonSound DEF TypeOK
<1> QED
  BY <1>2, <1>4, <1>8, <1>10, <1>11 DEF AlertOnce

LEMMA RequestInv ==
  ASSUME Inv, NEW r \in Requests,
         \/ \E t \in Trades : CloseRead(r, t) \/ CancelRead(r, t)
         \/ CloseMerge(r) \/ CancelMerge(r) \/ Commit(r) \/ RequestFails(r)
  PROVE  Inv'
<1> USE DEF Inv
<1>0. /\ rows \in [Trades -> Row]
      /\ req \in [Requests -> [pc : {"idle", "closing", "cancelling", "writing"},
                     trade : Trades \cup {None}, copy : Row, cols : SUBSET Columns]]
  BY DEF TypeOK
<1>1. ASSUME UNCHANGED <<rows, mon, seen, alerts, marketOpen>>,
             req' \in [Requests -> [pc : {"idle", "closing", "cancelling", "writing"},
                          trade : Trades \cup {None}, copy : Row, cols : SUBSET Columns]],
             ReqSound'
      PROVE  Inv'
  BY <1>1 DEF TypeOK, RowSound, AlertOnce, MonSound
<1>2. ASSUME NEW t \in Trades, CloseRead(r, t) \/ CancelRead(r, t)
      PROVE  Inv'
  <2>1. PICK pc \in {"closing", "cancelling"} :
          /\ Holds(r, pc, t)
          /\ pc = "closing" => rows[t].status = "open"
          /\ pc = "cancelling" => rows[t].status = "pending"
    BY <1>2 DEF CloseRead, CancelRead
  <2>2. /\ req' = [req EXCEPT ![r] = [pc |-> pc, trade |-> t, copy |-> rows[t], cols |-> {}]]
        /\ UNCHANGED <<rows, mon, seen, alerts, marketOpen>>
    BY <2>1 DEF Holds
  <2>3. req' \in [Requests -> [pc : {"idle", "closing", "cancelling", "writing"},
                     trade : Trades \cup {None}, copy : Row, cols : SUBSET Columns]]
    BY <1>0, <2>2
  <2>4. pc = "closing" => ClosingSound(req'[r], rows[t])
    BY <1>0, <2>1, <2>2 DEF ClosingSound, RowSound
  <2>5. pc = "cancelling" => CancellingSound(req'[r], rows[t])
    BY <1>0, <2>1, <2>2 DEF CancellingSound, RowSound
  <2>6. ReqSound'
    BY <1>0, <2>1, <2>2, <2>4, <2>5 DEF ReqSound
  <2> QED
    BY <1>1, <2>2, <2>3, <2>6
<1>3. ASSUME NEW copy \in Row, Merges(r, copy), req[r].pc # "idle",
             \/ /\ copy.status = "closed"
                /\ \A cols : cols = Changed(rows[req[r].trade], copy) =>
                     ClosedSound([pc |-> "writing", trade |-> req[r].trade,
                                  copy |-> copy, cols |-> cols], rows[req[r].trade])
             \/ /\ copy.status = "cancelled"
                /\ \A cols : cols = Changed(rows[req[r].trade], copy) =>
                     CancelledSound([pc |-> "writing", trade |-> req[r].trade,
                                     copy |-> copy, cols |-> cols], rows[req[r].trade])
      PROVE  Inv'
  <2> DEFINE cols == Changed(rows[req[r].trade], copy)
             new  == [pc |-> "writing", trade |-> req[r].trade, copy |-> copy, cols |-> cols]
  <2>1. req[r].trade \in Trades /\ rows[req[r].trade].status # "none"
    BY <1>3 DEF ReqSound
  <2>2. cols \subseteq Columns
    BY <1>0, <2>1, ChangedColumns
  <2>3. /\ req' = [req EXCEPT ![r] = new]
        /\ UNCHANGED <<rows, mon, seen, alerts, marketOpen>>
    BY <1>0, <1>3 DEF Merges
  <2>4. \/ copy.status = "closed" /\ ClosedSound(new, rows[req[r].trade])
        \/ copy.status = "cancelled" /\ CancelledSound(new, rows[req[r].trade])
    BY <1>3
  <2> HIDE DEF cols
  <2>5. req' \in [Requests -> [pc : {"idle", "closing", "cancelling", "writing"},
                     trade : Trades \cup {None}, copy : Row, cols : SUBSET Columns]]
    BY <1>0, <2>1, <2>2, <2>3
  <2>6. req'[r] = new /\ \A q \in Requests \ {r} : req'[q] = req[q]
    BY <1>0, <2>3
  <2>7. ReqSound'
    <3> HIDE DEF new
    <3>1. new.pc = "writing" /\ new.trade = req[r].trade /\ new.copy = copy
      BY DEF new
    <3> QED
      BY <2>1, <2>3, <2>4, <2>6, <3>1 DEF ReqSound
  <2> QED
    BY <1>1, <2>3, <2>5, <2>7
<1>4. CASE CloseMerge(r)
  <2>1. PICK price \in Prices :
          Merges(r, [req[r].copy EXCEPT !.status = "closed", !.exit = price])
    BY <1>4 DEF CloseMerge
  <2> DEFINE copy == [req[r].copy EXCEPT !.status = "closed", !.exit = price]
             row  == rows[req[r].trade]
  <2>2. req[r].pc = "closing" /\ req[r].trade \in Trades /\ ClosingSound(req[r], row)
    BY <1>4 DEF CloseMerge, ReqSound
  <2>3. /\ copy \in Row /\ copy.status = "closed" /\ copy.exit = price
        /\ copy.opened = req[r].copy.opened
    BY <1>0 DEF Row, Status
  <2>4. row \in Row
    BY <1>0, <2>2
  <2> HIDE DEF copy
  <2>5. /\ "status" \in Changed(row, copy) <=> row.status # copy.status
        /\ "exit" \in Changed(row, copy) <=> row.exit # copy.exit
    BY <2>3, <2>4, ChangedColumns
  <2>6. Market(row) => (row.status = "open" /\ row.exit = None) \/ row.status = "closed"
    BY <2>2 DEF RowSound
  <2>7. ASSUME NEW cols, cols = Changed(row, copy)
        PROVE  ClosedSound([pc |-> "writing", trade |-> req[r].trade,
                            copy |-> copy, cols |-> cols], row)
    BY <2>2, <2>3, <2>5, <2>6, <2>7, NoneAssumption DEF ClosedSound, ClosingSound
  <2>8. Merges(r, copy)
    BY <2>1 DEF copy
  <2> QED
    BY <1>3, <2>2, <2>3, <2>7, <2>8
<1>5. CASE CancelMerge(r)
  <2> DEFINE copy == [req[r].copy EXCEPT !.status = "cancelled"]
             row  == rows[req[r].trade]
  <2>1. Merges(r, copy)
    BY <1>5 DEF CancelMerge
  <2>2. req[r].pc = "cancelling" /\ req[r].trade \in Trades /\ CancellingSound(req[r], row)
    BY <1>5 DEF CancelMerge, ReqSound
  <2>3. /\ copy \in Row /\ copy.status = "cancelled" /\ copy.exit = req[r].copy.exit
        /\ copy.opened = req[r].copy.opened
    BY <1>0 DEF Row, Status
  <2>4. row \in Row
    BY <1>0, <2>2
  <2> HIDE DEF copy
  <2>5. /\ Changed(row, copy) \subseteq Columns
        /\ "opened" \in Changed(row, copy) <=> row.opened # copy.opened
        /\ "exit" \in Changed(row, copy) <=> row.exit # copy.exit
    BY <2>3, <2>4, ChangedColumns
  <2>6. row.status = "pending" => row.opened = FALSE /\ row.exit = None
    BY <2>2, <2>4 DEF RowSound, Row
  <2>7. copy.opened = FALSE /\ copy.exit = None
    BY <1>0, <2>2, <2>3 DEF CancellingSound, Row
  <2>8. row.status = "pending" => Changed(row, copy) \subseteq {"status"}
    BY <2>5, <2>6, <2>7 DEF Columns
  <2>9. ASSUME NEW cols, cols = Changed(row, copy)
        PROVE  CancelledSound([pc |-> "writing", trade |-> req[r].trade,
                               copy |-> copy, cols |-> cols], row)
    BY <2>2, <2>7, <2>8, <2>9 DEF CancelledSound, CancellingSound
  <2> QED
    BY <1>3, <2>1, <2>2, <2>3, <2>9
<1>6. CASE Commit(r)
  <2> DEFINE t == req[r].trade
             new == Flushed(rows[t], req[r].copy, req[r].cols)
  <2>1. /\ req[r].pc = "writing" /\ t \in Trades /\ rows[t].status # "none"
        /\ rows[t] \in Row /\ req[r].copy \in Row
    BY <1>0, <1>6 DEF Commit, ReqSound
  <2>2. /\ rows' = [rows EXCEPT ![t] = new]
        /\ req' = [req EXCEPT ![r] = Idle]
        /\ UNCHANGED <<mon, seen, alerts, marketOpen>>
    BY <1>6 DEF Commit
  <2>3. \/ req[r].copy.status = "closed" /\ ClosedSound(req[r], rows[t])
        \/ req[r].copy.status = "cancelled" /\ CancelledSound(req[r], rows[t])
    BY <2>1 DEF ReqSound
  <2>4. /\ new \in Row /\ new.terms = rows[t].terms
        /\ new.status = IF "status" \in req[r].cols THEN req[r].copy.status ELSE rows[t].status
        /\ new.opened = IF "opened" \in req[r].cols THEN req[r].copy.opened ELSE rows[t].opened
        /\ new.exit = IF "exit" \in req[r].cols THEN req[r].copy.exit ELSE rows[t].exit
    BY <2>1, FlushedRow
  <2> HIDE DEF new
  <2>5. /\ rows' \in [Trades -> Row] /\ rows'[t] = new
        /\ \A u \in Trades \ {t} : rows'[u] = rows[u]
    BY <1>0, <2>1, <2>2, <2>4
  <2>6. Idle \in [pc : {"idle", "closing", "cancelling", "writing"},
                  trade : Trades \cup {None}, copy : Row, cols : SUBSET Columns]
    BY DEF Idle, NoRow, Row, Status
  <2>7. /\ req' \in [Requests -> [pc : {"idle", "closing", "cancelling", "writing"},
                        trade : Trades \cup {None}, copy : Row, cols : SUBSET Columns]]
        /\ req'[r].pc = "idle"
        /\ \A q \in Requests \ {r} : req'[q] = req[q]
    BY <1>0, <2>2, <2>6 DEF Idle
  <2>8. TypeOK'
    BY <2>2, <2>5, <2>7 DEF TypeOK
  <2>9. RowNext(rows[t], new)
    BY <2>1, <2>3, <2>4 DEF RowNext, ClosedSound, CancelledSound, Market, Queued
  <2>10. \A u \in Trades : RowNext(rows[u], rows'[u])
    BY <2>5, <2>9 DEF RowNext
  <2>11. ReqSound'
    BY <2>7, <2>10, KeepReqSound
  <2>12. MonSound'
    BY <2>2, <2>10, KeepMonSound DEF TypeOK
  <2>13. RowSound'
    <3>1. new.status # "none"
      BY <2>1, <2>3, <2>4
    <3>2. CASE req[r].copy.status = "closed" /\ ClosedSound(req[r], rows[t])
      <4>1. new.status # "pending"
        BY <2>4, <3>2 DEF ClosedSound
      <4>2. Market(new) => new.status \in {"open", "closed"} /\ new.opened
                           /\ (new.exit = None <=> new.status = "open")
        <5>1. Market(new) => Market(rows[t])
          BY <2>1, <2>4 DEF Market
        <5>2. Market(rows[t]) => /\ rows[t].status \in {"open", "closed"} /\ rows[t].opened
                                 /\ rows[t].exit = None <=> rows[t].status = "open"
          BY <2>1 DEF RowSound
        <5> QED
          BY <2>4, <3>2, <5>1, <5>2, NoneAssumption DEF ClosedSound
      <4> QED
        BY <2>5, <3>1, <4>1, <4>2 DEF RowSound
    <3>3. CASE req[r].copy.status = "cancelled" /\ CancelledSound(req[r], rows[t])
      <4>1. ~Market(new)
        BY <2>4, <3>3 DEF CancelledSound, Market, Queued
      <4>2. new.status = "pending" => rows[t].status = "pending"
        BY <2>4, <3>3
      <4>3. new.status = "pending" => ~new.opened /\ new.exit = None
        BY <2>1, <2>4, <3>3, <4>2 DEF CancelledSound, RowSound
      <4>4. new.status = "pending" => Queued(new)
        BY <2>4, <3>1, <3>3 DEF CancelledSound, Queued
      <4> QED
        BY <2>5, <3>1, <4>1, <4>3, <4>4 DEF RowSound
    <3> QED
      BY <2>3, <3>2, <3>3
  <2> QED
    BY <2>2, <2>8, <2>11, <2>12, <2>13 DEF AlertOnce
<1>7. CASE RequestFails(r)
  <2>1. Idle \in [pc : {"idle", "closing", "cancelling", "writing"},
                  trade : Trades \cup {None}, copy : Row, cols : SUBSET Columns]
    BY DEF Idle, NoRow, Row, Status
  <2>2. ReqSound'
    BY <1>0, <1>7 DEF RequestFails, ReqSound, Idle
  <2> QED
    BY <1>0, <1>1, <1>7, <2>1, <2>2 DEF RequestFails
<1> QED
  BY <1>2, <1>4, <1>5, <1>6, <1>7

LEMMA AlertInv ==
  ASSUME Inv, NEW p \in Workers, NEW k \in Keys, AckAlert(p, k) \/ ClearAlert(p, k)
  PROVE  Inv'
<1> USE DEF Inv
<1>1. UNCHANGED <<rows, req, mon, seen, marketOpen>>
  BY DEF AckAlert, ClearAlert
<1>2. alerts \in [Workers -> [Keys -> [fresh : Nat, acked : Nat]]]
  BY DEF TypeOK
<1>3. /\ alerts' \in [Workers -> [Keys -> [fresh : Nat, acked : Nat]]]
      /\ alerts[p][k].fresh + alerts[p][k].acked > 0
      /\ \A q \in Workers, j \in Keys :
            IF q = p /\ j = k
            THEN alerts'[q][j].fresh + alerts'[q][j].acked
                   <= alerts[q][j].fresh + alerts[q][j].acked
            ELSE alerts'[q][j] = alerts[q][j]
  <2>1. CASE AckAlert(p, k)
    BY <1>2, <2>1 DEF AckAlert
  <2>2. CASE /\ alerts[p][k].fresh > 0
             /\ alerts' = [alerts EXCEPT ![p][k].fresh = @ - 1]
    BY <1>2, <2>2
  <2>3. CASE /\ alerts[p][k].acked > 0
             /\ alerts' = [alerts EXCEPT ![p][k].acked = @ - 1]
    BY <1>2, <2>3
  <2> QED
    BY <2>1, <2>2, <2>3 DEF ClearAlert
<1>4. TypeOK'
  BY <1>1, <1>3 DEF TypeOK
<1>5. AlertOnce'
  <2>1. k \in seen[p]
    BY <1>3 DEF AlertOnce, NoAlert
  <2>2. SUFFICES ASSUME NEW q \in Workers, NEW j \in Keys
                 PROVE  /\ alerts'[q][j].fresh + alerts'[q][j].acked <= 1
                        /\ j \notin seen[q] => alerts'[q][j] = NoAlert
    BY <1>1 DEF AlertOnce
  <2>3. CASE q = p /\ j = k
    <3>1. /\ alerts[p][k].fresh \in Nat /\ alerts[p][k].acked \in Nat
          /\ alerts'[p][k].fresh \in Nat /\ alerts'[p][k].acked \in Nat
      BY <1>2, <1>3
    <3> QED
      BY <1>3, <2>1, <2>3, <3>1 DEF AlertOnce
  <2>4. CASE ~(q = p /\ j = k)
    BY <1>3, <2>4 DEF AlertOnce
  <2> QED
    BY <2>3, <2>4
<1>6. RowSound' /\ ReqSound' /\ MonSound'
  BY <1>1 DEF RowSound, ReqSound, MonSound
<1> QED
  BY <1>4, <1>5, <1>6

LEMMA MonitorInv ==
  ASSUME Inv, Monitor
  PROVE  Inv'
<1> USE DEF Inv
<1> PICK p \in Schedulers :
       \/ ListAllOpen(p) \/ ListAllPending(p)
       \/ \E quote \in Quotes : CheckPrices(p, quote)
       \/ \E t \in Trades : FillMerge(p, t)
       \/ FillCommit(p)
       \/ PassEnds(p) \/ PassFails(p)
  BY DEF Monitor
<1>0. /\ rows \in [Trades -> Row]
      /\ mon \in [Schedulers -> [pc : {"idle", "listing", "quoting", "filling", "writing"},
                     open : SUBSET Trades, pend : SUBSET Trades,
                     order : Trades \cup {None}, cols : SUBSET Columns]]
  BY DEF TypeOK
<1>1. CASE ListAllOpen(p) \/ ListAllPending(p) \/ PassEnds(p) \/ PassFails(p)
  <2>1. UNCHANGED <<rows, req, seen, alerts, marketOpen>>
    BY <1>1 DEF ListAllOpen, ListAllPending, PassEnds, PassFails
  <2>2. PICK pc \in {"idle", "listing", "quoting", "filling"},
             open \in SUBSET Trades, pend \in SUBSET Trades :
          /\ mon' = [mon EXCEPT ![p] = Pass(pc, open, pend)]
          /\ \A t \in pend : rows[t].status = "pending"
    <3>1. CASE ListAllOpen(p)
      <4> DEFINE running == {t \in Trades : rows[t].status = "open"}
      <4>1. running \in SUBSET Trades
        OBVIOUS
      <4>2. mon' = [mon EXCEPT ![p] = Pass("listing", running, {})]
        BY <3>1 DEF ListAllOpen
      <4>3. "listing" \in {"idle", "listing", "quoting", "filling"} /\ {} \in SUBSET Trades
        OBVIOUS
      <4> HIDE DEF running
      <4> QED
        BY <4>1, <4>2, <4>3, Zenon
    <3>2. CASE ListAllPending(p)
      <4> DEFINE due == IF marketOpen THEN {t \in Trades : rows[t].status = "pending"} ELSE {}
      <4>1. /\ due \in SUBSET Trades /\ mon[p].open \in SUBSET Trades
            /\ \A t \in due : rows[t].status = "pending"
        BY <1>0
      <4>2. \/ mon' = [mon EXCEPT ![p] = Pass("idle", {}, {})]
            \/ mon' = [mon EXCEPT ![p] = Pass("quoting", mon[p].open, due)]
        BY <3>2 DEF ListAllPending, IdlePass
      <4> HIDE DEF due
      <4> QED
        BY <4>1, <4>2
    <3>3. CASE PassEnds(p) \/ PassFails(p)
      BY <3>3 DEF PassEnds, PassFails, IdlePass
    <3> QED
      BY <1>1, <3>1, <3>2, <3>3
  <2>3. TypeOK'
    BY <1>0, <2>1, <2>2 DEF TypeOK, Pass
  <2>4. MonSound'
    BY <1>0, <2>1, <2>2 DEF MonSound, RowSound, Pass
  <2> QED
    BY <2>1, <2>3, <2>4 DEF RowSound, AlertOnce, ReqSound
<1>2. ASSUME NEW quote \in Quotes, CheckPrices(p, quote)
      PROVE  Inv'
  <2> DEFINE new == Fired(p, quote) \ seen[p]
  <2>1. /\ UNCHANGED <<rows, req, marketOpen>>
        /\ seen' = [seen EXCEPT ![p] = @ \cup new]
        /\ alerts' = [alerts EXCEPT ![p] =
             [k \in Keys |-> IF k \in new THEN [alerts[p][k] EXCEPT !.fresh = @ + 1]
                                                  ELSE alerts[p][k]]]
        /\ mon' = [mon EXCEPT ![p] = Pass("filling", {}, Due(p, quote))]
    BY <1>2 DEF CheckPrices
  <2>2. new \subseteq Keys /\ new \cap seen[p] = {} /\ Due(p, quote) \subseteq mon[p].pend
    BY DEF Fired, Due, Keys, TypeOK
  <2>3. p \in Workers
    BY SchedulersAssumption
  <2>4. /\ seen \in [Workers -> SUBSET Keys]
        /\ alerts \in [Workers -> [Keys -> [fresh : Nat, acked : Nat]]]
    BY DEF TypeOK
  <2> HIDE DEF new
  <2>5. /\ seen' \in [Workers -> SUBSET Keys]
        /\ \A q \in Workers, j \in Keys : j \in seen'[q] <=> j \in seen[q] \/ (q = p /\ j \in new)
    BY <2>1, <2>2, <2>3, <2>4
  <2>6. /\ alerts' \in [Workers -> [Keys -> [fresh : Nat, acked : Nat]]]
        /\ \A q \in Workers, j \in Keys :
              alerts'[q][j] = IF q = p /\ j \in new
                              THEN [fresh |-> alerts[q][j].fresh + 1, acked |-> alerts[q][j].acked]
                              ELSE alerts[q][j]
    <3> DEFINE store == [k \in Keys |-> IF k \in new
                                         THEN [alerts[p][k] EXCEPT !.fresh = @ + 1]
                                         ELSE alerts[p][k]]
    <3>1. alerts' = [alerts EXCEPT ![p] = store]
      BY <2>1
    <3>2. alerts[p] \in [Keys -> [fresh : Nat, acked : Nat]]
      BY <2>3, <2>4
    <3>3. \A j \in Keys :
             store[j] = IF j \in new
                        THEN [fresh |-> alerts[p][j].fresh + 1, acked |-> alerts[p][j].acked]
                        ELSE alerts[p][j]
      BY <3>2
    <3>4. store \in [Keys -> [fresh : Nat, acked : Nat]]
      BY <3>2, <3>3
    <3> HIDE DEF store
    <3> QED
      BY <2>3, <2>4, <3>1, <3>3, <3>4
  <2>7. TypeOK'
    BY <1>0, <2>1, <2>2, <2>5, <2>6 DEF TypeOK, IdlePass, Pass
  <2>8. AlertOnce'
    <3>1. \A j \in new : alerts[p][j] = NoAlert
      BY <2>2, <2>3 DEF AlertOnce
    <3>2. SUFFICES ASSUME NEW q \in Workers, NEW j \in Keys
                   PROVE  /\ alerts'[q][j].fresh + alerts'[q][j].acked <= 1
                          /\ j \notin seen'[q] => alerts'[q][j] = NoAlert
      BY DEF AlertOnce
    <3>3. CASE q = p /\ j \in new
      <4>1. alerts'[q][j] = [fresh |-> 1, acked |-> 0] /\ j \in seen'[q]
        BY <2>5, <2>6, <3>1, <3>3 DEF NoAlert
      <4> QED
        BY <4>1
    <3>4. CASE ~(q = p /\ j \in new)
      BY <2>5, <2>6, <3>4 DEF AlertOnce
    <3> QED
      BY <3>3, <3>4
  <2>9. MonSound'
    BY <1>0, <2>1, <2>2 DEF MonSound, IdlePass, Pass
  <2> QED
    BY <2>1, <2>7, <2>8, <2>9 DEF RowSound, ReqSound
<1>3. ASSUME NEW t \in Trades, FillMerge(p, t)
      PROVE  Inv'
  <2> DEFINE cols == Changed(rows[t], Filled(rows[t])) \cup {"opened"}
  <2>1. /\ mon[p].pc = "filling" /\ t \in mon[p].pend
        /\ mon' = [mon EXCEPT ![p] = [pc |-> "writing", open |-> {}, pend |-> @.pend \ {t}, order |-> t,
                                     cols |-> cols]]
        /\ UNCHANGED <<rows, req, seen, alerts, marketOpen>>
    BY <1>3 DEF FillMerge
  <2>2. rows[t] \in Row /\ Filled(rows[t]) \in Row /\ Filled(rows[t]).status = "open"
    BY <1>0, FilledRow
  <2>3. cols \subseteq Columns /\ (rows[t].status = "pending" => "status" \in cols)
    BY <2>2, ChangedColumns DEF Columns
  <2>4. Queued(rows[t]) /\ rows[t].status # "none"
    BY <2>1 DEF MonSound
  <2> HIDE DEF cols
  <2>5. TypeOK'
    BY <1>0, <2>1, <2>3 DEF TypeOK
  <2>6. MonSound'
    BY <1>0, <2>1, <2>3, <2>4 DEF MonSound
  <2> QED
    BY <2>1, <2>5, <2>6 DEF RowSound, AlertOnce, ReqSound
<1>4. CASE FillCommit(p)
  <2> DEFINE t == mon[p].order
             new == Flushed(rows[t], Filled(rows[t]), mon[p].cols)
  <2>1. /\ mon[p].pc = "writing"
        /\ rows' = [rows EXCEPT ![t] = new]
        /\ mon' = [mon EXCEPT ![p] = Pass("filling", {}, mon[p].pend)]
        /\ UNCHANGED <<req, seen, alerts, marketOpen>>
    BY <1>4 DEF FillCommit
  <2>2. /\ t \in Trades /\ Queued(rows[t]) /\ rows[t].status # "none"
        /\ rows[t].status = "pending" => "status" \in mon[p].cols
    BY <2>1 DEF MonSound
  <2>3. rows[t] \in Row /\ Filled(rows[t]) \in Row /\ Filled(rows[t]).status = "open"
    BY <1>0, <2>2, FilledRow
  <2>4. /\ new \in Row /\ new.terms = rows[t].terms
        /\ new.status = IF "status" \in mon[p].cols THEN "open" ELSE rows[t].status
    BY <2>3, FlushedRow
  <2> HIDE DEF new
  <2>5. /\ rows' \in [Trades -> Row] /\ rows'[t] = new
        /\ \A u \in Trades \ {t} : rows'[u] = rows[u]
    BY <1>0, <2>1, <2>2, <2>4
  <2>6. new.status \notin {"none", "pending"}
    BY <2>2, <2>4
  <2>7. ~Market(new) /\ ~Market(rows[t])
    BY <2>2, <2>4 DEF Market, Queued
  <2>8. \A u \in Trades : RowNext(rows[u], rows'[u])
    BY <2>4, <2>5, <2>6, <2>7 DEF RowNext
  <2>9. RowSound'
    BY <2>5, <2>6, <2>7 DEF RowSound
  <2>10. ReqSound'
    BY <2>1, <2>8, KeepReqSound
  <2>11. /\ \A q \in Schedulers : mon'[q].pend \subseteq mon[q].pend
         /\ \A q \in Schedulers : mon'[q].pc = "writing" => mon'[q] = mon[q]
    BY <1>0, <2>1 DEF IdlePass, Pass
  <2>12. MonSound'
    BY <1>0, <2>8, <2>11, KeepMonSound
  <2>13. TypeOK'
    BY <1>0, <2>1, <2>5 DEF TypeOK, IdlePass, Pass
  <2> QED
    BY <2>1, <2>9, <2>10, <2>12, <2>13 DEF AlertOnce
<1> QED
  BY <1>1, <1>2, <1>3, <1>4

LEMMA EnvironmentInv ==
  ASSUME Inv, Environment
  PROVE  Inv'
<1> USE DEF Inv
<1>1. CASE MarketTurns
  BY <1>1 DEF MarketTurns, TypeOK, RowSound, AlertOnce, ReqSound, MonSound
<1>2. ASSUME NEW p \in Workers, Restart(p)
      PROVE  Inv'
  <2>1. TypeOK'
    BY <1>2 DEF Restart, TypeOK, IdlePass, Pass, NoAlert
  <2>2. AlertOnce'
    BY <1>2 DEF Restart, TypeOK, AlertOnce, NoAlert
  <2>3. MonSound'
    BY <1>2 DEF Restart, MonSound, IdlePass, Pass
  <2> QED
    BY <1>2, <2>1, <2>2, <2>3 DEF Restart, RowSound, ReqSound
<1> QED
  BY <1>1, <1>2 DEF Environment

LEMMA StutterInv == Inv /\ UNCHANGED vars => Inv'
BY DEF Inv, vars, TypeOK, RowSound, AlertOnce, ReqSound, MonSound

LEMMA NextInv == Inv /\ [Next]_vars => Inv'
BY PlaceInv, RequestInv, AlertInv, MonitorInv, EnvironmentInv, StutterInv
   DEF Next, Handlers

LEMMA Invariance == Spec => []Inv
BY InitInv, NextInv, PTL DEF Spec

-----------------------------------------------------------------------------
\* Every variable keeps its shape, with any number of schedulers.
THEOREM TypeCorrect == Spec => []TypeOK
<1>1. Inv => TypeOK
  BY DEF Inv
<1> QED
  BY <1>1, Invariance, PTL

\* A trade placed at the market is open without an exit price or closed with one,
\* and has its opening stamp, under every interleaving of stale copies and of any
\* number of monitors: no cancel and no fill ever reaches it.
MarketRowCoherent ==
  \A t \in Trades :
     Market(rows[t]) => /\ rows[t].status \in {"open", "closed"}
                        /\ rows[t].opened
                        /\ rows[t].exit = None <=> rows[t].status = "open"

THEOREM MarketRowsCoherent == Spec => []MarketRowCoherent
<1>1. Inv => MarketRowCoherent
  BY DEF Inv, RowSound, MarketRowCoherent
<1> QED
  BY <1>1, Invariance, PTL

\* No process ever holds two alerts for the same event of the same trade.
THEOREM AlertsOnce == Spec => []AlertOnce
<1>1. Inv => AlertOnce
  BY DEF Inv
<1> QED
  BY <1>1, Invariance, PTL

\* An alert the user cleared does not return while the process lives.
THEOREM ClearedStays == Spec => ClearedStaysCleared
<1> DEFINE Gone(p, k)  == alerts[p][k] = NoAlert => alerts'[p][k] = NoAlert
           Fresh(p)    == \A j \in Keys : j \notin seen'[p] /\ alerts'[p][j] = NoAlert
           Keeps       == \A p \in Workers, k \in Keys :
                            k \in seen[p] => Gone(p, k) /\ (k \notin seen'[p] => Fresh(p))
<1>1. Inv /\ [Next]_vars => [Keeps]_vars
  <2> SUFFICES ASSUME Inv, Next, NEW p \in Workers, NEW k \in Keys, k \in seen[p]
               PROVE  Gone(p, k) /\ (k \notin seen'[p] => Fresh(p))
    OBVIOUS
  <2>1. /\ alerts \in [Workers -> [Keys -> [fresh : Nat, acked : Nat]]]
        /\ seen \in [Workers -> SUBSET Keys]
    BY DEF Inv, TypeOK
  <2>2. ASSUME NEW q \in Workers, NEW j \in Keys, AckAlert(q, j) \/ ClearAlert(q, j)
        PROVE  Gone(p, k) /\ k \in seen'[p]
    <3>1. alerts[q][j].fresh > 0 \/ alerts[q][j].acked > 0
      BY <2>2 DEF AckAlert, ClearAlert
    <3>2. ASSUME alerts[p][k] = NoAlert
          PROVE  alerts'[p][k] = NoAlert
      <4>1. ~(q = p /\ j = k)
        BY <3>1, <3>2 DEF NoAlert
      <4> QED
        BY <2>1, <2>2, <3>2, <4>1 DEF AckAlert, ClearAlert
    <3> QED
      BY <2>2, <3>2 DEF AckAlert, ClearAlert
  <2>3. ASSUME NEW q \in Schedulers, NEW quote \in Quotes, CheckPrices(q, quote)
        PROVE  Gone(p, k) /\ k \in seen'[p]
    <3>1. k \notin Fired(q, quote) \ seen[p]
      OBVIOUS
    <3>2. q \in Workers
      BY SchedulersAssumption
    <3>3. k \in seen'[p]
      BY <2>1, <2>3, <3>2 DEF CheckPrices
    <3>4. Gone(p, k)
      BY <2>1, <2>3, <3>1, <3>2 DEF CheckPrices
    <3> QED
      BY <3>3, <3>4
  <2>4. ASSUME NEW q \in Workers, Restart(q)
        PROVE  Gone(p, k) /\ (k \notin seen'[p] => Fresh(p))
    <3>1. CASE q = p
      <4>1. \A j \in Keys : j \notin seen'[p] /\ alerts'[p][j] = NoAlert
        BY <2>1, <2>4, <3>1 DEF Restart
      <4> QED
        BY <4>1
    <3>2. CASE q # p
      BY <2>1, <2>4, <3>2 DEF Restart
    <3> QED
      BY <3>1, <3>2
  <2>5. CASE UNCHANGED <<seen, alerts>>
    BY <2>5
  <2> QED
    BY <2>2, <2>3, <2>4, <2>5
       DEF Next, Handlers, Monitor, Environment, PlaceMarket, PlaceLimit, CloseRead, CancelRead,
           Holds, CloseMerge, CancelMerge, Merges, Commit, RequestFails, ListAllOpen,
           ListAllPending, FillMerge, FillCommit, PassEnds, PassFails, MarketTurns
<1>2. Inv /\ [Next]_vars =>
        [\A p \in Workers, k \in Keys : k \in seen[p] =>
           /\ alerts[p][k] = NoAlert => alerts'[p][k] = NoAlert
           /\ k \notin seen'[p] => \A j \in Keys : j \notin seen'[p] /\ alerts'[p][j] = NoAlert]_vars
  BY <1>1
<1> QED
  BY <1>2, Invariance, PTL DEF Spec, ClearedStaysCleared

-----------------------------------------------------------------------------
(* One scheduler.                                                          *)

\* Nobody but this pass fills the orders it has in hand: each still waits, or was
\* cancelled while it waited, and nobody is closing it.
Fresh(t) ==
  /\ rows[t].status \in {"pending", "cancelled"}
  /\ ~rows[t].opened
  /\ rows[t].exit = None
  /\ \A r \in Requests : req[r].trade = t =>
        /\ req[r].pc # "closing"
        /\ req[r].pc = "writing" => req[r].copy.status = "cancelled" /\ req[r].cols \subseteq {"status"}

PassSound ==
  \A p \in Schedulers :
     /\ \A t \in mon[p].pend : Fresh(t)
     /\ mon[p].pc = "writing" => /\ Fresh(mon[p].order)
                                 /\ mon[p].order \notin mon[p].pend
                                 /\ {"status", "opened"} \subseteq mon[p].cols

\* An open row is whole, and whoever writes it next changes its status too.
OpenRow(t) ==
  rows[t].status = "open" =>
     /\ rows[t].opened
     /\ rows[t].exit = None
     /\ \A r \in Requests : req[r].trade = t /\ req[r].pc = "writing" =>
                               req[r].cols = {} \/ "status" \in req[r].cols

OpenSound == \A t \in Trades : OpenRow(t)

\* How a step may change a row.
Untouched(t) == rows'[t] = rows[t]

RowPlaced(old, new) == /\ old.status = "none" /\ old.exit = None
                       /\ new.status = "open" \/ (new.status = "pending" /\ Queued(new))
                       /\ new.status = "open" => Market(new)
RowFilled(old, new) == /\ old.status \in {"pending", "cancelled"} /\ old.exit = None
                       /\ Queued(old) /\ new.terms = old.terms /\ new.status = "open"
RowClosed(old, new) == /\ old.status \notin {"none", "pending"} /\ new.terms = old.terms
                       /\ new.status \in {"closed", old.status}
                       /\ old.exit # None => new.exit # None
RowVoided(old, new) == /\ Queued(old) /\ new.terms = old.terms
                       /\ new.status \in {"cancelled", old.status}

RowStep(t) == \/ Untouched(t)
              \/ RowPlaced(rows[t], rows'[t])
              \/ RowFilled(rows[t], rows'[t])
              \/ RowClosed(rows[t], rows'[t])
              \/ RowVoided(rows[t], rows'[t]) /\ CancelOnItsWay(t)

OneRow == \/ UNCHANGED rows
          \/ \E t \in Trades : RowStep(t) /\ \A u \in Trades \ {t} : Untouched(u)

LEMMA InitSingle == Init => PassSound /\ OpenSound
BY DEF Init, PassSound, OpenSound, OpenRow, IdlePass, Pass, NoRow

LEMMA ReadSingle ==
  ASSUME Inv, PassSound, OpenSound, NEW r \in Requests, NEW t \in Trades,
         CloseRead(r, t) \/ CancelRead(r, t)
  PROVE  PassSound' /\ OpenSound' /\ OneRow
<1>1. /\ UNCHANGED <<rows, mon>>
      /\ req'[r].trade = t /\ req'[r].pc \in {"closing", "cancelling"}
      /\ req'[r].pc = "closing" => rows[t].status = "open"
      /\ \A q \in Requests \ {r} : req'[q] = req[q]
  BY DEF CloseRead, CancelRead, Holds, Inv, TypeOK
<1>2. \A u : Fresh(u) => Fresh(u)'
  BY <1>1 DEF Fresh
<1>3. \A u \in Trades : OpenRow(u) => OpenRow(u)'
  BY <1>1 DEF OpenRow
<1>4. PassSound'
  BY <1>1, <1>2 DEF PassSound
<1> QED
  BY <1>1, <1>3, <1>4 DEF OpenSound, OneRow

LEMMA MergeSingle ==
  ASSUME Inv, PassSound, OpenSound, NEW r \in Requests, CloseMerge(r) \/ CancelMerge(r)
  PROVE  PassSound' /\ OpenSound' /\ OneRow
<1> DEFINE t == req[r].trade
<1>0. req[r].copy \in Row
  BY DEF Inv, TypeOK
<1>1. PICK copy :
        /\ Merges(r, copy)
        /\ \/ /\ req[r].pc = "closing" /\ copy.status = "closed" /\ copy \in Row
           \/ /\ req[r].pc = "cancelling" /\ copy.status = "cancelled" /\ copy \in Row
              /\ copy.opened = FALSE /\ copy.exit = None
  <2>1. CASE CloseMerge(r)
    <3>1. PICK price \in Prices :
            Merges(r, [req[r].copy EXCEPT !.status = "closed", !.exit = price])
      BY <2>1 DEF CloseMerge
    <3>2. /\ [req[r].copy EXCEPT !.status = "closed", !.exit = price] \in Row
          /\ [req[r].copy EXCEPT !.status = "closed", !.exit = price].status = "closed"
      BY <1>0 DEF Row, Status
    <3> QED
      BY <2>1, <3>1, <3>2 DEF CloseMerge
  <2>2. CASE CancelMerge(r)
    <3> DEFINE copy == [req[r].copy EXCEPT !.status = "cancelled"]
    <3>1. req[r].pc = "cancelling" /\ Merges(r, copy)
      BY <2>2 DEF CancelMerge
    <3>2. ~req[r].copy.opened /\ req[r].copy.exit = None
      BY <3>1 DEF Inv, ReqSound, CancellingSound
    <3>3. /\ copy \in Row /\ copy.status = "cancelled"
          /\ copy.opened = FALSE /\ copy.exit = None
      BY <1>0, <3>2 DEF Row, Status
    <3> HIDE DEF copy
    <3> QED
      BY <3>1, <3>3
  <2> QED
    BY <2>1, <2>2
<1>2. t \in Trades /\ rows[t] \in Row
  BY <1>1 DEF Inv, TypeOK, ReqSound
<1>3. /\ UNCHANGED <<rows, mon>>
      /\ req'[r].trade = t /\ req'[r].pc = "writing" /\ req'[r].copy = copy
      /\ req'[r].cols = Changed(rows[t], copy)
      /\ \A q \in Requests \ {r} : req'[q] = req[q]
  BY <1>1 DEF Merges, Inv, TypeOK
<1>4. /\ Changed(rows[t], copy) \subseteq Columns
      /\ "status" \in Changed(rows[t], copy) <=> rows[t].status # copy.status
      /\ "opened" \in Changed(rows[t], copy) <=> rows[t].opened # copy.opened
      /\ "exit" \in Changed(rows[t], copy) <=> rows[t].exit # copy.exit
  BY <1>1, <1>2, ChangedColumns
<1>5. ASSUME NEW u, Fresh(u)
      PROVE  Fresh(u)'
  <2>1. CASE u # t
    BY <1>3, <1>5, <2>1 DEF Fresh
  <2>2. CASE u = t
    <3>1. req[r].pc = "cancelling" /\ rows[t].opened = FALSE /\ rows[t].exit = None
      BY <1>1, <1>2, <1>5, <2>2 DEF Fresh, Row
    <3>2. Changed(rows[t], copy) \subseteq {"status"} /\ copy.status = "cancelled"
      BY <1>1, <1>4, <3>1 DEF Columns
    <3> QED
      BY <1>3, <1>5, <2>2, <3>2 DEF Fresh
  <2> QED
    BY <2>1, <2>2
<1>6. ASSUME NEW u \in Trades, OpenRow(u)
      PROVE  OpenRow(u)'
  BY <1>1, <1>3, <1>4, <1>6 DEF OpenRow
<1>7. PassSound'
  BY <1>3, <1>5 DEF PassSound
<1> QED
  BY <1>3, <1>6, <1>7 DEF OpenSound, OneRow

LEMMA CommitSingle ==
  ASSUME Inv, PassSound, OpenSound, NEW r \in Requests, Commit(r)
  PROVE  PassSound' /\ OpenSound' /\ OneRow
<1> DEFINE t == req[r].trade
           new == Flushed(rows[t], req[r].copy, req[r].cols)
<1>1. /\ req[r].pc = "writing" /\ t \in Trades /\ rows[t].status # "none"
      /\ rows[t] \in Row /\ req[r].copy \in Row
  BY DEF Commit, Inv, TypeOK, ReqSound
<1>2. \/ req[r].copy.status = "closed" /\ ClosedSound(req[r], rows[t])
      \/ req[r].copy.status = "cancelled" /\ CancelledSound(req[r], rows[t])
  BY <1>1 DEF Inv, ReqSound
<1>3. /\ new.terms = rows[t].terms
      /\ new.status = IF "status" \in req[r].cols THEN req[r].copy.status ELSE rows[t].status
      /\ new.opened = IF "opened" \in req[r].cols THEN req[r].copy.opened ELSE rows[t].opened
      /\ new.exit = IF "exit" \in req[r].cols THEN req[r].copy.exit ELSE rows[t].exit
  BY <1>1, FlushedRow
<1>4. rows' = [rows EXCEPT ![t] = new] /\ req' = [req EXCEPT ![r] = Idle] /\ mon' = mon
  BY DEF Commit
<1> HIDE DEF new
<1>5. /\ rows'[t] = new /\ \A u \in Trades \ {t} : Untouched(u)
      /\ req'[r].pc = "idle" /\ \A q \in Requests \ {r} : req'[q] = req[q]
  BY <1>1, <1>4 DEF Inv, TypeOK, Idle, Untouched
<1>6. ASSUME NEW u \in Trades, Fresh(u)
      PROVE  Fresh(u)'
  <2>1. CASE u # t
    BY <1>5, <1>6, <2>1 DEF Fresh, Untouched
  <2>2. CASE u = t
    <3>1. req[r].copy.status = "cancelled" /\ req[r].cols \subseteq {"status"}
      BY <1>1, <1>6, <2>2 DEF Fresh
    <3>2. /\ new.status \in {"pending", "cancelled"} /\ new.opened = rows[t].opened
          /\ new.exit = rows[t].exit
      BY <1>3, <1>6, <2>2, <3>1 DEF Fresh
    <3> QED
      BY <1>5, <1>6, <2>2, <3>2 DEF Fresh
  <2> QED
    BY <2>1, <2>2
<1>7. ASSUME NEW u \in Trades, OpenRow(u)
      PROVE  OpenRow(u)'
  <2>1. CASE u # t
    BY <1>5, <1>7, <2>1 DEF OpenRow, Untouched
  <2>2. CASE u = t /\ new.status # "open"
    BY <1>5, <2>2 DEF OpenRow
  <2>3. CASE u = t /\ new.status = "open"
    <3>1. "status" \notin req[r].cols /\ rows[t].status = "open"
      BY <1>2, <1>3, <2>3
    <3>2. req[r].cols = {}
      BY <1>1, <1>7, <2>3, <3>1 DEF OpenRow
    <3>3. new.opened = rows[t].opened /\ new.exit = rows[t].exit
      BY <1>3, <3>2
    <3> QED
      BY <1>5, <1>7, <2>3, <3>1, <3>3 DEF OpenRow
  <2> QED
    BY <2>1, <2>2, <2>3
<1>8. PassSound'
  <2>1. \A p \in Schedulers : mon[p].pend \subseteq Trades
    BY DEF Inv, TypeOK
  <2>2. \A p \in Schedulers : mon[p].pc = "writing" => mon[p].order \in Trades
    BY DEF Inv, MonSound
  <2> QED
    BY <1>4, <1>6, <2>1, <2>2 DEF PassSound
<1>9. RowStep(t)
  <2>1. CASE req[r].copy.status = "closed" /\ ClosedSound(req[r], rows[t])
    BY <1>3, <1>5, <2>1, NoneAssumption DEF RowStep, RowClosed, ClosedSound
  <2>2. CASE req[r].copy.status = "cancelled" /\ CancelledSound(req[r], rows[t])
    BY <1>1, <1>3, <1>5, <2>2 DEF RowStep, RowVoided, CancelledSound, CancelOnItsWay
  <2> QED
    BY <1>2, <2>1, <2>2
<1> QED
  BY <1>1, <1>5, <1>7, <1>8, <1>9 DEF OpenSound, OneRow

LEMMA FillSingle ==
  ASSUME SingleScheduler, Inv, PassSound, OpenSound, NEW p \in Schedulers,
         FillCommit(p) \/ \E t \in Trades : FillMerge(p, t)
  PROVE  PassSound' /\ OpenSound' /\ OneRow
<1>0. /\ rows \in [Trades -> Row]
      /\ mon \in [Schedulers -> [pc : {"idle", "listing", "quoting", "filling", "writing"},
                     open : SUBSET Trades, pend : SUBSET Trades,
                     order : Trades \cup {None}, cols : SUBSET Columns]]
      /\ \A q \in Schedulers : q = p
  BY DEF Inv, TypeOK, SingleScheduler
<1>1. ASSUME NEW t \in Trades, FillMerge(p, t)
      PROVE  PassSound' /\ OpenSound' /\ OneRow
  <2>1. /\ UNCHANGED <<rows, req>>
        /\ t \in mon[p].pend
        /\ mon'[p].pend = mon[p].pend \ {t} /\ mon'[p].order = t
        /\ mon'[p].cols = Changed(rows[t], Filled(rows[t])) \cup {"opened"}
    BY <1>0, <1>1 DEF FillMerge
  <2>2. Fresh(t)
    BY <2>1 DEF PassSound
  <2>3. {"status", "opened"} \subseteq mon'[p].cols
    <3>1. Filled(rows[t]) \in Row /\ Filled(rows[t]).status = "open" /\ Filled(rows[t]).opened
      BY <1>0, FilledRow
    <3>2. "status" \in Changed(rows[t], Filled(rows[t])) <=> rows[t].status # Filled(rows[t]).status
      BY <1>0, <3>1, ChangedColumns
    <3> QED
      BY <2>1, <2>2, <3>1, <3>2 DEF Fresh
  <2>4. \A u : Fresh(u) => Fresh(u)'
    BY <2>1 DEF Fresh
  <2>5. PassSound'
    BY <1>0, <2>1, <2>2, <2>3, <2>4 DEF PassSound
  <2> QED
    BY <2>1, <2>5 DEF OpenSound, OpenRow, OneRow
<1>2. CASE FillCommit(p)
  <2> PICK t \in Trades : t = mon[p].order
    BY <1>2 DEF FillCommit, Inv, MonSound
  <2> DEFINE new == Flushed(rows[t], Filled(rows[t]), mon[p].cols)
  <2>1. /\ mon[p].pc = "writing" /\ rows' = [rows EXCEPT ![t] = new] /\ req' = req
        /\ mon'[p].pend = mon[p].pend /\ mon'[p].pc = "filling"
    BY <1>0, <1>2 DEF FillCommit, Pass
  <2>2. t \in Trades /\ Fresh(t) /\ t \notin mon[p].pend /\ {"status", "opened"} \subseteq mon[p].cols
    BY <2>1 DEF PassSound, Inv, MonSound
  <2>3. Queued(rows[t])
    BY <2>1 DEF Inv, MonSound
  <2>4. /\ rows[t] \in Row /\ Filled(rows[t]) \in Row
        /\ Filled(rows[t]).status = "open" /\ Filled(rows[t]).opened /\ Filled(rows[t]).exit = None
    BY <1>0, FilledRow
  <2>5. /\ new.terms = rows[t].terms
        /\ new.status = IF "status" \in mon[p].cols THEN Filled(rows[t]).status ELSE rows[t].status
        /\ new.opened = IF "opened" \in mon[p].cols THEN Filled(rows[t]).opened ELSE rows[t].opened
        /\ new.exit = IF "exit" \in mon[p].cols THEN Filled(rows[t]).exit ELSE rows[t].exit
    <3>1. PICK copy \in Row : copy = Filled(rows[t])
      BY <2>4
    <3>2. /\ Flushed(rows[t], copy, mon[p].cols).terms = rows[t].terms
          /\ Flushed(rows[t], copy, mon[p].cols).status
               = IF "status" \in mon[p].cols THEN copy.status ELSE rows[t].status
          /\ Flushed(rows[t], copy, mon[p].cols).opened
               = IF "opened" \in mon[p].cols THEN copy.opened ELSE rows[t].opened
          /\ Flushed(rows[t], copy, mon[p].cols).exit
               = IF "exit" \in mon[p].cols THEN copy.exit ELSE rows[t].exit
      BY <2>4, FlushedRow
    <3> QED
      BY <3>1, <3>2
  <2> HIDE DEF new
  <2>6. rows'[t] = new /\ \A u \in Trades \ {t} : Untouched(u)
    BY <1>0, <2>1, <2>2 DEF Untouched
  <2>7. new.status = "open" /\ new.opened /\ new.exit = None
    BY <2>2, <2>4, <2>5 DEF Fresh
  <2>8. \A u \in Trades \ {t} : Fresh(u) => Fresh(u)'
    BY <2>1, <2>6 DEF Fresh, Untouched
  <2>9. PassSound'
    BY <1>0, <2>1, <2>2, <2>8 DEF PassSound
  <2>10. \A u \in Trades \ {t} : OpenRow(u) => OpenRow(u)'
    BY <2>1, <2>6 DEF OpenRow, Untouched
  <2>11. OpenRow(t)'
    BY <2>1, <2>2, <2>6, <2>7 DEF OpenRow, Fresh
  <2>12. RowStep(t)
    BY <2>2, <2>3, <2>5, <2>6, <2>7 DEF RowStep, RowFilled, Fresh
  <2> QED
    BY <2>2, <2>6, <2>9, <2>10, <2>11, <2>12 DEF OpenSound, OneRow
<1> QED
  BY <1>1, <1>2

LEMMA StepSingle ==
  ASSUME SingleScheduler, Inv, PassSound, OpenSound, [Next]_vars
  PROVE  PassSound' /\ OpenSound' /\ OneRow
<1>0. /\ rows \in [Trades -> Row]
      /\ mon \in [Schedulers -> [pc : {"idle", "listing", "quoting", "filling", "writing"},
                     open : SUBSET Trades, pend : SUBSET Trades,
                     order : Trades \cup {None}, cols : SUBSET Columns]]
  BY DEF Inv, TypeOK
<1>1. ASSUME NEW t \in Trades, PlaceMarket(t) \/ PlaceLimit(t)
      PROVE  PassSound' /\ OpenSound' /\ OneRow
  <2>1. /\ rows[t].status = "none" /\ rows[t].exit = None
        /\ UNCHANGED <<req, mon>>
        /\ \A u \in Trades \ {t} : Untouched(u)
    BY <1>0, <1>1 DEF PlaceMarket, PlaceLimit, Untouched, Inv, RowSound
  <2>2. /\ rows'[t].exit = None
        /\ \/ rows'[t].status = "open" /\ rows'[t].opened /\ Market(rows'[t])
           \/ rows'[t].status = "pending" /\ Queued(rows'[t])
    BY <1>0, <1>1 DEF PlaceMarket, PlaceLimit, Market, Queued
  <2>3. \A u \in Trades : Fresh(u) => Fresh(u)'
    BY <2>1 DEF Fresh, Untouched
  <2>4. \A r \in Requests : req[r].pc # "idle" => req[r].trade # t
    BY <2>1 DEF Inv, ReqSound
  <2>5. \A u \in Trades : OpenRow(u)'
    BY <2>1, <2>2, <2>4 DEF OpenSound, OpenRow, Untouched
  <2>6. PassSound'
    <3>1. \A p \in Schedulers : mon[p].pend \subseteq Trades
      BY <1>0
    <3>2. \A p \in Schedulers : mon[p].pc = "writing" => mon[p].order \in Trades
      BY DEF Inv, MonSound
    <3> QED
      BY <2>1, <2>3, <3>1, <3>2 DEF PassSound
  <2>7. RowStep(t)
    BY <2>1, <2>2 DEF RowStep, RowPlaced
  <2> QED
    BY <2>1, <2>5, <2>6, <2>7 DEF OpenSound, OneRow
<1>2. ASSUME NEW r \in Requests, RequestFails(r)
      PROVE  PassSound' /\ OpenSound' /\ OneRow
  <2>1. /\ UNCHANGED <<rows, mon>> /\ req'[r] = Idle
        /\ \A q \in Requests \ {r} : req'[q] = req[q]
    BY <1>2 DEF RequestFails, Inv, TypeOK
  <2>2. \A u : Fresh(u) => Fresh(u)'
    BY <2>1 DEF Fresh, Idle
  <2>3. \A u \in Trades : OpenRow(u) => OpenRow(u)'
    BY <2>1 DEF OpenRow, Idle
  <2>4. PassSound'
    BY <2>1, <2>2 DEF PassSound
  <2> QED
    BY <2>1, <2>3, <2>4 DEF OpenSound, OneRow
<1>3. ASSUME NEW p \in Schedulers, ListAllPending(p)
      PROVE  PassSound' /\ OpenSound' /\ OneRow
  <2>1. /\ UNCHANGED <<rows, req>>
        /\ \A t \in mon'[p].pend : rows[t].status = "pending" /\ t \in Trades
        /\ mon'[p].pc # "writing"
        /\ \A q \in Schedulers \ {p} : mon'[q] = mon[q]
    BY <1>0, <1>3 DEF ListAllPending, IdlePass, Pass
  <2>2. ASSUME NEW t \in Trades, rows[t].status = "pending"
        PROVE  Fresh(t)
    <3>1. ~rows[t].opened /\ rows[t].exit = None
      BY <2>2 DEF Inv, RowSound
    <3>2. ASSUME NEW r \in Requests, req[r].trade = t
          PROVE  /\ req[r].pc # "closing"
                 /\ req[r].pc = "writing" => req[r].copy.status = "cancelled"
                                             /\ req[r].cols \subseteq {"status"}
      BY <2>2, <3>2 DEF Inv, ReqSound, ClosingSound, ClosedSound, CancelledSound
    <3> QED
      BY <2>2, <3>1, <3>2 DEF Fresh
  <2>3. \A u : Fresh(u) => Fresh(u)'
    BY <2>1 DEF Fresh
  <2>4. PassSound'
    BY <2>1, <2>2, <2>3 DEF PassSound
  <2> QED
    BY <2>1, <2>4 DEF OpenSound, OpenRow, OneRow
<1>4. ASSUME UNCHANGED <<rows, req>>,
             \A p \in Schedulers : /\ mon'[p].pend \subseteq mon[p].pend
                                   /\ mon'[p].pc = "writing" => mon'[p] = mon[p]
      PROVE  PassSound' /\ OpenSound' /\ OneRow
  <2>1. \A u : Fresh(u) => Fresh(u)'
    BY <1>4 DEF Fresh
  <2>2. PassSound'
    BY <1>4, <2>1 DEF PassSound
  <2> QED
    BY <1>4, <2>2 DEF OpenSound, OpenRow, OneRow
<1>5. ASSUME NEW p \in Schedulers,
             \/ ListAllOpen(p) \/ PassEnds(p) \/ PassFails(p)
             \/ \E quote \in Quotes : CheckPrices(p, quote)
      PROVE  PassSound' /\ OpenSound' /\ OneRow
  <2>1. /\ UNCHANGED <<rows, req>>
        /\ \A q \in Schedulers : /\ mon'[q].pend \subseteq mon[q].pend
                                 /\ mon'[q].pc = "writing" => mon'[q] = mon[q]
    BY <1>0, <1>5 DEF ListAllOpen, PassEnds, PassFails, CheckPrices, Due, IdlePass, Pass
  <2> QED
    BY <1>4, <2>1
<1>6. ASSUME NEW p \in Workers, Restart(p)
      PROVE  PassSound' /\ OpenSound' /\ OneRow
  <2>1. /\ UNCHANGED <<rows, req>>
        /\ \A q \in Schedulers : /\ mon'[q].pend \subseteq mon[q].pend
                                 /\ mon'[q].pc = "writing" => mon'[q] = mon[q]
    BY <1>0, <1>6 DEF Restart, IdlePass, Pass
  <2> QED
    BY <1>4, <2>1
<1>7. CASE UNCHANGED <<rows, req, mon>>
  BY <1>4, <1>7
<1> QED
  BY <1>1, <1>2, <1>3, <1>5, <1>6, <1>7, ReadSingle, MergeSingle, CommitSingle, FillSingle
     DEF Next, Handlers, Monitor, Environment, AckAlert, ClearAlert, MarketTurns, vars

LEMMA SingleInvariance == SingleScheduler => (Spec => [](Inv /\ PassSound /\ OpenSound))
<1> SUFFICES ASSUME SingleScheduler PROVE Spec => [](Inv /\ PassSound /\ OpenSound)
  OBVIOUS
<1>1. Inv /\ PassSound /\ OpenSound /\ [Next]_vars => (Inv /\ PassSound /\ OpenSound)'
  BY NextInv, StepSingle
<1> QED
  BY <1>1, InitInv, InitSingle, PTL DEF Spec

\* With one scheduler, status, opened_at and exit_price of a row agree as far as
\* its readers rely on it, whatever stale copies are merged and committed.
THEOREM RowsCoherent == SingleScheduler => (Spec => []RowCoherent)
<1> SUFFICES ASSUME SingleScheduler PROVE Spec => []RowCoherent
  OBVIOUS
<1>1. Inv /\ OpenSound => RowCoherent
  BY DEF Inv, RowSound, OpenSound, OpenRow, RowCoherent
<1> QED
  BY <1>1, SingleInvariance, PTL

\* With one scheduler a closed trade does not turn open again, and a result is erased by
\* nothing but a cancel that read its LIMIT order waiting.
THEOREM ResultsKept == SingleScheduler => (Spec => ResultKept)
<1> SUFFICES ASSUME SingleScheduler PROVE Spec => ResultKept
  OBVIOUS
<1> DEFINE Keeps == \A t \in Trades :
              /\ rows[t].status = "closed" => rows'[t].status \in {"closed", "cancelled"}
              /\ rows[t].exit # None /\ rows'[t].exit = None =>
                    CancelOnItsWay(t) /\ ~Market(rows[t])
<1>1. Inv /\ PassSound /\ OpenSound /\ [Next]_vars => [Keeps]_vars
  <2> SUFFICES ASSUME Inv, PassSound, OpenSound, [Next]_vars, NEW t \in Trades
               PROVE  /\ rows[t].status = "closed" => rows'[t].status \in {"closed", "cancelled"}
                      /\ rows[t].exit # None /\ rows'[t].exit = None =>
                            CancelOnItsWay(t) /\ ~Market(rows[t])
    OBVIOUS
  <2>1. Untouched(t) \/ RowStep(t)
    BY StepSingle DEF OneRow, Untouched
  <2> QED
    BY <2>1 DEF RowStep, RowPlaced, RowFilled, RowClosed, RowVoided, Untouched, Market, Queued
<1> QED
  BY <1>1, SingleInvariance, PTL DEF Spec, ResultKept

\* With one scheduler the trades table implements the ledger: what is placed at
\* the market runs once and settles for good; only what was queued for a limit is
\* ever voided.
THEOREM ImplementsLedger == SingleScheduler => (Spec => LedgerSpec)
<1> SUFFICES ASSUME SingleScheduler PROVE Spec => LedgerSpec
  OBVIOUS
<1> DEFINE ph == [t \in Trades |-> Phase(rows[t])]
           qd == {t \in Trades : Queued(rows[t])}
<1>1. Init => Ledger!Init
  <2> SUFFICES ASSUME Init PROVE Ledger!Init
    OBVIOUS
  <2>1. \A t \in Trades : Phase(rows[t]) = "absent" /\ ~Queued(rows[t])
    BY DEF Init, NoRow, Phase, Queued
  <2> QED
    BY <2>1 DEF Ledger!Init
<1>2. Inv /\ PassSound /\ OpenSound /\ [Next]_vars => [Ledger!Next]_<<ph, qd>>
  <2> SUFFICES ASSUME Inv, PassSound, OpenSound, [Next]_vars, <<ph, qd>>' # <<ph, qd>>
               PROVE  Ledger!Next
    OBVIOUS
  <2>1. PICK t \in Trades : RowStep(t) /\ \A u \in Trades \ {t} : Untouched(u)
    BY StepSingle DEF OneRow
  <2>2. ph' = [ph EXCEPT ![t] = Phase(rows'[t])]
    BY <2>1 DEF Untouched
  <2>3. \A u \in Trades \ {t} : Queued(rows'[u]) <=> Queued(rows[u])
    BY <2>1 DEF Untouched, Queued
  <2>4. ph[t] = Phase(rows[t])
    OBVIOUS
  <2>5. /\ rows[t].status = "none" => ph[t] = "absent"
        /\ rows[t].status \in {"pending", "cancelled"} => ph[t] \in {"waiting", "void"}
        /\ rows[t].status \in {"open", "cancelled"} => ph[t] \in {"running", "void"}
        /\ Queued(rows[t]) => t \in qd
    BY <2>4 DEF Phase
  <2>6. CASE RowPlaced(rows[t], rows'[t]) /\ rows'[t].status = "open"
    <3>1. ph' = [ph EXCEPT ![t] = "running"]
      BY <2>2, <2>6 DEF Phase
    <3>2. ~Queued(rows[t]) /\ ~Queued(rows'[t])
      BY <2>6 DEF RowPlaced, Queued, Market
    <3>3. qd' = qd
      BY <2>3, <3>2
    <3>4. ph[t] = "absent"
      BY <2>5, <2>6 DEF RowPlaced
    <3>5. Ledger!Place(t)
      BY <3>1, <3>3, <3>4 DEF Ledger!Place
    <3> QED
      BY <3>5 DEF Ledger!Next
  <2>7. CASE RowPlaced(rows[t], rows'[t]) /\ rows'[t].status = "pending"
    <3>1. ph' = [ph EXCEPT ![t] = "waiting"]
      BY <2>2, <2>7 DEF Phase
    <3>2. Queued(rows'[t])
      BY <2>7 DEF RowPlaced
    <3>3. qd' = qd \cup {t}
      BY <2>3, <3>2
    <3>4. ph[t] = "absent"
      BY <2>5, <2>7 DEF RowPlaced
    <3>5. Ledger!Queue(t)
      BY <3>1, <3>3, <3>4 DEF Ledger!Queue
    <3> QED
      BY <3>5 DEF Ledger!Next
  <2>8. ASSUME rows[t].status # "none", rows'[t].status # "none",
               rows'[t].terms = rows[t].terms
        PROVE  qd' = qd
    <3>1. Queued(rows'[t]) <=> Queued(rows[t])
      BY <2>8 DEF Queued
    <3> QED
      BY <2>3, <3>1
  <2>9. CASE RowFilled(rows[t], rows'[t])
    <3>1. ph' = [ph EXCEPT ![t] = "running"]
      BY <2>2, <2>9 DEF RowFilled, Phase
    <3>2. qd' = qd
      BY <2>8, <2>9 DEF RowFilled
    <3>3. t \in qd /\ ph[t] \in {"waiting", "void"}
      BY <2>5, <2>9 DEF RowFilled
    <3>4. Ledger!Fill(t)
      BY <3>1, <3>2, <3>3 DEF Ledger!Fill
    <3> QED
      BY <3>4 DEF Ledger!Next
  <2>10. ASSUME rows'[t].status = rows[t].status, qd' = qd
         PROVE  FALSE
    <3>1. Phase(rows'[t]) = ph[t]
      BY <2>4, <2>10 DEF Phase
    <3>2. ph' = ph
      BY <2>2, <3>1
    <3> QED
      BY <2>10, <3>2
  <2>11. CASE RowClosed(rows[t], rows'[t])
    <3>1. qd' = qd
      BY <2>8, <2>11 DEF RowClosed
    <3>2. rows'[t].status = "closed" /\ rows[t].status # "closed"
      BY <2>10, <2>11, <3>1 DEF RowClosed
    <3>3. ph' = [ph EXCEPT ![t] = "settled"]
      BY <2>2, <3>2 DEF Phase
    <3>4. rows[t].status \in {"open", "cancelled"}
      BY <2>11, <3>2 DEF RowClosed, Inv, TypeOK, Row, Status
    <3>5. Ledger!Settle(t)
      BY <2>5, <3>1, <3>3, <3>4 DEF Ledger!Settle
    <3> QED
      BY <3>5 DEF Ledger!Next
  <2>12. CASE RowVoided(rows[t], rows'[t])
    <3>1. rows[t].status # "none" /\ t \in qd
      BY <2>5, <2>12 DEF RowVoided, Queued
    <3>2. qd' = qd
      BY <2>8, <2>12, <3>1 DEF RowVoided
    <3>3. rows'[t].status = "cancelled"
      BY <2>10, <2>12, <3>2 DEF RowVoided
    <3>4. ph' = [ph EXCEPT ![t] = "void"]
      BY <2>2, <3>3 DEF Phase
    <3>5. Ledger!Void(t)
      BY <3>1, <3>2, <3>4 DEF Ledger!Void
    <3> QED
      BY <3>5 DEF Ledger!Next
  <2>13. CASE Untouched(t)
    <3>1. qd' = qd
      BY <2>3, <2>13 DEF Untouched
    <3> QED
      BY <2>10, <2>13, <3>1 DEF Untouched
  <2> QED
    BY <2>1, <2>6, <2>7, <2>9, <2>11, <2>12, <2>13 DEF RowStep, RowPlaced
<1> QED
  BY <1>1, <1>2, SingleInvariance, PTL DEF Spec, LedgerSpec, Ledger!Spec
=============================================================================
