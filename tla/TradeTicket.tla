---------------------------- MODULE TradeTicket ----------------------------
(***************************************************************************)
(* Quick Trade (app/trade/trade-view.tsx): the user picks a stock, the     *)
(* page shows its quote and the AI recommendation and offers a ticket      *)
(* whose symbol is the quote's and which an effect fills with the          *)
(* recommendation's side, stop and target.  Picking another stock leaves   *)
(* the requests of the previous one in flight; quotes and recommendations  *)
(* seen before are kept in two maps of the module, which outlive the page. *)
(*                                                                         *)
(* A quote is abstracted to the stock it is about, a recommendation to its *)
(* stock and signal, the stop and target of a ticket to the stock they are *)
(* of and the side they fit.                                               *)
(***************************************************************************)
EXTENDS Browser

CONSTANT Stocks

ASSUME StocksAssumption == None \notin Stocks

VARIABLES
  selected,      \* the stock picked last (selectedSymbolRef)
  quoted,        \* the quote in the page's state
  recommended,   \* the recommendation in the page's state
  loadingQuote,
  ticket,        \* the state of the ticket, None while none is on screen
  quotesKept,    \* _quoteCache: the stocks it holds
  recsKept,      \* _recCache: per stock the signal it holds
  asked          \* requests in flight: [what, stock, mount]

ticketVars ==
  <<selected, quoted, recommended, loadingQuote, ticket, quotesKept, recsKept, asked>>

Sides == {"BUY", "SELL"}
Signals == Sides \cup {"HOLD"}
Recs == [stock : Stocks, signal : Signals]
Tickets == [side : Sides, levels : Sides, of : Stocks]
Asked == [what : {"quote", "rec"}, stock : Stocks, mount : Mounts]

ASSUME TicketsAssumption == None \notin Tickets

TicketInit ==
  /\ selected = None /\ quoted = None /\ recommended = None
  /\ loadingQuote = FALSE
  /\ ticket = None
  /\ quotesKept = {} /\ recsKept = [s \in Stocks |-> None]
  /\ asked = {}

TicketOpens == page = "trade" /\ Opening /\ UNCHANGED ticketVars

\* The state goes with the component; the maps and the requests stay.
TicketLeaves ==
  /\ page = "trade"
  /\ Closing
  /\ selected' = None /\ quoted' = None /\ recommended' = None
  /\ loadingQuote' = FALSE
  /\ ticket' = None
  /\ UNCHANGED <<quotesKept, recsKept, asked>>

\* selected && !loadingQuote && quote: the ticket is on screen
TicketShown == selected # None /\ ~loadingQuote /\ quoted # None

\* The effect: side and levels of a recommendation to trade; else the levels of a
\* BUY around the quote, and the side stays.
Filled(side, q, rec) ==
  IF rec # None /\ rec.signal \in Sides
    THEN [side |-> rec.signal, levels |-> rec.signal, of |-> rec.stock]
    ELSE [side |-> side, levels |-> "BUY", of |-> q]

\* Rendering: a ticket that comes on screen is a BUY before the effect, which runs
\* then and whenever the recommendation or the price is another one.
Render(changed) ==
  ticket' = IF ~TicketShown' THEN None
            ELSE IF ticket = None THEN Filled("BUY", quoted', recommended')
            ELSE IF changed THEN Filled(ticket.side, quoted', recommended')
            ELSE ticket

\* handleSelect: a search result, a watch list row, the deep link, or Retry.
\* What the maps hold is shown at once, and both are asked for again.  Without a
\* token nothing can be found to select.
Select(s) ==
  /\ page = "trade"
  /\ token # 0
  /\ Clicking
  /\ selected' = s
  /\ quoted' = IF s \in quotesKept THEN s ELSE None
  /\ recommended' = IF recsKept[s] = None THEN None ELSE [stock |-> s, signal |-> recsKept[s]]
  /\ loadingQuote' = (s \notin quotesKept)
  /\ \E newer \in BOOLEAN : Render(newer \/ s # selected \/ recommended' # recommended)
  /\ asked' = asked \cup {[what |-> w, stock |-> s, mount |-> mount] : w \in {"quote", "rec"}}
  /\ UNCHANGED <<quotesKept, recsKept>>

\* A click on one of the ticket's two sides.
PickSide(side) ==
  /\ page = "trade"
  /\ ticket # None
  /\ Clicking
  /\ ticket' = [ticket EXCEPT !.side = side]
  /\ UNCHANGED <<selected, quoted, recommended, loadingQuote, quotesKept, recsKept, asked>>

\* Mutant: whatever arrives is shown.
ShowsAny(a) == Alive(a.mount)

\* selectedSymbolRef.current === r.symbol, in a component that is on screen
Shows(a) == Alive(a.mount) /\ selected = a.stock

\* A quote comes, with the price it had or with another one.
QuoteComes(a) ==
  /\ a \in asked
  /\ a.what = "quote"
  /\ asked' = asked \ {a}
  /\ quotesKept' = quotesKept \cup {a.stock}
  /\ quoted' = IF Shows(a) THEN a.stock ELSE quoted
  /\ loadingQuote' = (loadingQuote /\ ~Alive(a.mount))
  /\ UNCHANGED <<selected, recommended, recsKept, browserVars>>
  /\ \E moved \in BOOLEAN : Render(moved /\ Shows(a))

RecComes(a, signal) ==
  /\ a \in asked
  /\ a.what = "rec"
  /\ asked' = asked \ {a}
  /\ recsKept' = [recsKept EXCEPT ![a.stock] = signal]
  /\ recommended' = IF Shows(a) THEN [stock |-> a.stock, signal |-> signal] ELSE recommended
  /\ UNCHANGED <<selected, quoted, loadingQuote, quotesKept, browserVars>>
  /\ Render(Shows(a))

\* Either fails: the quote's loading flag falls, whichever stock it was for.
AskedFails(a) ==
  /\ a \in asked
  /\ Fail
  /\ asked' = asked \ {a}
  /\ loadingQuote' = (loadingQuote /\ ~(a.what = "quote" /\ Alive(a.mount)))
  /\ UNCHANGED <<selected, quoted, recommended, quotesKept, recsKept>>
  /\ Render(FALSE)

TicketNext ==
  \/ TicketOpens \/ TicketLeaves
  \/ \E s \in Stocks : Select(s)
  \/ \E side \in Sides : PickSide(side)
  \/ \E a \in Asked :
       \/ QuoteComes(a) \/ AskedFails(a)
       \/ \E signal \in Signals : RecComes(a, signal)

TicketTypeOK ==
  /\ selected \in Stocks \cup {None}
  /\ quoted \in Stocks \cup {None}
  /\ recommended \in Recs \cup {None}
  /\ loadingQuote \in BOOLEAN
  /\ quotesKept \subseteq Stocks
  /\ ticket \in Tickets \cup {None}
  /\ recsKept \in [Stocks -> Signals \cup {None}]
  /\ asked \subseteq Asked

\* A ticket on screen is for the stock that was picked, and so are the stop and
\* target it holds; they are those of a SELL only when that stock's recommendation
\* on screen is to SELL.  (Its side may be left over from the stock picked before:
\* nothing resets it, and a ticket of one side with the levels of the other is
\* refused by the server's risk check.)
TicketOfSelected ==
  TicketShown =>
    /\ quoted = selected
    /\ ticket # None /\ ticket.of = selected
    /\ ticket.levels = "SELL" => recommended = [stock |-> selected, signal |-> "SELL"]
=============================================================================
