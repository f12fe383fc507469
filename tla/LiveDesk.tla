----------------------------- MODULE LiveDesk -----------------------------
(***************************************************************************)
(* Live orders: the page (app/live/live-view.tsx), the handlers of         *)
(* api/v1/live.py on whichever worker serves them, the broker's own book   *)
(* and the record of it in MongoDB (order_repo.py).                        *)
(*                                                                         *)
(* A handler first gets the user's broker, then acts at the broker, then   *)
(* records what it did; it goes on when nobody waits for its answer any    *)
(* more.  The user's sessions change meanwhile: on the broker page in      *)
(* another tab, or by the unattended login of the scheduler.               *)
(*                                                                         *)
(* Symbols, quantities and prices are left out, and of the risk engine     *)
(* that it may refuse an order.                                            *)
(***************************************************************************)
EXTENDS BrokerSession

CONSTANT Orders

ASSUME OrdersAssumption == None \notin Orders

VARIABLES
  book,       \* the broker's side of an order
  record,     \* the status MongoDB has of it
  cut,        \* orders whose placing a fault has cut short of its record
  liveBusy,   \* loading: an order of this page is being placed
  ordersShown, \* orders the page shows as open
  liveReqs    \* requests in flight

liveVars == <<book, record, cut, liveBusy, ordersShown, liveReqs>>

States == {"none", "open", "filled", "cancelled"}

\* kind: "refresh" is the listing after a placed order, "list" any other.
\* mount: the component waiting for the answer, 0 if none waits any more.
\* at: "sent"; "read", Redis has answered; "held", it has its broker;
\* "acted", the broker has done it; "saved", the answer is on its way.
LiveReqs ==
  {r \in [kind : {"place", "cancel", "refresh", "list"}, order : Orders \cup {None},
          mount : Mounts \cup {0}, worker : Workers,
          at : {"sent", "read", "held", "acted", "saved"}, as : CacheValues] :
     r.order = None <=> r.kind \in {"refresh", "list"}}

LiveOpen == page = "live" /\ route = "here"

LiveInit ==
  /\ book = [o \in Orders |-> "none"]
  /\ record = [o \in Orders |-> "none"]
  /\ cut = {}
  /\ liveBusy = FALSE
  /\ ordersShown = {}
  /\ liveReqs = {}

Request(kind, o, m, w) ==
  [kind |-> kind, order |-> o, mount |-> m, worker |-> w, at |-> "sent", as |-> None]

Moved(r, at, as) == (liveReqs \ {r}) \cup {[r EXCEPT !.at = at, !.as = as]}

\* Something breaks: a connection, Redis, MongoDB or a worker.
Breaks ==
  /\ faults < MaxFaults
  /\ faults' = faults + 1
  /\ UNCHANGED <<page, route, mount, session, token, expired, checks, clicks>>

(***************************************************************************)
(* The page.                                                               *)
(***************************************************************************)

\* The mount effect lists orders and positions.
LiveOpens ==
  /\ page = "live"
  /\ Opening
  /\ liveBusy' = FALSE
  /\ ordersShown' = {}
  /\ \E w \in Workers : liveReqs' = liveReqs \cup {Request("list", None, mount', w)}
  /\ UNCHANGED <<book, record, cut, sessionVars>>

LiveLeaves ==
  /\ page = "live"
  /\ Closing
  /\ liveBusy' = FALSE
  /\ ordersShown' = {}
  /\ UNCHANGED <<book, record, cut, liveReqs, sessionVars>>

\* An identifier that was never used.
Fresh(o) == book[o] = "none" /\ o \notin cut /\ \A r \in liveReqs : r.order # o

\* handleSubmit; the button is disabled while an order is being placed.
Submit(o) ==
  /\ LiveOpen
  /\ ~liveBusy
  /\ Fresh(o)
  /\ Clicking
  /\ liveBusy' = TRUE
  /\ \E w \in Workers : liveReqs' = liveReqs \cup {Request("place", o, mount, w)}
  /\ UNCHANGED <<book, record, cut, ordersShown, sessionVars>>

\* handleCancel; its button shows for open orders and is never disabled.
SubmitCancel(o) ==
  /\ LiveOpen
  /\ o \in ordersShown
  /\ Clicking
  /\ \E w \in Workers : liveReqs' = liveReqs \cup {Request("cancel", o, mount, w)}
  /\ UNCHANGED <<book, record, cut, liveBusy, ordersShown, sessionVars>>

\* finally { setLoading(false) } of the component that placed the order.
Released(r) ==
  liveBusy' = (liveBusy /\ ~(Alive(r.mount) /\ r.kind \in {"place", "refresh"}))

\* A request ends with an error, or with nothing more to do.
LiveEnds(r) ==
  /\ liveReqs' = liveReqs \ {r}
  /\ Released(r)
  /\ UNCHANGED ordersShown

\* Placed or cancelled: list again, before the loading ends.
OrderAnswered(r) ==
  /\ r.kind \in {"place", "cancel"}
  /\ r.at = "saved"
  /\ \E w \in Workers :
       liveReqs' = (liveReqs \ {r}) \cup
         IF r.mount = 0 THEN {}
         ELSE {Request(IF r.kind = "place" THEN "refresh" ELSE "list", None, r.mount, w)}
  /\ UNCHANGED <<book, record, cut, liveBusy, ordersShown, sessionVars, browserVars>>

\* Open in MongoDB; with nothing there, in the memory of the broker object.  A
\* live one entered its orders as open and never hears of a fill, the simulated
\* one has filled orders only.
Listed(r) == IF \A o \in Orders : record[o] = "none"
               THEN {o \in Orders : book[o] # "none" /\ r.as # SimBroker}
               ELSE {o \in Orders : record[o] = "open"}

\* The listing was read a while ago: it may lack the newest orders.
ListArrives(r) ==
  /\ r.kind \in {"refresh", "list"}
  /\ r.at = "held"
  /\ liveReqs' = liveReqs \ {r}
  /\ IF Alive(r.mount) THEN ordersShown' \in SUBSET Listed(r) ELSE UNCHANGED ordersShown
  /\ Released(r)
  /\ UNCHANGED <<book, record, cut, sessionVars, browserVars>>

\* The connection breaks: an error for the page, the handler goes on.
AnswerLost(r) ==
  /\ r.mount # 0
  /\ Breaks
  /\ liveReqs' = (liveReqs \ {r}) \cup {[r EXCEPT !.mount = 0]}
  /\ Released(r)
  /\ UNCHANGED <<book, record, cut, ordersShown, sessionVars>>

(***************************************************************************)
(* The handlers.                                                           *)
(***************************************************************************)

\* The risk engine refuses, or the token has expired: nothing was done yet.
LiveRefused(r) ==
  /\ r.at = "sent"
  /\ r.kind = "place" \/ token \in expired
  /\ LiveEnds(r)
  /\ UNCHANGED <<book, record, cut, sessionVars, browserVars>>

\* session_store.get: from this worker's cache, or what Redis holds now.
LookUp(r) ==
  /\ r.at = "sent"
  /\ liveReqs' = IF cached[r.worker] # None THEN Moved(r, "held", cached[r.worker])
                                           ELSE Moved(r, "read", stored)
  /\ UNCHANGED <<book, record, cut, liveBusy, ordersShown, sessionVars, browserVars>>

\* The cache is filled; without a session the order goes to a fresh simulated
\* broker, which is not kept.
LookUpEnds(r) ==
  /\ r.at = "read"
  /\ Remember(r.worker, r.as)
  /\ liveReqs' = Moved(r, "held", IF r.as = None THEN SimBroker ELSE r.as)
  /\ UNCHANGED <<book, record, cut, liveBusy, ordersShown, browserVars>>

\* Redis cannot be reached: as if there were no session.
LookUpFails(r) ==
  /\ r.at = "sent"
  /\ cached[r.worker] = None
  /\ Breaks
  /\ liveReqs' = Moved(r, "held", SimBroker)
  /\ UNCHANGED <<book, record, cut, liveBusy, ordersShown, sessionVars>>

\* The status of an order as its broker returns it.
Placed(r) == IF r.as = SimBroker THEN "filled" ELSE "open"

\* place_order: the simulated broker fills at once, a live one opens it.
BrokerTakes(r) ==
  /\ r.kind = "place"
  /\ r.at = "held"
  /\ book' = [book EXCEPT ![r.order] = Placed(r)]
  /\ liveReqs' = Moved(r, "acted", r.as)
  /\ UNCHANGED <<record, cut, liveBusy, ordersShown, sessionVars, browserVars>>

\* cancel_order of a live broker, while the order is open there.
BrokerCancels(r) ==
  /\ r.kind = "cancel"
  /\ r.at = "held"
  /\ r.as # SimBroker
  /\ book[r.order] = "open"
  /\ book' = [book EXCEPT ![r.order] = "cancelled"]
  /\ liveReqs' = Moved(r, "acted", r.as)
  /\ UNCHANGED <<record, cut, liveBusy, ordersShown, sessionVars, browserVars>>

\* No quote, a dead session, an order it does not have: 502, or 404.
BrokerRefuses(r) ==
  /\ r.kind \in {"place", "cancel"}
  /\ r.at = "held"
  /\ LiveEnds(r)
  /\ UNCHANGED <<book, record, cut, sessionVars, browserVars>>

\* Mutant: the handler asks the broker again, as if nothing had been done.
RetryOnLostAnswer(r) ==
  /\ r.kind \in {"place", "cancel"}
  /\ r.at = "acted"
  /\ r.as # SimBroker
  /\ Breaks
  /\ cut' = IF r.kind = "place" THEN cut \cup {r.order} ELSE cut
  /\ liveReqs' = Moved(r, "held", r.as)
  /\ UNCHANGED <<book, record, liveBusy, ordersShown, sessionVars>>

\* A live broker has done it and its answer is lost: the handler ends with
\* 502, or 404 for a cancel.
BrokerAnswerLost(r) ==
  /\ r.kind \in {"place", "cancel"}
  /\ r.at = "acted"
  /\ r.as # SimBroker
  /\ Breaks
  /\ cut' = IF r.kind = "place" THEN cut \cup {r.order} ELSE cut
  /\ LiveEnds(r)
  /\ UNCHANGED <<book, record, sessionVars>>

\* Mutant: the orders of the simulated broker stay in its own memory.
SaveLiveOnly(r) ==
  /\ r.kind = "place"
  /\ r.at = "acted"
  /\ record' = IF r.as = SimBroker THEN record ELSE [record EXCEPT ![r.order] = Placed(r)]
  /\ liveReqs' = Moved(r, "saved", r.as)
  /\ UNCHANGED <<book, cut, liveBusy, ordersShown, sessionVars, browserVars>>

\* repo.save: the order as the broker returned it.
Save(r) ==
  /\ r.kind = "place"
  /\ r.at = "acted"
  /\ record' = [record EXCEPT ![r.order] = Placed(r)]
  /\ liveReqs' = Moved(r, "saved", r.as)
  /\ UNCHANGED <<book, cut, liveBusy, ordersShown, sessionVars, browserVars>>

\* The exception is logged, and the order answered as placed.
SaveFails(r) ==
  /\ r.kind = "place"
  /\ r.at = "acted"
  /\ Breaks
  /\ cut' = cut \cup {r.order}
  /\ liveReqs' = Moved(r, "saved", r.as)
  /\ UNCHANGED <<book, record, liveBusy, ordersShown, sessionVars>>

\* repo.update_status, given the broker's number of the order: it looks for it
\* among the _id, our own number.  The two are the same for the simulated
\* broker only, whose orders are filled and never cancelled.
UpdateStatus(r) ==
  /\ r.kind = "cancel"
  /\ r.at = "acted"
  /\ record' = IF r.as = SimBroker THEN [record EXCEPT ![r.order] = "cancelled"] ELSE record
  /\ liveReqs' = Moved(r, "saved", r.as)
  /\ UNCHANGED <<book, cut, liveBusy, ordersShown, sessionVars, browserVars>>

\* A worker restarts: its cache and its handlers are gone, and so is the
\* connection of whoever waits for them.
WorkerRestarts(w) ==
  /\ page = "live"
  /\ Breaks
  /\ Forget(w)
  /\ LET gone == {r \in liveReqs : r.worker = w}
     IN /\ liveReqs' = liveReqs \ gone
        /\ cut' = cut \cup {r.order : r \in {q \in gone : q.kind = "place" /\ q.at = "acted"}}
        /\ liveBusy' = (liveBusy /\ \A r \in gone :
                          ~(Alive(r.mount) /\ r.kind \in {"place", "refresh"}))
  /\ UNCHANGED <<book, record, ordersShown>>

\* Outside our program: the market comes to an open order.
BrokerFills(o) ==
  /\ book[o] = "open"
  /\ book' = [book EXCEPT ![o] = "filled"]
  /\ UNCHANGED <<record, cut, liveBusy, ordersShown, liveReqs, sessionVars, browserVars>>

\* Connects, disconnects and Redis, in another tab or by the scheduler.
SessionStep ==
  /\ page = "live"
  /\ \/ \E w \in Workers : LogIn(w) \/ UseSimulated(w) \/ Disconnect(w)
     \/ \E x \in writes : WriteArrives(x)
     \/ Lapse
  /\ UNCHANGED <<liveVars, browserVars>>

SessionWriteFails ==
  /\ page = "live"
  /\ Breaks
  /\ \E x \in writes : WriteFails(x)
  /\ UNCHANGED liveVars

LiveNext ==
  \/ LiveOpens \/ LiveLeaves \/ SessionStep \/ SessionWriteFails
  \/ \E o \in Orders : Submit(o) \/ SubmitCancel(o) \/ BrokerFills(o)
  \/ \E w \in Workers : WorkerRestarts(w)
  \/ \E r \in liveReqs :
       \/ OrderAnswered(r) \/ ListArrives(r) \/ AnswerLost(r) \/ LiveRefused(r)
       \/ LookUp(r) \/ LookUpEnds(r) \/ LookUpFails(r)
       \/ BrokerTakes(r) \/ BrokerCancels(r) \/ BrokerRefuses(r) \/ BrokerAnswerLost(r)
       \/ Save(r) \/ SaveFails(r) \/ UpdateStatus(r)

LiveTypeOK ==
  /\ SessionTypeOK
  /\ book \in [Orders -> States]
  /\ record \in [Orders -> States]
  /\ cut \subseteq Orders
  /\ liveBusy \in BOOLEAN
  /\ ordersShown \subseteq Orders
  /\ liveReqs \subseteq LiveReqs

(***************************************************************************)
(* Properties.                                                             *)
(***************************************************************************)

\* The broker acts before MongoDB hears of it, and the handler goes on when
\* the page has given up on it.  Yet an order the broker took is recorded, or
\* about to be, unless its own request met a fault; and the record never
\* speaks of an order, or of a fill, that the broker does not have.
OrdersRecorded ==
  \A o \in Orders :
    /\ book[o] # "none" /\ record[o] = "none" =>
         o \in cut \/ \E r \in liveReqs : r.kind = "place" /\ r.order = o /\ r.at = "acted"
    /\ record[o] # "none" => book[o] # "none"
    /\ record[o] = "filled" => book[o] = "filled"

\* session_store.py: "Per-process cache so repeated calls within the same
\* worker/request burst don't all round-trip to Redis. Redis remains the source
\* of truth."  Once the newest login is stored and nothing is under way, a live
\* session some worker works with is that one.
RedisIsTruth ==
  writes = {} /\ stored = switches /\ (\A r \in liveReqs : r.at # "read") =>
    \A w \in Workers : cached[w] \in LiveSessions => cached[w] = stored

OrderBook == INSTANCE OrderLedger

\* Requests that outlive their page, lost answers, workers that restart and brokers
\* that change between two steps never make an order of the book anything but what
\* OrderLedger promises: no second taking, no end but the first, no record before it.
OrderLedgerSpec == OrderBook!Spec
=============================================================================
