----------------------------- MODULE ClientProofs -----------------------------
(***************************************************************************)
(* The safety properties of the browser client, for every bound and every  *)
(* set of contracts, lists, stocks, jobs and brokers.  Each is proved from *)
(* an invariant about the state of its page; what the tab and the other    *)
(* pages do in between is summarised first, in two lemmas.                 *)
(***************************************************************************)
EXTENDS ClientTypeProofs

\* A page opens and closes by its own steps: a step of another page, a request
\* of it that is answered or fails, moves the tab only if that page is the one
\* the tab shows.
LEMMA PageMoves ==
  /\ FuturesNext => page' = page /\ (page \in FuturesPages \/ UNCHANGED <<route, mount>>)
  /\ LabNext => page' = page /\ (page = "lab" \/ UNCHANGED <<route, mount>>)
  /\ TicketNext => page' = page /\ (page = "trade" \/ UNCHANGED <<route, mount>>)
  /\ RuleNext => page' = page /\ (page = "alerts" \/ UNCHANGED <<route, mount>>)
  /\ SignalNext => page' = page /\ (page = "signals" \/ UNCHANGED <<route, mount>>)
  /\ WatchNext => page' = page /\ (page = "watch" \/ UNCHANGED <<route, mount>>)
  /\ BrokerNext => page' = page /\ (page = "broker" \/ UNCHANGED <<route, mount>>)
  /\ LiveNext => page' = page /\ (page = "live" \/ UNCHANGED <<route, mount>>)
<1> USE DEF Opening, Loading, Closing, Walking, CheckBounces, Clicking, Fail, browserVars
<1>1. FuturesNext => page' = page /\ (page \in FuturesPages \/ UNCHANGED <<route, mount>>)
  BY DEF FuturesNext, FuturesPages, GasOpens, MetalsOpens, OpenOn, GasSwitches, MetalsSwitches,
         SwitchTo, FuturesLeaves, QuoteTick, QuoteArrives, QuoteFails
<1>2. LabNext => page' = page /\ (page = "lab" \/ UNCHANGED <<route, mount>>)
  BY DEF LabNext, LabOpens, LabLeaves, OpenPast, JobEnds, Start, StartPosted, StartWatches,
         StartFails, PollTick, RunPolled, ScanPolled, SweepPolled, PollFails, ResultsArrive,
         ResultsFail
<1>3. TicketNext => page' = page /\ (page = "trade" \/ UNCHANGED <<route, mount>>)
  BY DEF TicketNext, TicketOpens, TicketLeaves, Select, PickSide, QuoteComes, RecComes, AskedFails
<1>4. RuleNext => page' = page /\ (page = "alerts" \/ UNCHANGED <<route, mount>>)
  BY DEF RuleNext, RulesOpens, RulesLeaves, RuleTick, PollArrives, PollLost, Create, Delete,
         CreateStored, CreateAnswered, CreateFails, DeleteStored, DeleteEnds
<1>5. SignalNext => page' = page /\ (page = "signals" \/ UNCHANGED <<route, mount>>)
  BY DEF SignalNext, SignalsMount, SignalsLeave, SignalTick, SignalChanges, ToggleAlerts,
         SignalsArrive, SignalsFail
<1>6. WatchNext => page' = page /\ (page = "watch" \/ UNCHANGED <<route, mount>>)
  BY DEF WatchNext, WatchOpens, WatchLeaves, WatchTick, EditItems, Refresh, SelectList,
         ChangeLists, ListsArrive, ItemsArrive, EditAnswered, ListQuotesArrive, ListReqFails
<1>7. BrokerNext => page' = page /\ (page = "broker" \/ UNCHANGED <<route, mount>>)
  BY DEF BrokerNext, BrokerOpens, BrokerReloads, KiteReturns, BrokerLeaves, ConnectTo,
         StatusArrives, StatusFails, ConnectDone, ConnectAnswered, ConnectFails, BrokerOpen
<1>8. LiveNext => page' = page /\ (page = "live" \/ UNCHANGED <<route, mount>>)
  BY DEF LiveNext, LiveOpens, LiveLeaves, SessionStep, SessionWriteFails, Breaks, Submit, SubmitCancel,
         BrokerFills, WorkerRestarts, OrderAnswered, ListArrives, AnswerLost, LiveRefused, LookUp,
         LookUpEnds, LookUpFails, BrokerTakes, BrokerCancels, BrokerRefuses, BrokerAnswerLost,
         Save, SaveFails, UpdateStatus, LiveOpen
<1> QED
  BY <1>1, <1>2, <1>3, <1>4, <1>5, <1>6, <1>7, <1>8

\* The paper page also closes the tab's page when its first list of trades fails.
LEMMA PaperMoves ==
  ASSUME PaperNext
  PROVE  /\ page' = page
         /\ page = "paper" \/ (mount' = mount /\ (route' = "here" => route = "here"))
<1>1. ASSUME NEW l \in PaperLoads, TradesFail(l)
      PROVE  page' = page /\ mount' = mount /\ route' = "login"
  BY <1>1 DEF TradesFail
<1>2. ASSUME NEW l \in PaperLoads, TradesArrive(l) \/ SettingsArrive(l) \/ SettingsFail(l)
      PROVE  UNCHANGED <<page, mount, route>>
  BY <1>2 DEF TradesArrive, SettingsArrive, SettingsFail, Fail, browserVars
<1>3. ASSUME NEW u \in Updates, UpdateApplied(u) \/ UpdateAnswered(u) \/ UpdateFails(u)
      PROVE  UNCHANGED <<page, mount, route>>
  BY <1>3 DEF UpdateApplied, UpdateAnswered, UpdateFails, Fail, browserVars
<1>4. ASSUME PaperOpens \/ PaperLeaves \/ Toggle
      PROVE  page = "paper" /\ page' = page
  BY <1>4 DEF PaperOpens, PaperLeaves, Toggle, Opening, Closing, Walking, CheckBounces, Clicking
<1>5. CASE \E l \in PaperLoads :
             TradesArrive(l) \/ TradesFail(l) \/ SettingsArrive(l) \/ SettingsFail(l)
  BY <1>1, <1>2, <1>5
<1>6. CASE \E u \in Updates : UpdateApplied(u) \/ UpdateAnswered(u) \/ UpdateFails(u)
  BY <1>3, <1>6
<1> QED
  BY <1>4, <1>5, <1>6, Zenon DEF PaperNext

\* The tab's own steps neither open a page nor close one.
LEMMA TabMoves ==
  BrowserNext => UNCHANGED <<page, mount>> /\ ((route' = "here") <=> (route = "here"))
BY DEF BrowserNext, SignIn, CheckTick, Expire, CheckPasses, CheckBounces

(***************************************************************************)
(* What a step does to the state of one page: it is a step of that page,   *)
(* or leaves its state alone.                                              *)
(***************************************************************************)

LEMMA FuturesSteps == [Next]_vars => FuturesNext \/ UNCHANGED futuresVars
BY DEF Next, vars

LEMMA TicketSteps == [Next]_vars => TicketNext \/ UNCHANGED ticketVars
BY DEF Next, vars

LEMMA LabSteps == [Next]_vars => LabNext \/ UNCHANGED labVars
BY DEF Next, vars

LEMMA WatchSteps == [Next]_vars => WatchNext \/ UNCHANGED watchVars
BY DEF Next, vars

\* Besides, a step that is not one of the broker page, does not open it.
LEMMA BrokerSteps ==
  [Next]_vars => \/ BrokerNext
                 \/ /\ UNCHANGED <<brokerVars, page>>
                    /\ page = "broker" => mount' = mount /\ (route' = "here" => route = "here")
<1> SUFFICES ASSUME [Next]_vars, ~BrokerNext
             PROVE  /\ UNCHANGED <<brokerVars, page>>
                    /\ page = "broker" => mount' = mount /\ (route' = "here" => route = "here")
  OBVIOUS
<1>1. UNCHANGED brokerVars
  BY DEF Next, vars
<1>2. CASE UNCHANGED vars
  BY <1>1, <1>2 DEF vars, browserVars
<1>3. CASE BrowserNext \/ PaperNext
  BY <1>1, <1>3, TabMoves, PaperMoves
<1>4. CASE \/ FuturesNext \/ LabNext \/ TicketNext \/ RuleNext \/ SignalNext \/ WatchNext
          \/ LiveNext
  BY <1>1, <1>4, PageMoves DEF FuturesPages
<1> QED
  BY <1>2, <1>3, <1>4 DEF Next

\* Nor does one that is not of the paper page open or close that page.
LEMMA PaperSteps ==
  [Next]_vars => \/ PaperNext
                 \/ /\ UNCHANGED <<paperVars, page>>
                    /\ page = "paper" => mount' = mount /\ ((route' = "here") <=> (route = "here"))
<1> SUFFICES ASSUME [Next]_vars, ~PaperNext
             PROVE  /\ UNCHANGED <<paperVars, page>>
                    /\ page = "paper" => mount' = mount /\ ((route' = "here") <=> (route = "here"))
  OBVIOUS
<1>1. UNCHANGED paperVars
  BY DEF Next, vars
<1>2. CASE UNCHANGED vars
  BY <1>1, <1>2 DEF vars, browserVars
<1>3. CASE BrowserNext
  BY <1>1, <1>3, TabMoves
<1>4. CASE \/ FuturesNext \/ LabNext \/ TicketNext \/ RuleNext \/ BrokerNext \/ SignalNext \/ WatchNext
          \/ LiveNext
  BY <1>1, <1>4, PageMoves DEF FuturesPages
<1> QED
  BY <1>2, <1>3, <1>4 DEF Next

(***************************************************************************)
(* The caches of quotes.                                                   *)
(***************************************************************************)

\* However contracts are switched and pages closed while quotes are in flight,
\* the quote cache of the MCX pages holds, under each contract's key, a quote of
\* that contract.
THEOREM QuoteCacheCorrect == Spec => []QuoteCacheKeyed
<1>1. Init => QuoteCacheKeyed
  BY DEF Init, FuturesInit, QuoteCacheKeyed
<1>2. ASSUME TypeOK, QuoteCacheKeyed, [Next]_vars
      PROVE  QuoteCacheKeyed'
  <2>1. CASE UNCHANGED quoteCache
    BY <1>2, <2>1 DEF QuoteCacheKeyed
  <2>2. ASSUME NEW r \in QuoteReqs, QuoteArrives(r)
        PROVE  QuoteCacheKeyed'
    BY <1>2, <2>2 DEF QuoteArrives, QuoteCacheKeyed, TypeOK, FuturesTypeOK
  <2>3. FuturesNext => UNCHANGED quoteCache \/ \E r \in QuoteReqs : QuoteArrives(r)
    BY DEF FuturesNext, GasOpens, MetalsOpens, OpenOn, GasSwitches, MetalsSwitches, SwitchTo,
           FuturesLeaves, FuturesUnmount, QuoteTick, QuoteFails
  <2> QED
    BY <1>2, <2>1, <2>2, <2>3, FuturesSteps DEF futuresVars
<1> QED
  BY <1>1, <1>2, ClientTypeCorrect, PTL DEF Spec

(***************************************************************************)
(* Quick Trade.                                                            *)
(***************************************************************************)

\* What the page holds is about the stock picked last, while its ticket is
\* hidden too (the loading flag falls for an answer about any stock); the ticket
\* has a state when it is on screen, and its levels are that stock's.
QuoteInv ==
  /\ quoted \in {None, selected}
  /\ recommended # None => recommended.stock = selected

TicketFilled ==
  /\ ticket # None <=> TicketShown
  /\ ticket # None =>
       /\ ticket.of = selected
       /\ ticket.levels = "SELL" => recommended = [stock |-> selected, signal |-> "SELL"]

TicketInv == QuoteInv /\ TicketFilled

\* Rendering keeps it so, when the effect runs whenever another stock or another
\* recommendation is shown.
LEMMA RenderFills ==
  ASSUME TicketTypeOK, TicketTypeOK', TicketFilled, QuoteInv', NEW changed \in BOOLEAN,
         Render(changed),
         changed \/ (UNCHANGED <<selected, recommended>>)
  PROVE  TicketFilled'
<1>1. CASE ~TicketShown'
  BY <1>1 DEF Render, TicketFilled
<1>2. ASSUME TicketShown', NEW side \in Sides, ticket' = Filled(side, quoted', recommended')
      PROVE  TicketFilled'
  <2>1. quoted' = selected' /\ selected' \in Stocks
    BY <1>2 DEF QuoteInv, TicketShown, TicketTypeOK
  <2>2. CASE recommended' # None /\ recommended'.signal \in Sides
    <3>1. ticket' = [side |-> recommended'.signal, levels |-> recommended'.signal,
                     of |-> recommended'.stock]
      BY <1>2, <2>2 DEF Filled
    <3>2. recommended' \in Recs /\ recommended'.stock = selected'
      BY <2>2 DEF QuoteInv, TicketTypeOK
    <3>3. recommended'.signal = "SELL" => recommended' = [stock |-> selected', signal |-> "SELL"]
      BY <3>2 DEF Recs
    <3>4. ticket' \in Tickets
      BY <2>2, <3>1, <3>2 DEF Recs, Tickets
    <3>5. ticket' # None
      BY <1>2, <3>1, <3>4, TicketsAssumption
    <3> QED
      BY <1>2, <3>1, <3>2, <3>3, <3>5 DEF TicketFilled
  <2>3. CASE ~(recommended' # None /\ recommended'.signal \in Sides)
    <3>1. ticket' = [side |-> side, levels |-> "BUY", of |-> quoted']
      BY <1>2, <2>3 DEF Filled
    <3>2. ticket' # None
      BY <2>1, <3>1, TicketsAssumption DEF Tickets, Sides
    <3> QED
      BY <1>2, <2>1, <3>1, <3>2 DEF TicketFilled
  <2> QED
    BY <2>2, <2>3
<1>3. CASE TicketShown' /\ (ticket = None \/ changed)
  <2>1. ticket # None => ticket.side \in Sides
    BY DEF TicketTypeOK, Tickets
  <2> QED
    BY <1>2, <1>3, <2>1 DEF Render, Sides
<1>4. CASE TicketShown' /\ ticket # None /\ ~changed
  <2>1. ticket' = ticket /\ UNCHANGED <<selected, recommended>>
    BY <1>4 DEF Render
  <2> QED
    BY <1>4, <2>1 DEF TicketFilled
<1> QED
  BY <1>1, <1>3, <1>4

\* A ticket on screen, and the levels it was filled with, are for the stock that
\* was picked, however the answers about stocks picked earlier arrive; the levels
\* are those of a SELL only when that stock's recommendation is to sell.
THEOREM TicketCorrect == Spec => []TicketOfSelected
<1>1. Init => TicketInv
  BY DEF Init, TicketInit, TicketInv, QuoteInv, TicketFilled, TicketShown
<1>2. ASSUME TypeOK, TypeOK', TicketInv, [Next]_vars
      PROVE  TicketInv'
  <2> USE <1>2 DEF TicketInv
  <2>a. TicketTypeOK /\ TicketTypeOK'
    BY DEF TypeOK
  <2>1. CASE UNCHANGED ticketVars
    BY <2>1 DEF ticketVars, QuoteInv, TicketFilled, TicketShown
  <2>2. ASSUME NEW s \in Stocks, Select(s)
        PROVE  TicketInv'
    <3>1. QuoteInv'
      BY <2>2 DEF Select, QuoteInv
    <3>2. PICK newer \in BOOLEAN : Render(newer \/ s # selected \/ recommended' # recommended)
      BY <2>2 DEF Select
    <3>3. selected' = s
      BY <2>2 DEF Select
    <3> QED
      BY <2>a, <3>1, <3>2, <3>3, RenderFills
  <2>3. ASSUME NEW a \in Asked, QuoteComes(a)
        PROVE  TicketInv'
    <3>1. QuoteInv'
      BY <2>3 DEF QuoteComes, QuoteInv, Shows
    <3>2. PICK moved \in BOOLEAN : Render(moved /\ Shows(a))
      BY <2>3 DEF QuoteComes
    <3>3. UNCHANGED <<selected, recommended>>
      BY <2>3 DEF QuoteComes
    <3> QED
      BY <2>a, <3>1, <3>2, <3>3, RenderFills
  <2>4. ASSUME NEW a \in Asked, NEW signal \in Signals, RecComes(a, signal)
        PROVE  TicketInv'
    <3>1. QuoteInv'
      BY <2>4 DEF RecComes, QuoteInv, Shows
    <3>2. Render(Shows(a)) /\ selected' = selected
      BY <2>4 DEF RecComes
    <3>3. Shows(a) \in BOOLEAN /\ (~Shows(a) => recommended' = recommended)
      BY <2>4 DEF RecComes, Shows
    <3> QED
      BY <2>a, <3>1, <3>2, <3>3, RenderFills
  <2>5. ASSUME NEW a \in Asked, AskedFails(a)
        PROVE  TicketInv'
    <3>1. QuoteInv' /\ Render(FALSE) /\ UNCHANGED <<selected, recommended>>
      BY <2>5 DEF AskedFails, QuoteInv
    <3> QED
      BY <2>a, <3>1, RenderFills
  <2>6. CASE TicketLeaves
    BY <2>6 DEF TicketLeaves, QuoteInv, TicketFilled, TicketShown
  <2>7. ASSUME NEW side \in Sides, PickSide(side)
        PROVE  TicketInv'
    <3>1. /\ ticket # None /\ ticket' = [ticket EXCEPT !.side = side]
          /\ UNCHANGED <<selected, quoted, recommended, loadingQuote>>
      BY <2>7 DEF PickSide
    <3>2. ticket \in Tickets /\ ticket' \in Tickets
      BY <2>a, <3>1 DEF TicketTypeOK, Tickets
    <3>3. ticket'.of = ticket.of /\ ticket'.levels = ticket.levels
      BY <3>1, <3>2 DEF Tickets
    <3>4. ticket' # None
      BY <3>2, TicketsAssumption
    <3> QED
      BY <3>1, <3>3, <3>4 DEF QuoteInv, TicketFilled, TicketShown
  <2> QED
    BY <2>1, <2>2, <2>3, <2>4, <2>5, <2>6, <2>7, TicketSteps DEF TicketNext, TicketOpens
<1>3. TicketInv => TicketOfSelected
  BY DEF TicketInv, QuoteInv, TicketFilled, TicketOfSelected, TicketShown
<1> QED
  BY <1>1, <1>2, <1>3, ClientTypeCorrect, PTL DEF Spec

(***************************************************************************)
(* The session.                                                            *)
(***************************************************************************)

\* A tab that is moved to /login with its token still stored was moved by a
\* session check, and the session it checked had expired: no other failure of a
\* request, on any page, does that.
THEOREM LeavesOnExpiry == Spec => OnlyExpiredLeaves
<1> DEFINE Left == route' = "login" /\ route # "login" /\ token' # 0
           Bounced == \E s \in checks \cap expired : s \notin checks'
<1>1. ASSUME NEW s, CheckBounces(s)
      PROVE  Bounced
  BY <1>1 DEF CheckBounces
<1>2. ASSUME Left, BrowserNext \/ Closing
      PROVE  Bounced
  BY <1>1, <1>2 DEF BrowserNext, Closing, SignIn, CheckTick, Expire, CheckPasses, Walking
<1> USE DEF Opening, Loading, Clicking, Fail, browserVars
<1>3. FuturesNext /\ Left => Closing
  BY DEF FuturesNext, GasOpens, MetalsOpens, OpenOn, GasSwitches, MetalsSwitches, SwitchTo,
         FuturesLeaves, QuoteTick, QuoteArrives, QuoteFails
<1>4. LabNext /\ Left => Closing
  BY DEF LabNext, LabOpens, LabLeaves, OpenPast, JobEnds, Start, StartPosted, StartWatches,
         StartFails, PollTick, RunPolled, ScanPolled, SweepPolled, PollFails, ResultsArrive,
         ResultsFail
<1>5. TicketNext /\ Left => Closing
  BY DEF TicketNext, TicketOpens, TicketLeaves, Select, PickSide, QuoteComes, RecComes, AskedFails
<1>6. RuleNext /\ Left => Closing
  BY DEF RuleNext, RulesOpens, RulesLeaves, RuleTick, PollArrives, PollLost, Create, Delete,
         CreateStored, CreateAnswered, CreateFails, DeleteStored, DeleteEnds
<1>7. SignalNext /\ Left => Closing
  BY DEF SignalNext, SignalsMount, SignalsLeave, SignalTick, SignalChanges, ToggleAlerts,
         SignalsArrive, SignalsFail
<1>8. WatchNext /\ Left => Closing
  BY DEF WatchNext, WatchOpens, WatchLeaves, WatchTick, EditItems, Refresh, SelectList,
         ChangeLists, ListsArrive, ItemsArrive, EditAnswered, ListQuotesArrive, ListReqFails
<1>9. BrokerNext /\ Left => Closing
  BY DEF BrokerNext, BrokerOpens, BrokerReloads, KiteReturns, BrokerLeaves, ConnectTo,
         StatusArrives, StatusFails, ConnectDone, ConnectAnswered, ConnectFails
<1>10. PaperNext /\ Left => Closing
  <2>1. ASSUME NEW l \in PaperLoads,
               TradesArrive(l) \/ TradesFail(l) \/ SettingsArrive(l) \/ SettingsFail(l)
        PROVE  ~Left
    BY <2>1 DEF TradesArrive, TradesFail, SettingsArrive, SettingsFail
  <2>2. ASSUME NEW u \in Updates, UpdateApplied(u) \/ UpdateAnswered(u) \/ UpdateFails(u)
        PROVE  ~Left
    BY <2>2 DEF UpdateApplied, UpdateAnswered, UpdateFails
  <2>3. ASSUME PaperOpens \/ PaperLeaves \/ Toggle, Left
        PROVE  Closing
    BY <2>3 DEF PaperOpens, PaperLeaves, Toggle
  <2> QED
    BY <2>1, <2>2, <2>3, Zenon DEF PaperNext
<1>11. LiveNext /\ Left => Closing
  BY DEF LiveNext, LiveOpens, LiveLeaves, SessionStep, SessionWriteFails, Breaks, Submit, SubmitCancel,
         BrokerFills, WorkerRestarts, OrderAnswered, ListArrives, AnswerLost, LiveRefused, LookUp,
         LookUpEnds, LookUpFails, BrokerTakes, BrokerCancels, BrokerRefuses, BrokerAnswerLost,
         Save, SaveFails, UpdateStatus
<1>12. UNCHANGED vars => ~Left
  BY DEF vars
<1>13. [Next]_vars => [Left => Bounced]_browserVars
  BY <1>2, <1>3, <1>4, <1>5, <1>6, <1>7, <1>8, <1>9, <1>10, <1>11, <1>12 DEF Next
<1> QED
  BY <1>13, PTL DEF Spec, OnlyExpiredLeaves

(***************************************************************************)
(* The broker page.                                                        *)
(***************************************************************************)

\* The mount effect takes the token off the URL before it sends it, so a
\* reloaded page finds none; and a token sent is a token received.
KiteInv == kiteUrl = FALSE /\ kiteSent <= kiteReturns

\* Kite's single-use token is sent at most as often as Kite has issued one.
THEOREM TokenSentCorrect == Spec => []TokenSentOnce
<1>1. Init => KiteInv
  BY DEF Init, BrokerPageInit, KiteInv
<1>2. ASSUME TypeOK, KiteInv, [Next]_vars
      PROVE  KiteInv'
  <2> USE <1>2 DEF KiteInv
  <2>1. kiteSent \in Nat /\ kiteReturns \in Nat
    BY BrokersAssumption DEF TypeOK, BrokerTypeOK
  <2>2. CASE UNCHANGED brokerVars
    BY <2>2 DEF brokerVars
  <2>3. CASE BrokerOpens \/ BrokerReloads \/ KiteReturns \/ BrokerLeaves
    BY <2>1, <2>3 DEF BrokerOpens, BrokerReloads, KiteReturns, BrokerLeaves, Mount
  <2>4. ASSUME BrokerNext, ~(BrokerOpens \/ BrokerReloads \/ KiteReturns \/ BrokerLeaves)
        PROVE  UNCHANGED <<kiteUrl, kiteSent, kiteReturns>>
    BY <2>4 DEF BrokerNext, ConnectTo, StatusArrives, StatusFails, ConnectDone,
                ConnectAnswered, ConnectFails
  <2> QED
    BY <2>2, <2>3, <2>4, BrokerSteps DEF brokerVars
<1>3. KiteInv => TokenSentOnce
  BY DEF KiteInv, TokenSentOnce
<1> QED
  BY <1>1, <1>2, <1>3, ClientTypeCorrect, PTL DEF Spec

\* No request is of a component that is yet to come, so a page that opens starts
\* without one; and they are the broker page's.
ConnectInv ==
  /\ connects # {} => page = "broker"
  /\ \A c \in connects : c.mount <= mount
  /\ OneConnectPerPage

\* At most one request of the shared buttons is in flight for an open page, and
\* while it is the buttons are disabled.
THEOREM OneConnectCorrect == Spec => []OneConnectPerPage
<1>1. Init => ConnectInv
  BY DEF Init, BrokerPageInit, ConnectInv, OneConnectPerPage
<1>2. ASSUME TypeOK, ConnectInv, [Next]_vars
      PROVE  ConnectInv'
  <2> USE <1>2
  <2>1. /\ mount \in Nat
        /\ connects \subseteq Connects
        /\ \A c \in connects : c.mount \in Nat
    BY PageBounds, BrowserBounds DEF TypeOK, BrokerTypeOK, BrowserTypeOK, Connects, Mounts
  <2>2. ASSUME UNCHANGED <<brokerVars, page>>,
               page = "broker" => mount' = mount /\ (route' = "here" => route = "here")
        PROVE  ConnectInv'
    BY <2>2 DEF ConnectInv, OneConnectPerPage, brokerVars, Alive
  <2>3. ASSUME NEW old \in SUBSET connects, NEW sent, NEW url \in BOOLEAN,
               page = "broker", page' = page, mount' = mount + 1, Mount(url, old, sent)
        PROVE  ConnectInv'
    <3>1. \A c \in old : c.mount \in Nat /\ c.mount <= mount /\ c.mount # mount'
      BY <2>1, <2>3 DEF ConnectInv
    <3>2. CASE url = FALSE
      <4>1. connects' = old
        BY <2>3, <3>2 DEF Mount
      <4> QED
        BY <2>1, <2>3, <3>1, <4>1 DEF ConnectInv, OneConnectPerPage, Alive
    <3>3. CASE url = TRUE
      <4>1. PICK d : d = [to |-> Kite, mount |-> mount', done |-> FALSE]
        OBVIOUS
      <4>2. d.mount = mount' /\ connects' = old \cup {d} /\ brokerBusy' = TRUE
        BY <2>3, <3>3, <4>1 DEF Mount
      <4>3. \A c \in connects' : Alive(c.mount)' => c = d
        BY <3>1, <4>2 DEF Alive
      <4>4. OneConnectPerPage'
        BY <4>2, <4>3 DEF OneConnectPerPage
      <4>5. \A c \in connects' : c.mount <= mount'
        BY <2>1, <2>3, <3>1, <4>2
      <4> QED
        BY <2>3, <4>4, <4>5 DEF ConnectInv
    <3> QED
      BY <3>2, <3>3
  <2>4. CASE BrokerOpens
    BY <2>3, <2>4 DEF BrokerOpens, Opening
  <2>5. CASE BrokerReloads
    BY <2>3, <2>5 DEF BrokerReloads, Loading, BrokerOpen, TypeOK, BrokerTypeOK
  <2>6. CASE KiteReturns
    <3>1. /\ connects' = {[to |-> Kite, mount |-> mount', done |-> FALSE]}
          /\ brokerBusy' = TRUE
      BY <2>6 DEF KiteReturns, Mount
    <3>2. page = "broker" /\ page' = page /\ mount' = mount + 1
      BY <2>6 DEF KiteReturns, Loading
    <3> QED
      BY <2>1, <3>1, <3>2 DEF ConnectInv, OneConnectPerPage, Alive
  <2>7. CASE BrokerLeaves
    BY <2>7 DEF BrokerLeaves, Closing, Walking, CheckBounces, ConnectInv, OneConnectPerPage, Alive
  <2>8. ASSUME NEW b \in Targets, ConnectTo(b)
        PROVE  ConnectInv'
    <3>1. PICK d : d = [to |-> b, mount |-> mount, done |-> FALSE]
      OBVIOUS
    <3>2. /\ d.mount = mount /\ connects' = connects \cup {d} /\ brokerBusy' = TRUE
          /\ page = "broker" /\ ~brokerBusy
          /\ UNCHANGED <<page, mount, route>>
      BY <2>8, <3>1 DEF ConnectTo, Clicking, Idle, BrokerOpen
    <3>3. \A c \in connects' : Alive(c.mount)' => c = d
      BY <3>2 DEF Alive, ConnectInv, OneConnectPerPage
    <3>4. OneConnectPerPage'
      BY <3>2, <3>3 DEF OneConnectPerPage
    <3>5. \A c \in connects' : c.mount <= mount'
      BY <2>1, <3>2 DEF ConnectInv
    <3> QED
      BY <3>2, <3>4, <3>5 DEF ConnectInv
  <2>9. ASSUME NEW r \in StatusReqs, StatusArrives(r) \/ StatusFails(r)
        PROVE  ConnectInv'
    BY <2>9 DEF StatusArrives, StatusFails, Fail, browserVars, ConnectInv, OneConnectPerPage, Alive
  <2>10. ASSUME NEW c \in Connects, ConnectDone(c)
         PROVE  ConnectInv'
    <3>1. PICK d : d = [c EXCEPT !.done = TRUE]
      OBVIOUS
    <3>2. c.mount = d.mount
      BY <3>1 DEF Connects
    <3>3. /\ c \in connects /\ connects' = (connects \ {c}) \cup {d}
          /\ UNCHANGED <<page, mount, route, brokerBusy>>
      BY <2>10, <3>1 DEF ConnectDone, browserVars
    <3>4. \A e \in connects' : e.mount = d.mount /\ Alive(d.mount) => e = d
      BY <3>2, <3>3 DEF ConnectInv, OneConnectPerPage
    <3>5. Alive(d.mount) => brokerBusy
      BY <3>2, <3>3 DEF ConnectInv, OneConnectPerPage
    <3>6. OneConnectPerPage'
      BY <3>3, <3>4, <3>5 DEF ConnectInv, OneConnectPerPage, Alive
    <3>7. (connects' # {} => page' = "broker") /\ \A e \in connects' : e.mount <= mount'
      BY <3>2, <3>3 DEF ConnectInv
    <3> QED
      BY <3>6, <3>7 DEF ConnectInv
  <2>11. ASSUME NEW c \in Connects, ConnectAnswered(c) \/ ConnectFails(c)
         PROVE  ConnectInv'
    BY <2>1, <2>11 DEF ConnectAnswered, ConnectFails, Fail, browserVars, ConnectInv,
                      OneConnectPerPage, Alive
  <2> QED
    BY <2>2, <2>4, <2>5, <2>6, <2>7, <2>8, <2>9, <2>10, <2>11, BrokerSteps DEF BrokerNext
<1>3. ConnectInv => OneConnectPerPage
  BY DEF ConnectInv
<1> QED
  BY <1>1, <1>2, <1>3, ClientTypeCorrect, PTL DEF Spec

(***************************************************************************)
(* The Strategy Lab.                                                       *)
(***************************************************************************)

\* What is watched, or is about to be, is a job the server has started, so its
\* kind does not change any more; before that, nothing is watched under it.
LabInv ==
  /\ \A s \in starts :
       jobs[s.job].kind \in Kinds /\ (s.phase = "get" => jobs[s.job].status # "none")
  /\ \A p \in polls : jobs[p.job].status # "none"
  /\ OnePollPerKind

\* clearInterval before setInterval: the interval of the same component and kind
\* is the one its ref holds, and that one is stopped.
LEMMA WatchKeepsOne ==
  ASSUME LabTypeOK, OnePollPerKind,
         NEW j \in Jobs, NEW m \in Mounts, NEW k \in Kinds, jobs[j].kind = k, Watch(k, j, m)
  PROVE  \A p \in polls' : pollRef'[p.mount][jobs[p.job].kind] = p.job
<1> SUFFICES ASSUME NEW p \in polls'
             PROVE  pollRef'[p.mount][jobs[p.job].kind] = p.job
  OBVIOUS
<1> USE DEF LabTypeOK
<1>1. /\ polls' = (polls \ Held(k, m)) \cup {Poll(j, m)}
      /\ pollRef' = [pollRef EXCEPT ![m][k] = j]
  BY DEF Watch
<1>2. pollRef'[m][k] = j
  BY <1>1
<1>3. CASE p = Poll(j, m)
  BY <1>2, <1>3 DEF Poll
<1>4. CASE p \in polls /\ p \notin Held(k, m)
  <2>1. p.mount \in Mounts /\ p.job \in Jobs /\ p = Poll(p.job, p.mount)
    BY <1>4 DEF Polls, Poll
  <2>2. pollRef[p.mount][jobs[p.job].kind] = p.job
    BY <1>4 DEF OnePollPerKind
  <2>3. CASE p.mount = m /\ jobs[p.job].kind = k
    <3>1. p.job \in Jobs \cap {pollRef[m][k]}
      BY <2>1, <2>2, <2>3
    <3>2. p \in Held(k, m)
      BY <2>1, <2>3, <3>1 DEF Held
    <3> QED
      BY <1>4, <3>2
  <2>4. CASE p.mount # m \/ jobs[p.job].kind # k
    BY <1>1, <2>1, <2>2, <2>4
  <2> QED
    BY <2>3, <2>4
<1> QED
  BY <1>1, <1>3, <1>4

\* However starting, opening past runs and late answers interleave, a component
\* never has two intervals of one kind running, and can stop the one it has.
THEOREM OnePollCorrect == Spec => []OnePollPerKind
<1>1. Init => LabInv
  BY DEF Init, LabInit, LabInv, OnePollPerKind
<1>2. ASSUME TypeOK, LabInv, [Next]_vars
      PROVE  LabInv'
  <2> USE <1>2
  <2>a. LabTypeOK /\ OnePollPerKind
    BY DEF TypeOK, LabInv
  <2>b. \A p \in polls : p.job \in Jobs /\ p.mount \in Mounts
    BY <2>a DEF LabTypeOK, Polls
  <2>c. \A s \in starts : s.job \in Jobs /\ s.mount \in Mounts
    BY <2>a DEF LabTypeOK, Starts
  <2>d. ASSUME UNCHANGED <<jobs, pollRef>>, starts' \subseteq starts, polls' \subseteq polls
        PROVE  LabInv'
    BY <2>d DEF LabInv, OnePollPerKind
  <2>1. CASE UNCHANGED labVars
    BY <2>d, <2>1 DEF labVars
  <2>2. CASE LabOpens \/ LabLeaves
    BY <2>d, <2>2 DEF LabOpens, LabLeaves, labVars
  <2>3. ASSUME NEW j \in Jobs, NEW k \in Kinds, Start(j, k)
        PROVE  LabInv'
    <3>1. /\ jobs[j].status = "none" /\ (\A s \in starts : s.job # j)
          /\ jobs' = [jobs EXCEPT ![j].kind = k]
          /\ starts' = starts \cup {[job |-> j, mount |-> mount, phase |-> "post"]}
          /\ UNCHANGED <<polls, pollRef>>
      BY <2>3 DEF Start
    <3>2. jobs'[j].kind = k /\ \A i \in Jobs : i # j => jobs'[i] = jobs[i]
      BY <2>a, <3>1 DEF LabTypeOK
    <3>3. \A p \in polls : p.job # j
      BY <3>1 DEF LabInv
    <3>4. OnePollPerKind' /\ \A p \in polls' : jobs'[p.job].status # "none"
      BY <2>a, <2>b, <3>1, <3>2, <3>3 DEF LabInv, OnePollPerKind
    <3>5. \A s \in starts' :
            jobs'[s.job].kind \in Kinds /\ (s.phase = "get" => jobs'[s.job].status # "none")
      BY <2>c, <3>1, <3>2 DEF LabInv
    <3> QED
      BY <3>4, <3>5 DEF LabInv
  <2>4. ASSUME NEW j \in Jobs, NEW st \in {"active", "completed", "failed"},
               jobs' = [jobs EXCEPT ![j].status = st], UNCHANGED <<polls, pollRef>>,
               \A s \in starts' : \/ s \in starts
                                  \/ s.job = j /\ jobs[j].kind \in Kinds
        PROVE  LabInv'
    <3>1. /\ jobs'[j].kind = jobs[j].kind /\ jobs'[j].status # "none"
          /\ \A i \in Jobs : i # j => jobs'[i] = jobs[i]
      BY <2>a, <2>4 DEF LabTypeOK
    <3>2. OnePollPerKind' /\ \A p \in polls' : jobs'[p.job].status # "none"
      BY <2>a, <2>b, <2>4, <3>1 DEF LabInv, OnePollPerKind
    <3>3. \A s \in starts' :
            jobs'[s.job].kind \in Kinds /\ (s.phase = "get" => jobs'[s.job].status # "none")
      BY <2>c, <2>4, <3>1 DEF LabInv
    <3> QED
      BY <3>2, <3>3 DEF LabInv
  <2>5. ASSUME NEW j \in Jobs, JobEnds(j, "completed") \/ JobEnds(j, "failed")
        PROVE  LabInv'
    BY <2>4, <2>5 DEF JobEnds
  <2>6. ASSUME NEW s \in Starts, StartPosted(s)
        PROVE  LabInv'
    <3>1. /\ s \in starts /\ jobs' = [jobs EXCEPT ![s.job].status = "active"]
          /\ starts' = (starts \ {s}) \cup {[s EXCEPT !.phase = "get"]}
          /\ UNCHANGED <<polls, pollRef>>
      BY <2>6 DEF StartPosted
    <3>2. s.job \in Jobs /\ [s EXCEPT !.phase = "get"].job = s.job /\ jobs[s.job].kind \in Kinds
      BY <2>c, <3>1 DEF Starts, LabInv
    <3> QED
      BY <2>4, <3>1, <3>2
  <2>7. ASSUME NEW s \in Starts, StartFails(s)
        PROVE  LabInv'
    <3>1. s.job \in Jobs /\ starts' \subseteq starts /\ UNCHANGED <<polls, pollRef>>
      BY <2>7 DEF StartFails, Starts
    <3>2. CASE UNCHANGED jobs
      BY <2>d, <3>1, <3>2
    <3>3. CASE jobs' = [jobs EXCEPT ![s.job].status = "active"]
      BY <2>4, <3>1, <3>3
    <3> QED
      BY <2>7, <3>2, <3>3 DEF StartFails
  <2>8. ASSUME NEW j \in Jobs, NEW m \in Mounts, NEW k \in Kinds,
               Watch(k, j, m), jobs[j].kind = k, jobs[j].status # "none",
               UNCHANGED jobs, starts' \subseteq starts
        PROVE  LabInv'
    <3>1. \A p \in polls' : pollRef'[p.mount][jobs[p.job].kind] = p.job
      BY <2>a, <2>8, WatchKeepsOne
    <3>2. \A p \in polls' : jobs[p.job].status # "none"
      BY <2>8 DEF Watch, LabInv, Poll
    <3> QED
      BY <2>8, <3>1, <3>2 DEF LabInv, OnePollPerKind
  <2>9. ASSUME NEW s \in Starts, StartWatches(s)
        PROVE  LabInv'
    <3>1. s \in starts /\ s.phase = "get" /\ starts' = starts \ {s} /\ UNCHANGED jobs
      BY <2>9 DEF StartWatches, browserVars
    <3>2. Watch(jobs[s.job].kind, s.job, s.mount)
      BY <2>9, Zenon DEF StartWatches
    <3>3. /\ s.job \in Jobs /\ s.mount \in Mounts
          /\ jobs[s.job].kind \in Kinds /\ jobs[s.job].status # "none"
      BY <2>c, <3>1 DEF LabInv
    <3> QED
      BY <2>8, <3>1, <3>2, <3>3
  <2>10. ASSUME NEW j \in Jobs, NEW status \in Statuses, OpenPast(j, status)
         PROVE  LabInv'
    <3>1. /\ jobs[j].status # "none" /\ jobs[j].kind \in Kinds
          /\ UNCHANGED <<jobs, starts>>
      BY <2>10 DEF OpenPast, Kinds
    <3>2. mount \in Mounts
      BY <2>10, OpenMount DEF OpenPast, Clicking, TypeOK
    <3>3. Watch(jobs[j].kind, j, mount) \/ UNCHANGED <<polls, pollRef>>
      BY <2>10 DEF OpenPast
    <3> QED
      BY <2>d, <2>8, <3>1, <3>2, <3>3
  <2>11. ASSUME NEW p \in Polls,
                \/ PollTick(p) \/ RunPolled(p) \/ ScanPolled(p) \/ SweepPolled(p)
                \/ PollFails(p) \/ ResultsArrive(p) \/ ResultsFail(p)
         PROVE  LabInv'
    <3>1. UNCHANGED <<jobs, pollRef, starts>> /\ polls' \subseteq polls
      BY <2>11 DEF PollTick, RunPolled, ScanPolled, SweepPolled, PollFails, ResultsArrive,
                  ResultsFail
    <3> QED
      BY <2>d, <3>1
  <2> QED
    BY <2>1, <2>2, <2>3, <2>5, <2>6, <2>7, <2>9, <2>10, <2>11, LabSteps DEF LabNext
<1>3. LabInv => OnePollPerKind
  BY DEF LabInv
<1> QED
  BY <1>1, <1>2, <1>3, ClientTypeCorrect, PTL DEF Spec

(***************************************************************************)
(* The paper trading page.                                                 *)
(***************************************************************************)

\* Off screen the switch shows nothing, and no other page sends its requests.
OffScreen ==
  /\ page # "paper" => updates = {} /\ paperLoads = {} /\ autoShown = None /\ ~toggling
  /\ route # "here" => autoShown = None /\ ~toggling

\* As long as no update got lost, the one in flight is the open page's, which
\* waits for it; what the page shows is what the server had before it, and what
\* the update says is what the server has after it.
Settled ==
  /\ \A u \in updates : Alive(u.mount) /\ toggling /\ \A v \in updates : v = u
  /\ \A u \in updates : IF u.applied THEN autoServer = u.enabled ELSE autoShown = autoServer
  /\ autoShown # None /\ ~toggling => autoShown = autoServer

PaperInv == OffScreen /\ (~autoUnsure => Settled)

\* A switch at rest shows what the server will do with the next pick, unless an
\* update was lost on its way back or the page was left while one was in flight.
THEOREM AutoTradeCorrect == Spec => []AutoTradeShown
<1>1. Init => PaperInv
  BY DEF Init, BrowserInit, PaperInit, PaperInv, OffScreen, Settled
<1>2. ASSUME TypeOK, PaperInv, [Next]_vars
      PROVE  PaperInv'
  <2> USE <1>2 DEF PaperInv
  <2>a. updates \subseteq Updates /\ paperLoads \subseteq PaperLoads
    BY DEF TypeOK, PaperTypeOK
  <2>1. ASSUME UNCHANGED <<paperVars, page>>,
               page = "paper" => mount' = mount /\ ((route' = "here") <=> (route = "here"))
        PROVE  PaperInv'
    BY <2>1 DEF paperVars, OffScreen, Settled, Alive
  <2>2. CASE PaperOpens
    <3>1. /\ page = "paper" /\ page' = page /\ route # "here" /\ route' = "here"
          /\ UNCHANGED <<autoServer, autoShown, toggling, updates, autoUnsure>>
      BY <2>2 DEF PaperOpens, Opening
    <3>2. ~autoUnsure => updates = {}
      BY <3>1 DEF Settled, Alive
    <3> QED
      BY <3>1, <3>2 DEF OffScreen, Settled
  <2>3. ASSUME PaperUnmount, UNCHANGED <<page, updates>>, paperLoads' \subseteq paperLoads
        PROVE  PaperInv'
    BY <2>3 DEF PaperUnmount, OffScreen, Settled
  <2>4. CASE PaperLeaves
    BY <2>3, <2>4 DEF PaperLeaves, Closing, Walking, CheckBounces
  <2>5. CASE Toggle
    <3>1. PICK d : d = [enabled |-> ~autoShown, mount |-> mount, applied |-> FALSE]
      OBVIOUS
    <3>2. /\ page = "paper" /\ route = "here" /\ autoShown # None /\ ~toggling
          /\ UNCHANGED <<page, route, mount, autoServer, autoShown, autoUnsure>>
          /\ toggling' /\ updates' = updates \cup {d}
          /\ d.mount = mount /\ ~d.applied
      BY <2>5, <3>1 DEF Toggle, MayToggle, Clicking
    <3>3. ~autoUnsure => updates = {} /\ autoShown = autoServer
      BY <3>2 DEF Settled
    <3>4. ~autoUnsure => Settled'
      BY <3>2, <3>3 DEF Settled, Alive
    <3> QED
      BY <3>2, <3>4 DEF OffScreen
  <2>6. ASSUME NEW l \in PaperLoads, l \in paperLoads,
               TradesArrive(l) \/ SettingsArrive(l) \/ SettingsFail(l)
        PROVE  PaperInv'
    <3>1. /\ page = "paper" /\ paperLoads' \subseteq paperLoads
          /\ UNCHANGED <<page, route, mount, autoServer, toggling, updates, autoUnsure>>
          /\ autoShown' = autoShown \/ (route = "here" /\ autoShown' = autoServer)
      BY <2>6 DEF TradesArrive, SettingsArrive, SettingsFail, Fail, browserVars, OffScreen, Alive
    <3> QED
      BY <3>1 DEF OffScreen, Settled, Alive
  <2>7. ASSUME NEW l \in PaperLoads, TradesFail(l)
        PROVE  PaperInv'
    <3>1. CASE route = "here"
      BY <2>3, <2>7, <3>1 DEF TradesFail
    <3>2. CASE route # "here"
      <4>1. /\ UNCHANGED <<page, mount, autoServer, autoShown, toggling, updates, autoUnsure>>
            /\ route' # "here" /\ paperLoads' \subseteq paperLoads
        BY <2>7, <3>2 DEF TradesFail
      <4> QED
        BY <3>2, <4>1 DEF OffScreen, Settled, Alive
    <3> QED
      BY <3>1, <3>2
  <2>8. ASSUME NEW u \in Updates, UpdateApplied(u)
        PROVE  PaperInv'
    <3>1. PICK d : d = [u EXCEPT !.applied = TRUE]
      OBVIOUS
    <3>2. d.mount = u.mount /\ d.enabled = u.enabled /\ d.applied
      BY <3>1 DEF Updates
    <3>3. /\ u \in updates /\ updates' = (updates \ {u}) \cup {d} /\ autoServer' = u.enabled
          /\ UNCHANGED <<page, route, mount, autoShown, toggling, paperLoads, autoUnsure>>
      BY <2>8, <3>1 DEF UpdateApplied, browserVars
    <3>4. OffScreen'
      BY <3>3 DEF OffScreen
    <3>5. ASSUME ~autoUnsure
          PROVE  Settled'
      <4>1. updates' = {d} /\ Alive(d.mount) /\ toggling
        BY <3>2, <3>3, <3>5 DEF Settled
      <4> QED
        BY <3>2, <3>3, <4>1 DEF Settled, Alive
    <3> QED
      BY <3>3, <3>4, <3>5
  <2>9. ASSUME NEW u \in Updates, UpdateAnswered(u) \/ UpdateFails(u)
        PROVE  PaperInv'
    <3>1. /\ u \in updates /\ updates' = updates \ {u}
          /\ UNCHANGED <<page, route, mount, autoServer, paperLoads>>
      BY <2>9 DEF UpdateAnswered, UpdateFails, Fail, browserVars
    <3>2. CASE UpdateAnswered(u)
      <4>1. /\ u.applied /\ autoUnsure' = autoUnsure
            /\ IF Alive(u.mount) THEN autoShown' = u.enabled /\ toggling' = FALSE
                                 ELSE UNCHANGED <<autoShown, toggling>>
        BY <3>2 DEF UpdateAnswered
      <4> QED
        BY <3>1, <4>1 DEF OffScreen, Settled, Alive
    <3>3. CASE UpdateFails(u)
      <4>1. /\ autoShown' = autoShown
            /\ toggling' = (toggling /\ ~Alive(u.mount))
            /\ autoUnsure' = (autoUnsure \/ u.applied)
        BY <3>3 DEF UpdateFails
      <4> QED
        BY <3>1, <4>1 DEF OffScreen, Settled, Alive
    <3> QED
      BY <2>9, <3>2, <3>3
  <2>10. CASE PaperNext
    <3>1. CASE PaperOpens \/ PaperLeaves \/ Toggle
      BY <2>2, <2>4, <2>5, <3>1
    <3>2. ASSUME NEW l \in PaperLoads,
                 TradesArrive(l) \/ TradesFail(l) \/ SettingsArrive(l) \/ SettingsFail(l)
          PROVE  PaperInv'
      BY <2>6, <2>7, <3>2 DEF TradesArrive, SettingsArrive, SettingsFail
    <3>3. ASSUME NEW u \in Updates, UpdateApplied(u) \/ UpdateAnswered(u) \/ UpdateFails(u)
          PROVE  PaperInv'
      BY <2>8, <2>9, <3>3
    <3> QED
      BY <2>10, <3>1, <3>2, <3>3, Zenon DEF PaperNext
  <2> QED
    BY <2>1, <2>10, PaperSteps
<1>3. PaperInv => AutoTradeShown
  BY DEF PaperInv, Settled, AutoTradeShown
<1> QED
  BY <1>1, <1>2, <1>3, ClientTypeCorrect, PTL DEF Spec
=============================================================================
