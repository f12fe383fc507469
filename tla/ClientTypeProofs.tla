-------------------------- MODULE ClientTypeProofs --------------------------
(***************************************************************************)
(* Type correctness of the browser client, for every bound, every set of   *)
(* contracts, jobs, stocks, rules, brokers and lists: one lemma for the    *)
(* steps of the tab, one for each page, and the theorem that puts them     *)
(* together.                                                               *)
(***************************************************************************)
EXTENDS WebClient, TLAPS

\* The bounds of a page are natural numbers.
LEMMA PageBounds ==
  ASSUME BrowserTypeOK
  PROVE  MaxMounts[page] \in Nat /\ MaxClicks[page] \in Nat /\ MaxFaults \in Nat
BY BrowserBounds DEF BrowserTypeOK

\* Opening or loading a page sends a session check with a token that the
\* server has issued, and numbers the component within its bound.
LEMMA OpeningTyped ==
  ASSUME BrowserTypeOK, Opening \/ Loading
  PROVE  BrowserTypeOK' /\ mount' = mount + 1 /\ mount' \in 1..MaxMounts[page] /\ page' = page
<1>1. token # 0 \/ page \in UnguardedPages
  BY DEF Opening, Loading
<1>2. mount' \in 1..MaxMounts[page]
  BY PageBounds DEF BrowserTypeOK, Opening, Loading
<1>3. checks' \subseteq 1..session
  <2>1. page \in CheckedPages => token \in 1..session
    BY <1>1, BrowserBounds DEF BrowserTypeOK, CheckedPages, UnguardedPages
  <2> QED
    BY <2>1 DEF BrowserTypeOK, Opening, Loading
<1>4. /\ mount' = mount + 1 /\ route' = "here"
      /\ UNCHANGED <<page, session, token, expired, faults, clicks>>
  BY DEF Opening, Loading
<1>5. mount' \in 0..MaxMounts[page]
  BY <1>2, PageBounds
<1> QED
  BY <1>1, <1>2, <1>3, <1>4, <1>5 DEF BrowserTypeOK

\* A click and a failed request count within their bounds.
LEMMA ClickingTyped ==
  ASSUME BrowserTypeOK, Clicking
  PROVE  BrowserTypeOK' /\ page' = page /\ mount' = mount
BY PageBounds DEF BrowserTypeOK, Clicking

LEMMA FailTyped ==
  ASSUME BrowserTypeOK, Fail
  PROVE  BrowserTypeOK' /\ page' = page /\ mount' = mount
BY PageBounds DEF BrowserTypeOK, Fail

LEMMA ClosingTyped ==
  ASSUME BrowserTypeOK, Closing
  PROVE  BrowserTypeOK' /\ page' = page /\ mount' = mount
<1>1. CASE Walking
  BY <1>1, PageBounds, BrowserBounds DEF BrowserTypeOK, Walking
<1>2. ASSUME NEW s \in Sessions, CheckBounces(s)
      PROVE  BrowserTypeOK' /\ page' = page /\ mount' = mount
  BY <1>2 DEF BrowserTypeOK, CheckBounces
<1> QED
  BY <1>1, <1>2 DEF Closing

\* The tab's own steps keep its type.
LEMMA BrowserTyped ==
  ASSUME BrowserTypeOK, BrowserNext
  PROVE  BrowserTypeOK' /\ page' = page
<1>1. CASE SignIn
  BY <1>1, BrowserBounds DEF BrowserTypeOK, SignIn
<1>2. CASE CheckTick
  <2>1. token \in 1..session
    BY <1>2, BrowserBounds DEF BrowserTypeOK, CheckTick, CheckedPages, UnguardedPages
  <2> QED
    BY <1>2, <2>1 DEF BrowserTypeOK, CheckTick
<1>3. ASSUME NEW s \in Sessions, Expire(s)
      PROVE  BrowserTypeOK' /\ page' = page
  BY <1>3 DEF BrowserTypeOK, Expire
<1>4. ASSUME NEW s \in Sessions, CheckPasses(s)
      PROVE  BrowserTypeOK' /\ page' = page
  BY <1>4, PageBounds DEF BrowserTypeOK, CheckPasses
<1>5. ASSUME NEW s \in Sessions, CheckBounces(s)
      PROVE  BrowserTypeOK' /\ page' = page
  BY <1>5 DEF BrowserTypeOK, CheckBounces
<1> QED
  BY <1>1, <1>2, <1>3, <1>4, <1>5 DEF BrowserNext

\* The component on screen is one of Mounts, and so is one that opens.
LEMMA OpenMount ==
  ASSUME BrowserTypeOK
  PROVE  /\ route = "here" => mount \in Mounts
         /\ \A n \in 1..MaxMounts[page] : n \in Mounts
BY PageBounds DEF BrowserTypeOK, Mounts

(***************************************************************************)
(* The pages.                                                              *)
(***************************************************************************)

LEMMA FuturesTyped ==
  ASSUME BrowserTypeOK, FuturesTypeOK, FuturesNext
  PROVE  BrowserTypeOK' /\ FuturesTypeOK'
<1>1. ASSUME NEW c \in Contracts, OpenOn(c)
      PROVE  BrowserTypeOK' /\ FuturesTypeOK'
  <2>1. BrowserTypeOK' /\ mount' \in Mounts
    BY <1>1, OpeningTyped, OpenMount DEF OpenOn
  <2>2. quoteReqs' \subseteq QuoteReqs
    BY <1>1, <2>1, ContractAssumption DEF OpenOn, FuturesTypeOK, QuoteReqs
  <2> QED
    BY <1>1, <2>1, <2>2, ContractAssumption DEF OpenOn, FuturesTypeOK
<1>2. ASSUME NEW c \in Contracts, SwitchTo(c)
      PROVE  BrowserTypeOK' /\ FuturesTypeOK'
  <2>1. BrowserTypeOK' /\ mount \in Mounts
    BY <1>2, ClickingTyped, OpenMount DEF SwitchTo, Clicking
  <2>2. quoteReqs' \subseteq QuoteReqs
    BY <1>2, <2>1 DEF SwitchTo, FuturesTypeOK, QuoteReqs, Ask
  <2> QED
    BY <1>2, <2>1, <2>2 DEF SwitchTo, FuturesTypeOK
<1>3. ASSUME NEW r \in QuoteReqs, QuoteArrives(r)
      PROVE  BrowserTypeOK' /\ FuturesTypeOK'
  BY <1>3 DEF QuoteArrives, FuturesTypeOK, BrowserTypeOK, browserVars, QuoteReqs
<1>4. ASSUME NEW r \in QuoteReqs, QuoteFails(r)
      PROVE  BrowserTypeOK' /\ FuturesTypeOK'
  BY <1>4, FailTyped DEF QuoteFails, FuturesTypeOK
<1>5. CASE FuturesLeaves
  BY <1>5, ClosingTyped, ContractAssumption DEF FuturesLeaves, FuturesUnmount, FuturesTypeOK
<1>6. CASE QuoteTick
  <2>1. mount \in Mounts
    BY <1>6, OpenMount DEF QuoteTick, Shown
  <2> QED
    BY <1>6, <2>1 DEF QuoteTick, Ask, FuturesTypeOK, BrowserTypeOK, browserVars, QuoteReqs
<1> QED
  BY <1>1, <1>2, <1>3, <1>4, <1>5, <1>6
     DEF FuturesNext, GasOpens, MetalsOpens, GasSwitches, MetalsSwitches

\* What is rendered of well-formed state is a ticket, or none.
LEMMA RenderTyped ==
  ASSUME ticket \in Tickets \cup {None}, quoted' \in Stocks \cup {None},
         recommended' \in Recs \cup {None}, NEW changed, Render(changed)
  PROVE  ticket' \in Tickets \cup {None}
<1>1. ASSUME NEW side \in Sides, quoted' \in Stocks
      PROVE  Filled(side, quoted', recommended') \in Tickets
  <2>1. CASE recommended' # None /\ recommended'.signal \in Sides
    BY <2>1, StocksAssumption DEF Filled, Tickets, Recs
  <2>2. CASE ~(recommended' # None /\ recommended'.signal \in Sides)
    BY <1>1, <2>2 DEF Filled, Tickets, Sides
  <2> QED
    BY <2>1, <2>2
<1>2. "BUY" \in Sides /\ (ticket # None => ticket.side \in Sides)
  BY DEF Sides, Tickets
<1>3. TicketShown' => quoted' \in Stocks
  BY DEF TicketShown
<1> QED
  BY <1>1, <1>2, <1>3 DEF Render

LEMMA TicketTyped ==
  ASSUME BrowserTypeOK, TicketTypeOK, TicketNext
  PROVE  BrowserTypeOK' /\ TicketTypeOK'
<1>1. CASE TicketOpens
  BY <1>1, OpeningTyped DEF TicketOpens, TicketTypeOK, ticketVars
<1>2. CASE TicketLeaves
  BY <1>2, ClosingTyped DEF TicketLeaves, TicketTypeOK
<1>3. ASSUME NEW s \in Stocks, Select(s)
      PROVE  BrowserTypeOK' /\ TicketTypeOK'
  <2>1. BrowserTypeOK' /\ mount \in Mounts
    BY <1>3, ClickingTyped, OpenMount DEF Select, Clicking
  <2>2. asked' \subseteq Asked
    BY <1>3, <2>1 DEF Select, TicketTypeOK, Asked
  <2>3. /\ selected' \in Stocks /\ quoted' \in Stocks \cup {None}
        /\ recommended' \in Recs \cup {None}
    BY <1>3 DEF Select, TicketTypeOK, Recs
  <2>4. ticket' \in Tickets \cup {None}
    <3>1. PICK newer \in BOOLEAN : Render(newer \/ s # selected \/ recommended' # recommended)
      BY <1>3 DEF Select
    <3> QED
      BY <2>3, <3>1, RenderTyped DEF TicketTypeOK
  <2> QED
    BY <1>3, <2>1, <2>2, <2>3, <2>4 DEF Select, TicketTypeOK
<1>4. ASSUME NEW a \in Asked, QuoteComes(a)
      PROVE  BrowserTypeOK' /\ TicketTypeOK'
  <2>1. a.stock \in Stocks
    BY DEF Asked
  <2>2. quoted' \in Stocks \cup {None} /\ recommended' \in Recs \cup {None}
    BY <1>4, <2>1 DEF QuoteComes, TicketTypeOK
  <2>3. ticket' \in Tickets \cup {None}
    <3>1. PICK moved \in BOOLEAN : Render(moved /\ Shows(a))
      BY <1>4 DEF QuoteComes
    <3> QED
      BY <2>2, <3>1, RenderTyped DEF TicketTypeOK
  <2> QED
    BY <1>4, <2>1, <2>2, <2>3 DEF QuoteComes, TicketTypeOK, BrowserTypeOK, browserVars
<1>5. ASSUME NEW a \in Asked, NEW signal \in Signals, RecComes(a, signal)
      PROVE  BrowserTypeOK' /\ TicketTypeOK'
  <2>1. a.stock \in Stocks
    BY DEF Asked
  <2>2. quoted' \in Stocks \cup {None} /\ recommended' \in Recs \cup {None}
    BY <1>5, <2>1 DEF RecComes, TicketTypeOK, Recs
  <2>3. Render(Shows(a))
    BY <1>5 DEF RecComes
  <2>4. ticket' \in Tickets \cup {None}
    BY <2>2, <2>3, RenderTyped DEF TicketTypeOK
  <2> QED
    BY <1>5, <2>1, <2>2, <2>4 DEF RecComes, TicketTypeOK, BrowserTypeOK, browserVars
<1>6. ASSUME NEW a \in Asked, AskedFails(a)
      PROVE  BrowserTypeOK' /\ TicketTypeOK'
  <2>1. quoted' \in Stocks \cup {None} /\ recommended' \in Recs \cup {None}
    BY <1>6 DEF AskedFails, TicketTypeOK
  <2>2. ticket' \in Tickets \cup {None}
    BY <1>6, <2>1, RenderTyped DEF AskedFails, TicketTypeOK
  <2> QED
    BY <1>6, <2>2, FailTyped DEF AskedFails, TicketTypeOK
<1>7. ASSUME NEW side \in Sides, PickSide(side)
      PROVE  BrowserTypeOK' /\ TicketTypeOK'
  <2>1. ticket' \in Tickets \cup {None}
    BY <1>7 DEF PickSide, TicketTypeOK, Tickets
  <2> QED
    BY <1>7, <2>1, ClickingTyped DEF PickSide, TicketTypeOK
<1> QED
  BY <1>1, <1>2, <1>3, <1>4, <1>5, <1>6, <1>7 DEF TicketNext

LEMMA PaperTyped ==
  ASSUME BrowserTypeOK, PaperTypeOK, PaperNext
  PROVE  BrowserTypeOK' /\ PaperTypeOK'
<1>1. CASE PaperOpens
  <2>1. BrowserTypeOK' /\ mount' \in Mounts
    BY <1>1, OpeningTyped, OpenMount DEF PaperOpens
  <2>2. paperLoads' \subseteq PaperLoads
    <3>1. \A w \in {"trades", "settings"} : [what |-> w, mount |-> mount'] \in PaperLoads
      BY <2>1 DEF PaperLoads
    <3>2. paperLoads' = paperLoads \cup {[what |-> w, mount |-> mount'] : w \in {"trades", "settings"}}
      BY <1>1 DEF PaperOpens
    <3> QED
      BY <3>1, <3>2 DEF PaperTypeOK
  <2>3. UNCHANGED <<autoServer, autoShown, toggling, updates, autoUnsure>>
    BY <1>1 DEF PaperOpens
  <2> QED
    BY <2>1, <2>2, <2>3 DEF PaperTypeOK
<1>2. CASE PaperLeaves
  BY <1>2, ClosingTyped DEF PaperLeaves, PaperUnmount, PaperTypeOK
<1>3. CASE Toggle
  <2>1. BrowserTypeOK' /\ mount \in Mounts
    BY <1>3, ClickingTyped, OpenMount DEF Toggle, Clicking
  <2>2. [enabled |-> ~autoShown, mount |-> mount, applied |-> FALSE] \in Updates
    <3>1. (~autoShown) \in BOOLEAN
      OBVIOUS
    <3> QED
      BY <2>1, <3>1 DEF Updates
  <2> QED
    BY <1>3, <2>1, <2>2 DEF Toggle, PaperTypeOK
<1>4. ASSUME NEW l \in PaperLoads, TradesArrive(l) \/ SettingsArrive(l)
      PROVE  BrowserTypeOK' /\ PaperTypeOK'
  BY <1>4 DEF TradesArrive, SettingsArrive, PaperTypeOK, BrowserTypeOK, browserVars
<1>5. ASSUME NEW l \in PaperLoads, TradesFail(l)
      PROVE  BrowserTypeOK' /\ PaperTypeOK'
  <2>1. faults' \in 0..MaxFaults
    BY <1>5, PageBounds DEF TradesFail, BrowserTypeOK
  <2>2. token' \in 0..session'
    BY <1>5, BrowserBounds DEF TradesFail, BrowserTypeOK
  <2>3. BrowserTypeOK'
    <3>1. route' = "login" /\ token' = 0
          /\ UNCHANGED <<page, mount, session, expired, checks, clicks>>
      BY <1>5 DEF TradesFail
    <3> QED
      BY <2>1, <2>2, <3>1 DEF BrowserTypeOK
  <2>4. PaperTypeOK'
    BY <1>5 DEF TradesFail, PaperUnmount, PaperTypeOK
  <2> QED
    BY <2>3, <2>4
<1>6. ASSUME NEW l \in PaperLoads, SettingsFail(l)
      PROVE  BrowserTypeOK' /\ PaperTypeOK'
  BY <1>6, FailTyped DEF SettingsFail, PaperTypeOK
<1>7. ASSUME NEW u \in Updates, UpdateApplied(u)
      PROVE  BrowserTypeOK' /\ PaperTypeOK'
  <2>1. [u EXCEPT !.applied = TRUE] \in Updates /\ u.enabled \in BOOLEAN
    BY DEF Updates
  <2>2. updates' \subseteq Updates
    BY <1>7, <2>1 DEF UpdateApplied, PaperTypeOK
  <2> QED
    BY <1>7, <2>1, <2>2 DEF UpdateApplied, PaperTypeOK, BrowserTypeOK, browserVars
<1>8. ASSUME NEW u \in Updates, UpdateAnswered(u)
      PROVE  BrowserTypeOK' /\ PaperTypeOK'
  <2>1. u.enabled \in BOOLEAN
    BY DEF Updates
  <2> QED
    BY <1>8, <2>1 DEF UpdateAnswered, PaperTypeOK, BrowserTypeOK, browserVars
<1>9. ASSUME NEW u \in Updates, UpdateFails(u)
      PROVE  BrowserTypeOK' /\ PaperTypeOK'
  <2>1. u.applied \in BOOLEAN
    BY DEF Updates
  <2>2. toggling' \in BOOLEAN /\ autoUnsure' \in BOOLEAN
    BY <1>9, <2>1 DEF UpdateFails, PaperTypeOK
  <2> QED
    BY <1>9, <2>2, FailTyped DEF UpdateFails, PaperTypeOK
<1> QED
  BY <1>1, <1>2, <1>3, <1>4, <1>5, <1>6, <1>7, <1>8, <1>9 DEF PaperNext

LEMMA RuleTyped ==
  ASSUME BrowserTypeOK, RuleTypeOK, RuleNext
  PROVE  BrowserTypeOK' /\ RuleTypeOK'
<1> USE DEF RuleTypeOK
<1>1. CASE RulesOpens
  <2>1. BrowserTypeOK' /\ mount' \in Mounts
    BY <1>1, OpeningTyped, OpenMount DEF RulesOpens
  <2>2. [rules |-> ruleServer, mount |-> mount'] \in RulePolls
    BY <2>1 DEF RulePolls
  <2> QED
    BY <1>1, <2>1, <2>2 DEF RulesOpens
<1>2. CASE RulesLeaves
  BY <1>2, ClosingTyped DEF RulesLeaves
<1>3. CASE RuleTick
  <2>1. mount \in Mounts
    BY <1>3, OpenMount DEF RuleTick, RulesOpen
  <2>2. [rules |-> ruleServer, mount |-> mount] \in RulePolls
    BY <2>1 DEF RulePolls
  <2> QED
    BY <1>3, <2>2 DEF RuleTick, BrowserTypeOK, browserVars
<1>4. ASSUME NEW p \in RulePolls, PollArrives(p)
      PROVE  BrowserTypeOK' /\ RuleTypeOK'
  <2>1. p.rules \subseteq Rules
    BY DEF RulePolls
  <2> QED
    BY <1>4, <2>1 DEF PollArrives, BrowserTypeOK, browserVars
<1>5. ASSUME NEW p \in RulePolls, PollLost(p)
      PROVE  BrowserTypeOK' /\ RuleTypeOK'
  BY <1>5, FailTyped DEF PollLost
<1>6. ASSUME NEW r \in Rules, Create(r)
      PROVE  BrowserTypeOK' /\ RuleTypeOK'
  <2>1. mount \in Mounts
    BY <1>6, OpenMount DEF Create, RulesOpen
  <2>2. [rule |-> r, mount |-> mount, stored |-> FALSE] \in RuleCalls
    BY <2>1 DEF RuleCalls
  <2> QED
    BY <1>6, <2>2 DEF Create, BrowserTypeOK, browserVars
<1>7. ASSUME NEW r \in Rules, Delete(r)
      PROVE  BrowserTypeOK' /\ RuleTypeOK'
  <2>1. mount \in Mounts
    BY <1>7, OpenMount DEF Delete, RulesOpen
  <2>2. [rule |-> r, mount |-> mount, stored |-> FALSE] \in RuleCalls
    BY <2>1 DEF RuleCalls
  <2> QED
    BY <1>7, <2>2 DEF Delete, BrowserTypeOK, browserVars
<1>8. ASSUME NEW c \in RuleCalls, CreateStored(c) \/ DeleteStored(c)
      PROVE  BrowserTypeOK' /\ RuleTypeOK'
  <2>1. [c EXCEPT !.stored = TRUE] \in RuleCalls /\ c.rule \in Rules
    BY DEF RuleCalls
  <2> QED
    BY <1>8, <2>1 DEF CreateStored, DeleteStored, BrowserTypeOK, browserVars
<1>9. ASSUME NEW c \in RuleCalls, CreateAnswered(c) \/ CreateFails(c) \/ DeleteEnds(c)
      PROVE  BrowserTypeOK' /\ RuleTypeOK'
  <2>1. c.rule \in Rules
    BY DEF RuleCalls
  <2>2. BrowserTypeOK'
    BY <1>9, FailTyped DEF CreateAnswered, CreateFails, DeleteEnds, BrowserTypeOK, browserVars
  <2> QED
    BY <1>9, <2>1, <2>2 DEF CreateAnswered, CreateFails, DeleteEnds
<1> QED
  BY <1>1, <1>2, <1>3, <1>4, <1>5, <1>6, <1>7, <1>8, <1>9 DEF RuleNext

LEMMA BrokerTyped ==
  ASSUME BrowserTypeOK, BrokerTypeOK, BrokerNext
  PROVE  BrowserTypeOK' /\ BrokerTypeOK'
<1> USE BrokersAssumption DEF BrokerTypeOK
<1>a. ASSUME NEW url \in BOOLEAN, NEW old \in SUBSET Connects, NEW sent \in SUBSET StatusReqs,
             Mount(url, old, sent), mount' \in Mounts,
             kiteReturns' \in 0..MaxReturns, brokerServer' = brokerServer
      PROVE  BrokerTypeOK'
  <2>1. Kite \in Targets
    BY DEF Targets
  <2>2. [to |-> Kite, mount |-> mount', done |-> FALSE] \in Connects
        /\ [broker |-> brokerServer, mount |-> mount'] \in StatusReqs
    BY <1>a, <2>1 DEF Connects, StatusReqs
  <2>3. connects' \subseteq Connects /\ statusReqs' \subseteq StatusReqs
    BY <1>a, <2>2 DEF Mount
  <2>4. kiteSent' \in Nat
    BY <1>a DEF Mount
  <2> QED
    BY <1>a, <2>3, <2>4 DEF Mount
<1>1. CASE BrokerOpens
  <2>1. BrowserTypeOK' /\ mount' \in Mounts
    BY <1>1, OpeningTyped, OpenMount DEF BrokerOpens
  <2> QED
    BY <1>1, <1>a, <2>1 DEF BrokerOpens
<1>2. CASE BrokerReloads
  <2>1. BrowserTypeOK' /\ mount' \in Mounts
    BY <1>2, OpeningTyped, OpenMount DEF BrokerReloads
  <2>2. Mount(kiteUrl, {}, {}) /\ UNCHANGED <<kiteReturns, brokerServer>>
    BY <1>2 DEF BrokerReloads
  <2> QED
    BY <1>a, <2>1, <2>2
<1>3. CASE KiteReturns
  <2>1. BrowserTypeOK' /\ mount' \in Mounts
    BY <1>3, OpeningTyped, OpenMount DEF KiteReturns
  <2>2. Mount(TRUE, {}, {}) /\ brokerServer' = brokerServer
    BY <1>3, Zenon DEF KiteReturns
  <2>5. kiteReturns' \in 0..MaxReturns
    BY <1>3 DEF KiteReturns
  <2>3. TRUE \in BOOLEAN /\ {} \in SUBSET Connects /\ {} \in SUBSET StatusReqs
    OBVIOUS
  <2>4. BrokerTypeOK'
    BY <1>a, <2>1, <2>2, <2>3, <2>5
  <2> QED
    BY <2>1, <2>4
<1>4. CASE BrokerLeaves
  BY <1>4, ClosingTyped DEF BrokerLeaves
<1>5. ASSUME NEW b \in Targets, ConnectTo(b)
      PROVE  BrowserTypeOK' /\ BrokerTypeOK'
  <2>1. BrowserTypeOK' /\ mount \in Mounts
    BY <1>5, ClickingTyped, OpenMount DEF ConnectTo, Clicking
  <2>2. [to |-> b, mount |-> mount, done |-> FALSE] \in Connects
    BY <2>1 DEF Connects
  <2> QED
    BY <1>5, <2>1, <2>2 DEF ConnectTo
<1>6. ASSUME NEW r \in StatusReqs, StatusArrives(r) \/ StatusFails(r)
      PROVE  BrowserTypeOK' /\ BrokerTypeOK'
  <2>1. r.broker \in Targets
    BY DEF StatusReqs
  <2>2. BrowserTypeOK'
    BY <1>6, FailTyped DEF StatusArrives, StatusFails, BrowserTypeOK, browserVars
  <2> QED
    BY <1>6, <2>1, <2>2 DEF StatusArrives, StatusFails
<1>7. ASSUME NEW c \in Connects, ConnectDone(c)
      PROVE  BrowserTypeOK' /\ BrokerTypeOK'
  <2>1. [c EXCEPT !.done = TRUE] \in Connects /\ c.to \in Targets
    BY DEF Connects
  <2> QED
    BY <1>7, <2>1 DEF ConnectDone, BrowserTypeOK, browserVars
<1>8. ASSUME NEW c \in Connects, ConnectAnswered(c)
      PROVE  BrowserTypeOK' /\ BrokerTypeOK'
  <2>1. c.to \in Targets
    BY DEF Connects
  <2> QED
    BY <1>8, <2>1 DEF ConnectAnswered, BrowserTypeOK, browserVars
<1>9. ASSUME NEW c \in Connects, ConnectFails(c)
      PROVE  BrowserTypeOK' /\ BrokerTypeOK'
  BY <1>9, FailTyped DEF ConnectFails
<1> QED
  BY <1>1, <1>2, <1>3, <1>4, <1>5, <1>6, <1>7, <1>8, <1>9 DEF BrokerNext

LEMMA WatchTyped ==
  ASSUME BrowserTypeOK, WatchTypeOK, WatchNext
  PROVE  BrowserTypeOK' /\ WatchTypeOK'
<1> USE ListsAssumption DEF WatchTypeOK
<1>a. ASSUME NEW w \in {"lists", "items", "quotes", "edit", "select"}, NEW l \in Lists,
             NEW m \in Mounts
      PROVE  ListReq(w, l, m) \in ListReqs
  BY DEF ListReq, ListReqs
<1>b. ASSUME NEW r \in ListReqs, Alive(r.mount)
      PROVE  mount \in Mounts
  BY <1>b, OpenMount DEF Alive
<1>c. ASSUME NEW l \in Lists, NEW reqs \in SUBSET ListReqs, mount \in Mounts, Activate(l, reqs)
      PROVE  WatchTypeOK'
  <2>1. ListReq("items", l, mount) \in ListReqs
    BY <1>a, <1>c
  <2> QED
    BY <1>c, <2>1 DEF Activate
<1>d. ASSUME NEW l \in Lists, NEW reqs \in SUBSET ListReqs, mount \in Mounts, ItemsNow(l, reqs)
      PROVE  WatchTypeOK'
  <2>1. activeWl # None => ListReq("quotes", activeWl, mount) \in ListReqs
    BY <1>a, <1>d
  <2> QED
    BY <1>d, <2>1 DEF ItemsNow
<1>1. CASE WatchOpens
  <2>1. BrowserTypeOK' /\ mount' \in Mounts
    BY <1>1, OpeningTyped, OpenMount DEF WatchOpens
  <2>2. ListReq("lists", FirstList, mount') \in ListReqs
    BY <1>a, <2>1
  <2> QED
    BY <1>1, <2>1, <2>2 DEF WatchOpens
<1>2. CASE WatchLeaves
  BY <1>2, ClosingTyped DEF WatchLeaves
<1>3. ASSUME NEW l \in Lists, SelectList(l)
      PROVE  BrowserTypeOK' /\ WatchTypeOK'
  <2>1. BrowserTypeOK' /\ mount \in Mounts
    BY <1>3, ClickingTyped, OpenMount DEF SelectList, Clicking
  <2> QED
    BY <1>3, <1>c, <2>1 DEF SelectList
<1>4. ASSUME NEW l \in Lists, ChangeLists(l) \/ EditItems \/ Refresh
      PROVE  BrowserTypeOK' /\ WatchTypeOK'
  <2>1. BrowserTypeOK' /\ mount \in Mounts /\ activeWl \in Lists
    BY <1>4, ClickingTyped, OpenMount DEF ChangeLists, EditItems, Refresh, Clicking
  <2>2. \A k \in Lists, w \in {"select", "edit", "quotes"} : ListReq(w, k, mount) \in ListReqs
    BY <1>a, <2>1
  <2>3. listReqs' \subseteq ListReqs
    BY <1>4, <2>1, <2>2 DEF ChangeLists, EditItems, Refresh
  <2> QED
    BY <1>4, <2>1, <2>3 DEF ChangeLists, EditItems, Refresh
<1>5. CASE WatchTick
  <2>1. mount \in Mounts /\ refreshing \in Lists
    BY <1>5, OpenMount DEF WatchTick, WatchOpen
  <2>2. ListReq("quotes", refreshing, mount) \in ListReqs
    BY <1>a, <2>1
  <2> QED
    BY <1>5, <2>2 DEF WatchTick, BrowserTypeOK, browserVars
<1>6. ASSUME NEW r \in listReqs, ListsArrive(r) \/ ItemsArrive(r) \/ EditAnswered(r)
      PROVE  BrowserTypeOK' /\ WatchTypeOK'
  <2>1. BrowserTypeOK' /\ listReqs \ {r} \in SUBSET ListReqs /\ r \in ListReqs /\ r.list \in Lists
    BY <1>6 DEF ListsArrive, ItemsArrive, EditAnswered, BrowserTypeOK, browserVars, ListReqs
  <2>2. CASE Ignored(r)
    BY <2>1, <2>2 DEF Ignored
  <2>3. CASE Alive(r.mount) /\ Activate(r.list, listReqs \ {r})
    BY <1>b, <1>c, <2>1, <2>3
  <2>4. CASE Alive(r.mount) /\ ItemsNow(r.list, listReqs \ {r})
    BY <1>b, <1>d, <2>1, <2>4
  <2>5. CASE Alive(r.mount) /\ items \in Lists /\ ItemsNow(items, listReqs \ {r})
    BY <1>b, <1>d, <2>1, <2>5
  <2>6. CASE EditAnswered(r)
    <3>1. CASE items = None
      BY <2>2, <2>4, <2>6, <3>1 DEF EditAnswered
    <3>2. CASE items # None
      BY <2>2, <2>5, <2>6, <3>2 DEF EditAnswered
    <3> QED
      BY <3>1, <3>2
  <2> QED
    BY <1>6, <2>1, <2>2, <2>3, <2>4, <2>6 DEF ListsArrive, ItemsArrive
<1>7. ASSUME NEW r \in listReqs, ListQuotesArrive(r)
      PROVE  BrowserTypeOK' /\ WatchTypeOK'
  <2>1. r.list \in Lists
    BY DEF ListReqs
  <2> QED
    BY <1>7, <2>1 DEF ListQuotesArrive, BrowserTypeOK, browserVars
<1>8. ASSUME NEW r \in listReqs, ListReqFails(r)
      PROVE  BrowserTypeOK' /\ WatchTypeOK'
  BY <1>8, FailTyped DEF ListReqFails, Ignored
<1> QED
  BY <1>1, <1>2, <1>3, <1>4, <1>5, <1>6, <1>7, <1>8 DEF WatchNext

LEMMA SignalTyped ==
  ASSUME BrowserTypeOK, SignalTypeOK, SignalNext
  PROVE  BrowserTypeOK' /\ SignalTypeOK'
<1> USE SignalsAssumption DEF SignalTypeOK
<1>1. CASE SignalsMount
  <2>1. BrowserTypeOK' /\ mount' \in Mounts
    BY <1>1, OpeningTyped, OpenMount DEF SignalsMount
  <2>2. [row |-> served, mount |-> mount'] \in SignalReqs
    BY <2>1 DEF SignalReqs
  <2>3. heard' \in [Mounts -> Refs]
    BY <1>1 DEF SignalsMount, Refs
  <2> QED
    BY <1>1, <2>1, <2>2, <2>3 DEF SignalsMount, Load
<1>2. CASE SignalsLeave
  BY <1>2, ClosingTyped DEF SignalsLeave, signalVars
<1>3. CASE SignalTick
  <2>1. mount \in Mounts
    BY <1>3, OpenMount DEF SignalTick, SignalsOpen
  <2>2. [row |-> served, mount |-> mount] \in SignalReqs
    BY <2>1 DEF SignalReqs
  <2> QED
    BY <1>3, <2>2 DEF SignalTick, Load, BrowserTypeOK, browserVars
<1>4. ASSUME NEW l \in Labels, NEW b \in BOOLEAN, SignalChanges(l, b)
      PROVE  BrowserTypeOK' /\ SignalTypeOK'
  <2>1. served.n \in 0..MaxSignals /\ served.n < MaxSignals
    BY <1>4 DEF SignalChanges, Rows
  <2>2. served' \in Rows
    BY <1>4, <2>1 DEF SignalChanges, Rows
  <2> QED
    BY <1>4, <2>2 DEF SignalChanges, BrowserTypeOK, browserVars
<1>5. ASSUME NEW granted \in BOOLEAN, ToggleAlerts(granted)
      PROVE  BrowserTypeOK' /\ SignalTypeOK'
  <2>1. alarmStored' \in BOOLEAN
    BY <1>5 DEF ToggleAlerts
  <2>2. heard' \in [Mounts -> Refs]
    BY <1>5, <2>1 DEF ToggleAlerts, Refs
  <2> QED
    BY <1>5, <2>1, <2>2, ClickingTyped DEF ToggleAlerts
<1>6. ASSUME NEW r \in signalReqs, SignalsArrive(r)
      PROVE  BrowserTypeOK' /\ SignalTypeOK'
  <2>1. /\ r.mount \in Mounts /\ r.row.label \in Labels /\ r.row.n \in 0..MaxSignals
    BY DEF SignalReqs, Rows
  <2>2. heard[r.mount] \in Refs
    BY <2>1
  <2>3. [heard[r.mount] EXCEPT !.first = FALSE, !.prev = r.row.label, !.newest = r.row.n] \in Refs
    BY <2>1, <2>2 DEF Refs
  <2>4. heard' \in [Mounts -> Refs]
    BY <1>6, <2>1, <2>3 DEF SignalsArrive
  <2>5. rung' \subseteq 0..MaxSignals /\ rangTwice' \in BOOLEAN /\ overtaken' \in BOOLEAN
    BY <1>6, <2>1 DEF SignalsArrive
  <2> QED
    BY <1>6, <2>4, <2>5 DEF SignalsArrive, BrowserTypeOK, browserVars
<1>7. ASSUME NEW r \in signalReqs, SignalsFail(r)
      PROVE  BrowserTypeOK' /\ SignalTypeOK'
  BY <1>7, FailTyped DEF SignalsFail
<1> QED
  BY <1>1, <1>2, <1>3, <1>4, <1>5, <1>6, <1>7 DEF SignalNext

\* clearInterval and setInterval keep the intervals, and what the refs hold,
\* within their types.
LEMMA WatchKeepsType ==
  ASSUME LabTypeOK, NEW k, NEW j \in Jobs, NEW m \in Mounts, Watch(k, j, m)
  PROVE  polls' \subseteq Polls /\ pollRef' \in [Mounts -> [Kinds -> Jobs \cup {None}]]
<1>1. Poll(j, m) \in Polls
  BY DEF Poll, Polls
<1>2. polls' \subseteq Polls
  BY <1>1 DEF Watch, LabTypeOK
<1>3. [pollRef[m] EXCEPT ![k] = j] \in [Kinds -> Jobs \cup {None}]
  BY DEF LabTypeOK
<1>4. pollRef' \in [Mounts -> [Kinds -> Jobs \cup {None}]]
  BY <1>3 DEF Watch, LabTypeOK
<1> QED
  BY <1>2, <1>4

LEMMA LabTyped ==
  ASSUME BrowserTypeOK, LabTypeOK, LabNext
  PROVE  BrowserTypeOK' /\ LabTypeOK'
<1> USE DEF LabTypeOK
<1>a. ASSUME NEW j \in Jobs
      PROVE  /\ jobs[j] \in [kind : Kinds \cup {None}, status : Statuses]
             /\ jobs[j].kind \in Kinds \cup {None} /\ jobs[j].status \in Statuses
  OBVIOUS
<1>b. ASSUME NEW j \in Jobs, NEW st \in Statuses
      PROVE  [jobs EXCEPT ![j].status = st] \in [Jobs -> [kind : Kinds \cup {None}, status : Statuses]]
  BY <1>a
<1>1. CASE LabOpens
  BY <1>1, OpeningTyped DEF LabOpens, labVars
<1>2. CASE LabLeaves
  <2>1. polls' \subseteq polls
    BY <1>2 DEF LabLeaves
  <2>2. active' \in [Kinds -> Jobs \cup {None}] /\ results' = None
        /\ UNCHANGED <<jobs, starts, pollRef, ticks, loads>>
    BY <1>2 DEF LabLeaves
  <2>3. BrowserTypeOK'
    BY <1>2, ClosingTyped DEF LabLeaves
  <2> QED
    BY <2>1, <2>2, <2>3
<1>3. ASSUME NEW j \in Jobs, NEW k \in Kinds, Start(j, k)
      PROVE  BrowserTypeOK' /\ LabTypeOK'
  <2>1. BrowserTypeOK' /\ mount \in Mounts
    BY <1>3, ClickingTyped, OpenMount DEF Start, Clicking
  <2>2. [job |-> j, mount |-> mount, phase |-> "post"] \in Starts
    BY <2>1 DEF Starts
  <2>3. jobs' \in [Jobs -> [kind : Kinds \cup {None}, status : Statuses]]
    BY <1>3, <1>a DEF Start
  <2>4. active' \in [Kinds -> Jobs \cup {None}]
    BY <1>3 DEF Start
  <2> QED
    BY <1>3, <2>1, <2>2, <2>3, <2>4 DEF Start
<1>4. ASSUME NEW j \in Jobs, NEW how \in {"completed", "failed"}, JobEnds(j, how)
      PROVE  BrowserTypeOK' /\ LabTypeOK'
  <2>1. how \in Statuses
    BY DEF Statuses
  <2> QED
    BY <1>4, <1>b, <2>1 DEF JobEnds, BrowserTypeOK, browserVars
<1>5. ASSUME NEW j \in Jobs, NEW status \in Statuses, OpenPast(j, status)
      PROVE  BrowserTypeOK' /\ LabTypeOK'
  <2>1. BrowserTypeOK' /\ mount \in Mounts
    BY <1>5, ClickingTyped, OpenMount DEF OpenPast, Clicking
  <2>2. jobs[j].kind \in Kinds
    BY <1>5 DEF OpenPast, Kinds
  <2>3. polls' \subseteq Polls /\ pollRef' \in [Mounts -> [Kinds -> Jobs \cup {None}]]
    BY <1>5, <2>1, <2>2, WatchKeepsType DEF OpenPast
  <2>4. Poll(j, mount) \in Polls
    BY <2>1 DEF Poll, Polls
  <2>5. loads' \subseteq Polls
    BY <1>5, <2>4 DEF OpenPast
  <2>6. active' \in [Kinds -> Jobs \cup {None}] /\ results' \in Jobs \cup {None}
        /\ UNCHANGED <<jobs, starts, ticks>>
    BY <1>5 DEF OpenPast
  <2> QED
    BY <2>1, <2>3, <2>5, <2>6
<1>6. ASSUME NEW s \in Starts, StartPosted(s)
      PROVE  BrowserTypeOK' /\ LabTypeOK'
  <2>1. s.job \in Jobs /\ [s EXCEPT !.phase = "get"] \in Starts /\ "active" \in Statuses
    BY DEF Starts, Statuses
  <2>2. jobs' \in [Jobs -> [kind : Kinds \cup {None}, status : Statuses]]
    BY <1>6, <1>b, <2>1 DEF StartPosted
  <2> QED
    BY <1>6, <2>1, <2>2 DEF StartPosted, BrowserTypeOK, browserVars
<1>7. ASSUME NEW s \in Starts, StartFails(s)
      PROVE  BrowserTypeOK' /\ LabTypeOK'
  <2>1. s.job \in Jobs /\ "active" \in Statuses
    BY DEF Starts, Statuses
  <2>2. jobs' \in [Jobs -> [kind : Kinds \cup {None}, status : Statuses]]
    BY <1>7, <1>b, <2>1 DEF StartFails
  <2> QED
    BY <1>7, <2>2, FailTyped DEF StartFails
<1>8. ASSUME NEW p \in Polls, PollTick(p) \/ PollFails(p)
      PROVE  BrowserTypeOK' /\ LabTypeOK'
  <2>1. BrowserTypeOK'
    BY <1>8, FailTyped DEF PollTick, PollFails, BrowserTypeOK, browserVars
  <2> QED
    BY <1>8, <2>1 DEF PollTick, PollFails
<1>9. ASSUME NEW p \in Polls, RunPolled(p) \/ ScanPolled(p) \/ SweepPolled(p)
      PROVE  BrowserTypeOK' /\ LabTypeOK'
  <2>1. p.job \in Jobs /\ p.mount \in Mounts
    BY DEF Polls
  <2>2. active' \in [Kinds -> Jobs \cup {None}]
    BY <1>9, <2>1 DEF RunPolled, ScanPolled, SweepPolled
  <2>3. polls' \subseteq Polls /\ loads' \subseteq Polls /\ ticks' \subseteq Polls
    BY <1>9 DEF RunPolled, ScanPolled, SweepPolled
  <2>4. UNCHANGED <<jobs, starts, pollRef, results, browserVars>>
    BY <1>9 DEF RunPolled, ScanPolled, SweepPolled
  <2> QED
    BY <2>2, <2>3, <2>4 DEF BrowserTypeOK, browserVars
<1>10. ASSUME NEW l \in Polls, ResultsArrive(l) \/ ResultsFail(l)
       PROVE  BrowserTypeOK' /\ LabTypeOK'
  <2>1. l.job \in Jobs
    BY DEF Polls
  <2>2. BrowserTypeOK'
    BY <1>10, FailTyped DEF ResultsArrive, ResultsFail, BrowserTypeOK, browserVars
  <2> QED
    BY <1>10, <2>1, <2>2 DEF ResultsArrive, ResultsFail
<1>11. ASSUME NEW p \in Polls,
              \/ PollTick(p) \/ RunPolled(p) \/ ScanPolled(p) \/ SweepPolled(p)
              \/ PollFails(p) \/ ResultsArrive(p) \/ ResultsFail(p)
       PROVE  BrowserTypeOK' /\ LabTypeOK'
  BY <1>8, <1>9, <1>10, <1>11
<1>12. ASSUME NEW s \in Starts, StartPosted(s) \/ StartWatches(s) \/ StartFails(s)
       PROVE  BrowserTypeOK' /\ LabTypeOK'
  <2>1. CASE StartWatches(s)
    <3>1. s.job \in Jobs /\ s.mount \in Mounts
      BY DEF Starts
    <3>2. Watch(jobs[s.job].kind, s.job, s.mount)
      BY <2>1, Zenon DEF StartWatches
    <3>3. polls' \subseteq Polls /\ pollRef' \in [Mounts -> [Kinds -> Jobs \cup {None}]]
      BY <3>1, <3>2, WatchKeepsType
    <3>4. active' \in [Kinds -> Jobs \cup {None}] /\ starts' \subseteq Starts
          /\ UNCHANGED <<jobs, ticks, loads, results, browserVars>>
      BY <2>1, <3>1 DEF StartWatches
    <3> QED
      BY <3>3, <3>4 DEF BrowserTypeOK, browserVars
  <2> QED
    BY <1>6, <1>7, <1>12, <2>1
<1>13. ASSUME NEW j \in Jobs, JobEnds(j, "completed") \/ JobEnds(j, "failed")
       PROVE  BrowserTypeOK' /\ LabTypeOK'
  BY <1>4, <1>13
<1> QED
  BY <1>1, <1>2, <1>3, <1>5, <1>11, <1>12, <1>13 DEF LabNext

\* The broker is changed within its bound; a session is stored and cached only
\* once it was issued.
LEMMA SessionTyped ==
  ASSUME SessionTypeOK
  PROVE  /\ \A w \in Workers : LogIn(w) \/ UseSimulated(w) \/ Disconnect(w) => SessionTypeOK'
         /\ \A x \in writes : WriteArrives(x) \/ WriteFails(x) => SessionTypeOK'
         /\ Lapse => SessionTypeOK'
         /\ \A w \in Workers, b \in CacheValues : Remember(w, b) => SessionTypeOK'
         /\ \A w \in Workers : Forget(w) => SessionTypeOK'
<1> USE SwitchBound DEF SessionTypeOK, CacheValues, LiveSessions, Writes
<1>1. ASSUME NEW w \in Workers, LogIn(w) \/ UseSimulated(w) \/ Disconnect(w)
      PROVE  SessionTypeOK'
  <2>1. switches' \in 0..MaxSwitches /\ switches' \in LiveSessions
    BY <1>1 DEF LogIn, UseSimulated, Disconnect, Switch
  <2>2. stored' = stored
    BY <1>1 DEF LogIn, UseSimulated, Disconnect
  <2>3. cached' \in [Workers -> CacheValues]
    BY <1>1, <2>1 DEF LogIn, UseSimulated, Disconnect
  <2>4. writes' \subseteq Writes
    BY <1>1, <2>1 DEF LogIn, UseSimulated, Disconnect
  <2> QED
    BY <2>1, <2>2, <2>3, <2>4
<1>2. ASSUME NEW x \in writes, WriteArrives(x) \/ WriteFails(x)
      PROVE  SessionTypeOK'
  BY <1>2 DEF WriteArrives, WriteFails
<1>3. Lapse => SessionTypeOK'
  BY DEF Lapse
<1>4. ASSUME NEW w \in Workers, NEW b \in CacheValues, Remember(w, b)
      PROVE  SessionTypeOK'
  BY <1>4 DEF Remember
<1>5. ASSUME NEW w \in Workers, Forget(w)
      PROVE  SessionTypeOK'
  BY <1>5 DEF Forget
<1> QED
  BY <1>1, <1>2, <1>3, <1>4, <1>5

LEMMA BreaksTyped ==
  ASSUME BrowserTypeOK, Breaks
  PROVE  BrowserTypeOK' /\ page' = page /\ mount' = mount
BY PageBounds DEF BrowserTypeOK, Breaks

LEMMA LiveTyped ==
  ASSUME BrowserTypeOK, LiveTypeOK, LiveNext
  PROVE  BrowserTypeOK' /\ LiveTypeOK'
<1> USE DEF LiveTypeOK, States
<1>a. ASSUME NEW k \in {"place", "cancel", "refresh", "list"}, NEW o \in Orders \cup {None},
             o = None <=> k \in {"refresh", "list"}, NEW m \in Mounts \cup {0}, NEW w \in Workers
      PROVE  Request(k, o, m, w) \in LiveReqs
  BY <1>a DEF Request, LiveReqs, CacheValues
<1>b. ASSUME NEW r \in liveReqs, NEW at \in {"sent", "read", "held", "acted", "saved"},
             NEW b \in CacheValues
      PROVE  Moved(r, at, b) \subseteq LiveReqs
  <2>1. [r EXCEPT !.at = at, !.as = b] \in LiveReqs
    BY DEF LiveReqs
  <2> QED
    BY <2>1 DEF Moved
<1>c. ASSUME UNCHANGED sessionVars
      PROVE  SessionTypeOK'
  BY <1>c DEF SessionTypeOK, sessionVars
<1>d. ASSUME UNCHANGED browserVars
      PROVE  BrowserTypeOK'
  BY <1>d DEF BrowserTypeOK, browserVars
<1>e. \A r \in liveReqs : /\ r.worker \in Workers /\ r.mount \in Mounts \cup {0} /\ r.as \in CacheValues
                          /\ r.kind \in {"place", "cancel"} => r.order \in Orders
  BY DEF LiveReqs
<1>f. SimBroker \in CacheValues /\ cached \in [Workers -> CacheValues] /\ stored \in CacheValues
  BY DEF SessionTypeOK, CacheValues
<1>1. CASE LiveOpens
  <2>1. BrowserTypeOK' /\ mount' \in Mounts
    BY <1>1, OpeningTyped, OpenMount DEF LiveOpens
  <2>2. \A w \in Workers : Request("list", None, mount', w) \in LiveReqs
    BY <1>a, <2>1
  <2> QED
    BY <1>1, <1>c, <2>1, <2>2 DEF LiveOpens
<1>2. CASE LiveLeaves
  BY <1>2, <1>c, ClosingTyped DEF LiveLeaves
<1>3. CASE SessionStep
  BY <1>3, <1>d, SessionTyped DEF SessionStep, liveVars
<1>4. CASE SessionWriteFails
  BY <1>4, BreaksTyped, SessionTyped DEF SessionWriteFails, liveVars
<1>5. ASSUME NEW o \in Orders, Submit(o) \/ SubmitCancel(o)
      PROVE  BrowserTypeOK' /\ LiveTypeOK'
  <2>1. BrowserTypeOK' /\ mount \in Mounts
    BY <1>5, ClickingTyped, OpenMount DEF Submit, SubmitCancel, LiveOpen
  <2>2. \A w \in Workers, k \in {"place", "cancel"} : Request(k, o, mount, w) \in LiveReqs
    BY <1>a, <2>1, OrdersAssumption
  <2> QED
    BY <1>5, <1>c, <2>1, <2>2 DEF Submit, SubmitCancel
<1>6. ASSUME NEW o \in Orders, BrokerFills(o)
      PROVE  BrowserTypeOK' /\ LiveTypeOK'
  BY <1>6, <1>c, <1>d DEF BrokerFills
<1>7. ASSUME NEW w \in Workers, WorkerRestarts(w)
      PROVE  BrowserTypeOK' /\ LiveTypeOK'
  <2>1. BrowserTypeOK' /\ SessionTypeOK'
    BY <1>7, BreaksTyped, SessionTyped DEF WorkerRestarts
  <2>2. cut' \subseteq Orders
    BY <1>7, <1>e DEF WorkerRestarts
  <2> QED
    BY <1>7, <2>1, <2>2 DEF WorkerRestarts
<1>8. ASSUME NEW r \in liveReqs, OrderAnswered(r) \/ ListArrives(r) \/ LiveRefused(r) \/ BrokerRefuses(r)
      PROVE  BrowserTypeOK' /\ LiveTypeOK'
  <2>1. \A w \in Workers, k \in {"refresh", "list"} : Request(k, None, r.mount, w) \in LiveReqs
    BY <1>a, <1>e
  <2>2. liveReqs' \subseteq LiveReqs
    BY <1>8, <2>1 DEF OrderAnswered, ListArrives, LiveRefused, BrokerRefuses, LiveEnds
  <2>3. ordersShown' \subseteq Orders
    BY <1>8 DEF OrderAnswered, ListArrives, LiveRefused, BrokerRefuses, LiveEnds, Listed
  <2>4. liveBusy' \in BOOLEAN
    BY <1>8, Zenon DEF OrderAnswered, ListArrives, LiveRefused, BrokerRefuses, LiveEnds, Released
  <2>5. UNCHANGED <<book, record, cut, sessionVars, browserVars>>
    BY <1>8 DEF OrderAnswered, ListArrives, LiveRefused, BrokerRefuses
  <2> QED
    BY <1>c, <1>d, <2>2, <2>3, <2>4, <2>5
<1>9. ASSUME NEW r \in liveReqs, AnswerLost(r) \/ BrokerAnswerLost(r)
      PROVE  BrowserTypeOK' /\ LiveTypeOK'
  <2>1. [r EXCEPT !.mount = 0] \in LiveReqs
    BY DEF LiveReqs
  <2>2. liveReqs' \subseteq LiveReqs /\ cut' \subseteq Orders
    BY <1>9, <1>e, <2>1 DEF AnswerLost, BrokerAnswerLost, LiveEnds
  <2>3. liveBusy' \in BOOLEAN
    BY <1>9, Zenon DEF AnswerLost, BrokerAnswerLost, LiveEnds, Released
  <2>4. BrowserTypeOK' /\ UNCHANGED <<book, record, ordersShown, sessionVars>>
    BY <1>9, BreaksTyped DEF AnswerLost, BrokerAnswerLost, LiveEnds
  <2> QED
    BY <1>c, <2>2, <2>3, <2>4
<1>10. ASSUME NEW r \in liveReqs, LookUp(r) \/ LookUpEnds(r) \/ LookUpFails(r)
       PROVE  BrowserTypeOK' /\ LiveTypeOK'
  <2>1. BrowserTypeOK'
    BY <1>10, <1>d, BreaksTyped DEF LookUp, LookUpEnds, LookUpFails
  <2>2. SessionTypeOK'
    BY <1>10, <1>c, <1>e, SessionTyped DEF LookUp, LookUpEnds, LookUpFails
  <2>3. cached[r.worker] \in CacheValues
    BY <1>e, <1>f
  <2>4. liveReqs' \subseteq LiveReqs
    BY <1>10, <1>b, <1>e, <1>f, <2>3 DEF LookUp, LookUpEnds, LookUpFails
  <2>5. UNCHANGED <<book, record, cut, liveBusy, ordersShown>>
    BY <1>10 DEF LookUp, LookUpEnds, LookUpFails
  <2> QED
    BY <2>1, <2>2, <2>4, <2>5
<1>11. ASSUME NEW r \in liveReqs,
              BrokerTakes(r) \/ BrokerCancels(r) \/ Save(r) \/ SaveFails(r) \/ UpdateStatus(r)
       PROVE  BrowserTypeOK' /\ LiveTypeOK'
  <2>1. BrowserTypeOK' /\ SessionTypeOK'
    BY <1>11, <1>c, <1>d, BreaksTyped DEF BrokerTakes, BrokerCancels, Save, SaveFails, UpdateStatus
  <2>2. liveReqs' \subseteq LiveReqs
    BY <1>11, <1>b, <1>e DEF BrokerTakes, BrokerCancels, Save, SaveFails, UpdateStatus
  <2>3. Placed(r) \in States
    BY DEF Placed
  <2>4. book' \in [Orders -> States] /\ record' \in [Orders -> States]
    BY <1>11, <2>3 DEF BrokerTakes, BrokerCancels, Save, SaveFails, UpdateStatus
  <2>5. cut' \subseteq Orders
    BY <1>11, <1>e DEF BrokerTakes, BrokerCancels, Save, SaveFails, UpdateStatus
  <2>6. UNCHANGED <<liveBusy, ordersShown>>
    BY <1>11 DEF BrokerTakes, BrokerCancels, Save, SaveFails, UpdateStatus
  <2> QED
    BY <2>1, <2>2, <2>4, <2>5, <2>6
<1> QED
  BY <1>1, <1>2, <1>3, <1>4, <1>5, <1>6, <1>7, <1>8, <1>9, <1>10, <1>11 DEF LiveNext

(***************************************************************************)
(* The client.                                                             *)
(***************************************************************************)

\* A page that a step of the tab or of another page leaves alone keeps its type.
LEMMA FramesTyped ==
  /\ FuturesTypeOK /\ UNCHANGED futuresVars => FuturesTypeOK'
  /\ LabTypeOK /\ UNCHANGED labVars => LabTypeOK'
  /\ TicketTypeOK /\ UNCHANGED ticketVars => TicketTypeOK'
  /\ PaperTypeOK /\ UNCHANGED paperVars => PaperTypeOK'
  /\ RuleTypeOK /\ UNCHANGED ruleVars => RuleTypeOK'
  /\ BrokerTypeOK /\ UNCHANGED brokerVars => BrokerTypeOK'
  /\ SignalTypeOK /\ UNCHANGED signalVars => SignalTypeOK'
  /\ WatchTypeOK /\ UNCHANGED watchVars => WatchTypeOK'
  /\ LiveTypeOK /\ UNCHANGED <<sessionVars, liveVars>> => LiveTypeOK'
<1>1. FuturesTypeOK /\ UNCHANGED futuresVars => FuturesTypeOK'
  BY DEF FuturesTypeOK, futuresVars
<1>2. LabTypeOK /\ UNCHANGED labVars => LabTypeOK'
  BY DEF LabTypeOK, labVars
<1>3. TicketTypeOK /\ UNCHANGED ticketVars => TicketTypeOK'
  BY DEF TicketTypeOK, ticketVars
<1>4. PaperTypeOK /\ UNCHANGED paperVars => PaperTypeOK'
  BY DEF PaperTypeOK, paperVars
<1>5. RuleTypeOK /\ UNCHANGED ruleVars => RuleTypeOK'
  BY DEF RuleTypeOK, ruleVars
<1>6. BrokerTypeOK /\ UNCHANGED brokerVars => BrokerTypeOK'
  BY DEF BrokerTypeOK, brokerVars
<1>7. SignalTypeOK /\ UNCHANGED signalVars => SignalTypeOK'
  BY DEF SignalTypeOK, signalVars
<1>8. WatchTypeOK /\ UNCHANGED watchVars => WatchTypeOK'
  BY DEF WatchTypeOK, watchVars
<1>9. LiveTypeOK /\ UNCHANGED <<sessionVars, liveVars>> => LiveTypeOK'
  BY DEF LiveTypeOK, SessionTypeOK, sessionVars, liveVars
<1> QED
  BY <1>1, <1>2, <1>3, <1>4, <1>5, <1>6, <1>7, <1>8, <1>9

LEMMA InitTyped == Init => TypeOK
<1> SUFFICES ASSUME Init PROVE TypeOK
  OBVIOUS
<1> USE DEF Init
<1>1. BrowserTypeOK
  BY BrowserBounds DEF BrowserInit, BrowserTypeOK
<1>2. FuturesTypeOK
  BY ContractAssumption DEF FuturesInit, FuturesTypeOK
<1>3. LabTypeOK
  BY DEF LabInit, LabTypeOK, Statuses
<1>4. TicketTypeOK
  BY DEF TicketInit, TicketTypeOK
<1>5. PaperTypeOK
  BY DEF PaperInit, PaperTypeOK
<1>6. RuleTypeOK
  BY DEF RuleInit, RuleTypeOK
<1>7. BrokerTypeOK
  <2>1. Simulated \in Targets
    BY DEF Targets
  <2>2. 0 \in 0..MaxReturns
    BY BrokersAssumption
  <2> QED
    BY <2>1, <2>2 DEF BrokerPageInit, BrokerTypeOK
<1>8. SignalTypeOK
  <2>1. 0 \in 0..MaxSignals /\ None \in Labels
    BY SignalsAssumption DEF Labels
  <2>2. [label |-> None, blocked |-> FALSE, n |-> 0] \in Rows
    BY <2>1 DEF Rows
  <2>3. [on |-> FALSE, first |-> TRUE, prev |-> None, newest |-> 0] \in Refs
    BY <2>1 DEF Refs
  <2> QED
    BY <2>2, <2>3 DEF SignalInit, SignalTypeOK
<1>9. WatchTypeOK
  BY DEF WatchInit, WatchTypeOK
<1>10. LiveTypeOK
  <2>1. SessionTypeOK
    BY SwitchBound DEF SessionInit, SessionTypeOK, CacheValues
  <2>2. "none" \in States
    BY DEF States
  <2> QED
    BY <2>1, <2>2 DEF LiveInit, LiveTypeOK
<1> QED
  BY <1>1, <1>2, <1>3, <1>4, <1>5, <1>6, <1>7, <1>8, <1>9, <1>10 DEF TypeOK

LEMMA NextTyped == TypeOK /\ [Next]_vars => TypeOK'
<1> SUFFICES ASSUME TypeOK, [Next]_vars PROVE TypeOK'
  OBVIOUS
<1> USE FramesTyped DEF TypeOK
<1>1. CASE BrowserNext /\ UNCHANGED <<futuresVars, labVars, ticketVars, paperVars, ruleVars,
                                     brokerVars, signalVars, watchVars, sessionVars, liveVars>>
  BY <1>1, BrowserTyped
<1>2. CASE FuturesNext /\ UNCHANGED <<labVars, ticketVars, paperVars, ruleVars,
                                     brokerVars, signalVars, watchVars, sessionVars, liveVars>>
  BY <1>2, FuturesTyped
<1>3. CASE LabNext /\ UNCHANGED <<futuresVars, ticketVars, paperVars, ruleVars,
                                 brokerVars, signalVars, watchVars, sessionVars, liveVars>>
  BY <1>3, LabTyped
<1>4. CASE TicketNext /\ UNCHANGED <<futuresVars, labVars, paperVars, ruleVars,
                                    brokerVars, signalVars, watchVars, sessionVars, liveVars>>
  BY <1>4, TicketTyped
<1>5. CASE PaperNext /\ UNCHANGED <<futuresVars, labVars, ticketVars, ruleVars,
                                   brokerVars, signalVars, watchVars, sessionVars, liveVars>>
  BY <1>5, PaperTyped
<1>6. CASE RuleNext /\ UNCHANGED <<futuresVars, labVars, ticketVars, paperVars,
                                  brokerVars, signalVars, watchVars, sessionVars, liveVars>>
  BY <1>6, RuleTyped
<1>7. CASE BrokerNext /\ UNCHANGED <<futuresVars, labVars, ticketVars, paperVars, ruleVars,
                                    signalVars, watchVars, sessionVars, liveVars>>
  BY <1>7, BrokerTyped
<1>8. CASE SignalNext /\ UNCHANGED <<futuresVars, labVars, ticketVars, paperVars, ruleVars,
                                    brokerVars, watchVars, sessionVars, liveVars>>
  BY <1>8, SignalTyped
<1>9. CASE WatchNext /\ UNCHANGED <<futuresVars, labVars, ticketVars, paperVars, ruleVars,
                                   brokerVars, signalVars, sessionVars, liveVars>>
  BY <1>9, WatchTyped
<1>10. CASE LiveNext /\ UNCHANGED <<futuresVars, labVars, ticketVars, paperVars, ruleVars,
                                   brokerVars, signalVars, watchVars>>
  BY <1>10, LiveTyped
<1>11. CASE UNCHANGED vars
  BY <1>11 DEF vars, browserVars, BrowserTypeOK
<1> QED
  BY <1>1, <1>2, <1>3, <1>4, <1>5, <1>6, <1>7, <1>8, <1>9, <1>10, <1>11 DEF Next

\* Whatever the user does and however requests fail, the client's state stays
\* within its type: in particular a guarded page has a token, and a session check
\* is only ever sent with a token that the server has issued.
THEOREM ClientTypeCorrect == Spec => []TypeOK
BY InitTyped, NextTyped, PTL DEF Spec
=============================================================================
