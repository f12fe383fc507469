---------------------------- MODULE FuturesView ----------------------------
(***************************************************************************)
(* The MCX pages: natural gas (app/mcx/mcx-view.tsx) and metals            *)
(* (app/mcx/metals/metals-view.tsx).  Both show the quote of one selected   *)
(* contract, poll it, keep the last quote of every contract in             *)
(* localStorage, and let the user switch contracts while quotes of the     *)
(* previous one are still in flight.                                       *)
(*                                                                         *)
(* A quote is abstracted to the contract it is about.                      *)
(***************************************************************************)
EXTENDS Browser

CONSTANTS
  Contracts,
  DefaultContract  \* what useState starts from: NG, or GOLD

ASSUME ContractAssumption ==
  DefaultContract \in Contracts /\ None \notin Contracts

VARIABLES
  contract,    \* the selected contract
  quote,       \* the quote on screen, None while loading
  quoteCache,  \* localStorage mcx quote cache, per contract key
  quoteReqs    \* quotes in flight: their contract, and the component that asked

futuresVars == <<contract, quote, quoteCache, quoteReqs>>

FuturesPages == {"gas", "metals"}
QuoteReqs == [contract : Contracts, mount : Mounts]

Ask(c) == [contract |-> c, mount |-> mount]
Shown == page \in FuturesPages /\ route = "here"

FuturesInit ==
  /\ contract = DefaultContract
  /\ quote = None
  /\ quoteCache = [c \in Contracts |-> None]
  /\ quoteReqs = {}

\* Mount.  The effects first run for the default contract; when the link names
\* another contract they run again for it, and the request for the first one
\* is not taken back.  A cached quote is shown at once.
OpenOn(c) ==
  /\ Opening
  /\ contract' = c
  /\ quote' = IF quoteCache[c] # None THEN quoteCache[c] ELSE quoteCache[DefaultContract]
  /\ quoteReqs' = quoteReqs \cup {[contract |-> d, mount |-> mount'] : d \in {DefaultContract, c}}
  /\ UNCHANGED quoteCache

GasOpens(c) == page = "gas" /\ OpenOn(c)
MetalsOpens(c) == page = "metals" /\ OpenOn(c)

\* What is left of the page once the tab shows another one.
FuturesUnmount ==
  /\ contract' = DefaultContract
  /\ quote' = None
  /\ UNCHANGED <<quoteReqs, quoteCache>>

FuturesLeaves == page \in FuturesPages /\ Closing /\ FuturesUnmount

\* A contract button: clear the quote; the effects run again
\* only when the contract really changed.
SwitchTo(c) ==
  /\ Clicking
  /\ contract' = c
  /\ IF c = contract
       THEN quote' = None /\ UNCHANGED quoteReqs
       ELSE /\ quote' = quoteCache[c]
            /\ quoteReqs' = quoteReqs \cup {Ask(c)}
  /\ UNCHANGED quoteCache

GasSwitches(c) == page = "gas" /\ SwitchTo(c)
MetalsSwitches(c) == page = "metals" /\ SwitchTo(c)

\* Mutant: the interval keeps the loader of the contract the page opened with.
QuoteTickFirstContract ==
  /\ Shown
  /\ Ask(DefaultContract) \notin quoteReqs
  /\ quoteReqs' = quoteReqs \cup {Ask(DefaultContract)}
  /\ UNCHANGED <<contract, quote, quoteCache, browserVars>>

\* setInterval(loadQuote, 5_000), with the contract it closed over.
QuoteTick ==
  /\ Shown
  /\ Ask(contract) \notin quoteReqs
  /\ quoteReqs' = quoteReqs \cup {Ask(contract)}
  /\ UNCHANGED <<contract, quote, quoteCache, browserVars>>

\* The quote arrives: it is shown, whatever contract is selected by now, and
\* cached under the contract it was asked for.
QuoteArrives(r) ==
  /\ r \in quoteReqs
  /\ quoteReqs' = quoteReqs \ {r}
  /\ quoteCache' = [quoteCache EXCEPT ![r.contract] = r.contract]
  /\ quote' = IF Alive(r.mount) THEN r.contract ELSE quote
  /\ UNCHANGED <<contract, browserVars>>

\* It fails: an error text; the quote on screen stays.
QuoteFails(r) ==
  /\ r \in quoteReqs
  /\ Fail
  /\ quoteReqs' = quoteReqs \ {r}
  /\ UNCHANGED <<contract, quote, quoteCache>>

FuturesNext ==
  \/ \E c \in Contracts :
       \/ GasOpens(c) \/ MetalsOpens(c)
       \/ GasSwitches(c) \/ MetalsSwitches(c)
  \/ \E r \in QuoteReqs : QuoteArrives(r) \/ QuoteFails(r)
  \/ FuturesLeaves \/ QuoteTick

\* Timers fire while the page is open; a request is answered or fails.
FuturesFairness ==
  /\ WF_<<futuresVars, browserVars>>(QuoteTick)
  /\ \A r \in QuoteReqs :
       WF_<<futuresVars, browserVars>>(QuoteArrives(r) \/ QuoteFails(r))

FuturesTypeOK ==
  /\ contract \in Contracts
  /\ quote \in Contracts \cup {None}
  /\ quoteCache \in [Contracts -> Contracts \cup {None}]
  /\ quoteReqs \subseteq QuoteReqs

(***************************************************************************)
(* Properties.                                                             *)
(***************************************************************************)

\* The cache that outlives the page holds, under each contract's key, a quote
\* of that contract, although contracts are switched and pages closed while
\* quotes are in flight.
QuoteCacheKeyed == \A c \in Contracts : quoteCache[c] \in {None, c}

\* A late answer may put the quote of another contract on screen;
\* once the user has settled on a contract, the polls put that right for good.
QuoteSettles ==
  <>[]Shown => <>[](quote \in {None, contract})
=============================================================================
