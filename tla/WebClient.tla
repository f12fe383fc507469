----------------------------- MODULE WebClient -----------------------------
(***************************************************************************)
(* The browser client: one tab (Browser) and the pages of it that poll, or *)
(* that act on the account.  A behaviour is about one of the pages; the    *)
(* tab opens it, leaves it and signs in and out around it, and the steps   *)
(* by which it opens or leaves are steps of the page and of the tab at     *)
(* once.                                                                   *)
(***************************************************************************)
EXTENDS FuturesView, StrategyLab, TradeTicket, PaperDesk, AlertRules,
        BrokerDesk, SignalAlarm, WatchDesk, LiveDesk

vars == <<browserVars, futuresVars, labVars, ticketVars, paperVars, ruleVars,
          brokerVars, signalVars, watchVars, sessionVars, liveVars>>

Init ==
  /\ BrowserInit
  /\ FuturesInit /\ LabInit /\ TicketInit /\ PaperInit
  /\ RuleInit /\ BrokerPageInit /\ SignalInit /\ WatchInit
  /\ SessionInit /\ LiveInit

Next ==
  \/ /\ BrowserNext
     /\ UNCHANGED <<futuresVars, labVars, ticketVars, paperVars, ruleVars, brokerVars, signalVars, watchVars, sessionVars, liveVars>>
  \/ /\ FuturesNext
     /\ UNCHANGED <<labVars, ticketVars, paperVars, ruleVars, brokerVars, signalVars, watchVars, sessionVars, liveVars>>
  \/ /\ LabNext
     /\ UNCHANGED <<futuresVars, ticketVars, paperVars, ruleVars, brokerVars, signalVars, watchVars, sessionVars, liveVars>>
  \/ /\ TicketNext
     /\ UNCHANGED <<futuresVars, labVars, paperVars, ruleVars, brokerVars, signalVars, watchVars, sessionVars, liveVars>>
  \/ /\ PaperNext
     /\ UNCHANGED <<futuresVars, labVars, ticketVars, ruleVars, brokerVars, signalVars, watchVars, sessionVars, liveVars>>
  \/ /\ RuleNext
     /\ UNCHANGED <<futuresVars, labVars, ticketVars, paperVars, brokerVars, signalVars, watchVars, sessionVars, liveVars>>
  \/ /\ BrokerNext
     /\ UNCHANGED <<futuresVars, labVars, ticketVars, paperVars, ruleVars, signalVars, watchVars, sessionVars, liveVars>>
  \/ /\ SignalNext
     /\ UNCHANGED <<futuresVars, labVars, ticketVars, paperVars, ruleVars, brokerVars, watchVars, sessionVars, liveVars>>
  \/ /\ WatchNext
     /\ UNCHANGED <<futuresVars, labVars, ticketVars, paperVars, ruleVars, brokerVars, signalVars, sessionVars, liveVars>>
  \/ /\ LiveNext
     /\ UNCHANGED <<futuresVars, labVars, ticketVars, paperVars, ruleVars, brokerVars, signalVars, watchVars>>

Spec == Init /\ [][Next]_vars

\* Timers of an open page fire, requests are answered or fail; nobody is assumed to
\* click, to sign in or to stay signed in.
FairSpec ==
  Spec /\ BrowserFairness /\ FuturesFairness /\ LabFairness /\ RuleFairness /\ WatchFairness

\* The type invariant of the tab and of its pages: among others, a session
\* check is only ever sent with a token the server has issued.
TypeOK ==
  /\ BrowserTypeOK
  /\ FuturesTypeOK /\ LabTypeOK /\ TicketTypeOK /\ PaperTypeOK
  /\ RuleTypeOK /\ BrokerTypeOK /\ SignalTypeOK /\ WatchTypeOK
  /\ LiveTypeOK
=============================================================================
