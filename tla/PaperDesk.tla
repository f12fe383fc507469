----------------------------- MODULE PaperDesk -----------------------------
(***************************************************************************)
(* The paper trading page (app/paper/paper-view.tsx): its auto-trade       *)
(* switch, and the way it gives up its session.                            *)
(*                                                                         *)
(* The switch sends the whole settings record with the flag negated and    *)
(* shows what the server answers.  Any failure of the page's first list of *)
(* trades removes the token and goes to /login.                            *)
(***************************************************************************)
EXTENDS Browser

VARIABLES
  autoServer,   \* the server's auto_trade_enabled
  autoShown,    \* sotdSettings.auto_trade_enabled, None until loaded
  toggling,     \* autoTradeToggling
  updates,      \* updates in flight: [enabled, mount, applied]
  paperLoads,   \* first requests in flight: [what, mount]
  autoUnsure    \* history: an update was lost on its way back, or outlived
                \* the page that sent it

paperVars == <<autoServer, autoShown, toggling, updates, paperLoads, autoUnsure>>

Updates == [enabled : BOOLEAN, mount : Mounts, applied : BOOLEAN]
PaperLoads == [what : {"trades", "settings"}, mount : Mounts]

PaperInit ==
  /\ autoServer = TRUE
  /\ autoShown = None
  /\ toggling = FALSE
  /\ updates = {}
  /\ paperLoads = {}
  /\ autoUnsure = FALSE

\* Mount: ask for the settings and the trades (a cached list is shown meanwhile).
PaperOpens ==
  /\ page = "paper"
  /\ Opening
  /\ paperLoads' = paperLoads \cup {[what |-> w, mount |-> mount'] : w \in {"trades", "settings"}}
  /\ UNCHANGED <<autoServer, autoShown, toggling, updates, autoUnsure>>

PaperUnmount ==
  /\ autoShown' = None
  /\ toggling' = FALSE
  /\ autoUnsure' = (autoUnsure \/ updates # {})

PaperLeaves ==
  /\ page = "paper"
  /\ Closing
  /\ PaperUnmount
  /\ UNCHANGED <<autoServer, updates, paperLoads>>

\* The list arrives: show it, cache it.
TradesArrive(l) ==
  /\ l \in paperLoads
  /\ l.what = "trades"
  /\ paperLoads' = paperLoads \ {l}
  /\ UNCHANGED <<autoServer, autoShown, toggling, updates, autoUnsure, browserVars>>

\* For whatever reason the first list fails, and even when the page is no
\* longer open: sign out.
TradesFail(l) ==
  /\ l \in paperLoads
  /\ l.what = "trades"
  /\ paperLoads' = paperLoads \ {l}
  /\ \/ token \in expired /\ UNCHANGED faults
     \/ faults < MaxFaults /\ faults' = faults + 1
  /\ token' = 0
  /\ route' = "login"
  /\ IF route = "here" THEN PaperUnmount ELSE UNCHANGED <<autoShown, toggling, autoUnsure>>
  /\ UNCHANGED <<page, mount, session, expired, checks, clicks>>
  /\ UNCHANGED <<autoServer, updates>>

\* The settings arrive.
SettingsArrive(l) ==
  /\ l \in paperLoads
  /\ l.what = "settings"
  /\ paperLoads' = paperLoads \ {l}
  /\ autoShown' = IF Alive(l.mount) THEN autoServer ELSE autoShown
  /\ UNCHANGED <<autoServer, toggling, updates, autoUnsure, browserVars>>

\* They do not: no switch is shown.
SettingsFail(l) ==
  /\ l \in paperLoads
  /\ l.what = "settings"
  /\ Fail
  /\ paperLoads' = paperLoads \ {l}
  /\ UNCHANGED <<autoServer, autoShown, toggling, updates, autoUnsure>>

\* Mutant: the switch can be clicked again while an update is in flight.
MayToggleAnyTime == autoShown # None

\* !sotdSettings || autoTradeToggling returns early; the button is disabled
\* while toggling and absent without settings.
MayToggle == autoShown # None /\ ~toggling

Toggle ==
  /\ page = "paper"
  /\ MayToggle
  /\ Clicking
  /\ toggling' = TRUE
  /\ updates' = updates \cup {[enabled |-> ~autoShown, mount |-> mount, applied |-> FALSE]}
  /\ UNCHANGED <<autoServer, autoShown, paperLoads, autoUnsure>>

\* The server stores the record.
UpdateApplied(u) ==
  /\ u \in updates
  /\ ~u.applied
  /\ autoServer' = u.enabled
  /\ updates' = (updates \ {u}) \cup {[u EXCEPT !.applied = TRUE]}
  /\ UNCHANGED <<autoShown, toggling, paperLoads, autoUnsure, browserVars>>

\* Its answer is the record it stored.
UpdateAnswered(u) ==
  /\ u \in updates
  /\ u.applied
  /\ updates' = updates \ {u}
  /\ IF Alive(u.mount)
       THEN /\ autoShown' = u.enabled
            /\ toggling' = FALSE
       ELSE UNCHANGED <<autoShown, toggling>>
  /\ UNCHANGED <<autoServer, autoUnsure, paperLoads, browserVars>>

\* The request or its answer is lost: the switch stays as it was.
UpdateFails(u) ==
  /\ u \in updates
  /\ Fail
  /\ updates' = updates \ {u}
  /\ toggling' = (toggling /\ ~Alive(u.mount))
  /\ autoUnsure' = (autoUnsure \/ u.applied)
  /\ UNCHANGED <<autoServer, autoShown, paperLoads>>

PaperNext ==
  \/ PaperOpens \/ PaperLeaves \/ Toggle
  \/ \E l \in PaperLoads :
       TradesArrive(l) \/ TradesFail(l) \/ SettingsArrive(l) \/ SettingsFail(l)
  \/ \E u \in Updates : UpdateApplied(u) \/ UpdateAnswered(u) \/ UpdateFails(u)

PaperTypeOK ==
  /\ autoServer \in BOOLEAN
  /\ autoShown \in BOOLEAN \cup {None}
  /\ toggling \in BOOLEAN
  /\ updates \subseteq Updates
  /\ paperLoads \subseteq PaperLoads
  /\ autoUnsure \in BOOLEAN

\* When the switch is at rest it shows what the server will do with the next
\* pick, unless an update was lost on its way back or the page was left while one
\* was in flight.
AutoTradeShown ==
  (autoShown # None /\ ~toggling /\ ~autoUnsure) => autoShown = autoServer
=============================================================================
