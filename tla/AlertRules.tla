----------------------------- MODULE AlertRules -----------------------------
(***************************************************************************)
(* The price alerts page (app/alerts/alerts-view.tsx).  It shows a cached  *)
(* list, polls the server's list every 30 seconds, and changes the list on *)
(* screen itself when the user creates or deletes a rule.  A poll carries  *)
(* what the server had when it was read; it may arrive after the user has  *)
(* changed something, and a poll that fails counts as an empty list.       *)
(***************************************************************************)
EXTENDS Browser

CONSTANT Rules

ASSUME RulesAssumption == None \notin Rules

VARIABLES
  ruleServer,   \* the rules the server has
  ruleUnused,   \* rules nobody has created yet
  ruleShown,    \* the list on screen
  ruleCache,    \* localStorage mts_alerts_cache
  rulePolls,    \* polls in flight: [rules, mount], what the server had
  creates,      \* createAlert in flight: [rule, mount, stored]
  deletes       \* deleteAlert in flight: [rule, mount, stored]

ruleVars == <<ruleServer, ruleUnused, ruleShown, ruleCache, rulePolls, creates, deletes>>

RulePolls == [rules : SUBSET Rules, mount : Mounts]
RuleCalls == [rule : Rules, mount : Mounts, stored : BOOLEAN]

RuleInit ==
  /\ ruleServer = {}
  /\ ruleUnused = Rules
  /\ ruleShown = {} /\ ruleCache = {}
  /\ rulePolls = {} /\ creates = {} /\ deletes = {}

RulesOpen == page = "alerts" /\ route = "here"

\* Mount: the cached list at once, then the first poll.
RulesOpens ==
  /\ page = "alerts"
  /\ Opening
  /\ ruleShown' = ruleCache
  /\ rulePolls' = rulePolls \cup {[rules |-> ruleServer, mount |-> mount']}
  /\ UNCHANGED <<ruleServer, ruleUnused, ruleCache, creates, deletes>>

RulesLeaves ==
  /\ page = "alerts"
  /\ Closing
  /\ ruleShown' = {}
  /\ UNCHANGED <<ruleServer, ruleUnused, ruleCache, rulePolls, creates, deletes>>

\* Mutant: the list is fetched when the page opens and never again.
RuleTickNever == FALSE /\ UNCHANGED <<ruleVars, browserVars>>

\* setInterval(loadAlerts, 30000), read by the server.
RuleTick ==
  /\ RulesOpen
  /\ [rules |-> ruleServer, mount |-> mount] \notin rulePolls
  /\ rulePolls' = rulePolls \cup {[rules |-> ruleServer, mount |-> mount]}
  /\ UNCHANGED <<ruleServer, ruleUnused, ruleShown, ruleCache, creates, deletes, browserVars>>

\* The list replaces the one on screen and the cached one.
PollArrives(p) ==
  /\ p \in rulePolls
  /\ rulePolls' = rulePolls \ {p}
  /\ ruleShown' = IF Alive(p.mount) THEN p.rules ELSE ruleShown
  /\ ruleCache' = p.rules
  /\ UNCHANGED <<ruleServer, ruleUnused, creates, deletes, browserVars>>

\* A failed poll counts as an empty list.
PollLost(p) ==
  /\ p \in rulePolls
  /\ Fail
  /\ rulePolls' = rulePolls \ {p}
  /\ ruleShown' = IF Alive(p.mount) THEN {} ELSE ruleShown
  /\ ruleCache' = {}
  /\ UNCHANGED <<ruleServer, ruleUnused, creates, deletes>>

\* handleCreate, one at a time while the button is disabled.
Create(r) ==
  /\ RulesOpen
  /\ r \in ruleUnused
  /\ \A c \in creates : c.mount # mount
  /\ ruleUnused' = ruleUnused \ {r}
  /\ creates' = creates \cup {[rule |-> r, mount |-> mount, stored |-> FALSE]}
  /\ UNCHANGED <<ruleServer, ruleShown, ruleCache, rulePolls, deletes, browserVars>>

CreateStored(c) ==
  /\ c \in creates
  /\ ~c.stored
  /\ ruleServer' = ruleServer \cup {c.rule}
  /\ creates' = (creates \ {c}) \cup {[c EXCEPT !.stored = TRUE]}
  /\ UNCHANGED <<ruleUnused, ruleShown, ruleCache, rulePolls, deletes, browserVars>>

\* The rule is put on top of the list on screen.
CreateAnswered(c) ==
  /\ c \in creates
  /\ c.stored
  /\ creates' = creates \ {c}
  /\ ruleShown' = IF Alive(c.mount) THEN ruleShown \cup {c.rule} ELSE ruleShown
  /\ UNCHANGED <<ruleServer, ruleUnused, ruleCache, rulePolls, deletes, browserVars>>

\* An error text, whether or not the server has stored it.
CreateFails(c) ==
  /\ c \in creates
  /\ Fail
  /\ creates' = creates \ {c}
  /\ UNCHANGED <<ruleServer, ruleUnused, ruleShown, ruleCache, rulePolls, deletes>>

\* remove(id): any number of deletions may be in flight.
Delete(r) ==
  /\ RulesOpen
  /\ r \in ruleShown
  /\ \A d \in deletes : d.rule # r
  /\ deletes' = deletes \cup {[rule |-> r, mount |-> mount, stored |-> FALSE]}
  /\ UNCHANGED <<ruleServer, ruleUnused, ruleShown, ruleCache, rulePolls, creates, browserVars>>

DeleteStored(d) ==
  /\ d \in deletes
  /\ ~d.stored
  /\ ruleServer' = ruleServer \ {d.rule}
  /\ deletes' = (deletes \ {d}) \cup {[d EXCEPT !.stored = TRUE]}
  /\ UNCHANGED <<ruleUnused, ruleShown, ruleCache, rulePolls, creates, browserVars>>

\* Answered, or failed (catch(() => {})): the rule leaves the list on screen
\* either way.
DeleteEnds(d) ==
  /\ d \in deletes
  /\ \/ d.stored /\ UNCHANGED browserVars
     \/ Fail
  /\ deletes' = deletes \ {d}
  /\ ruleShown' = IF Alive(d.mount) THEN ruleShown \ {d.rule} ELSE ruleShown
  /\ UNCHANGED <<ruleServer, ruleUnused, ruleCache, rulePolls, creates>>

RuleNext ==
  \/ RulesOpens \/ RulesLeaves \/ RuleTick
  \/ \E p \in RulePolls : PollArrives(p) \/ PollLost(p)
  \/ \E r \in Rules : Create(r) \/ Delete(r)
  \/ \E c \in RuleCalls :
       \/ CreateStored(c) \/ CreateAnswered(c) \/ CreateFails(c)
       \/ DeleteStored(c) \/ DeleteEnds(c)

\* The interval fires while the page is open; a request is served and answered,
\* or fails.
RuleFairness ==
  /\ WF_<<ruleVars, browserVars>>(RuleTick)
  /\ \A p \in RulePolls :
       WF_<<ruleVars, browserVars>>(PollArrives(p) \/ PollLost(p))
  /\ \A c \in RuleCalls :
       /\ WF_<<ruleVars, browserVars>>(CreateStored(c) \/ CreateAnswered(c) \/ CreateFails(c))
       /\ WF_<<ruleVars, browserVars>>(DeleteStored(c) \/ DeleteEnds(c))

RuleTypeOK ==
  /\ ruleServer \subseteq Rules
  /\ ruleUnused \subseteq Rules
  /\ ruleShown \subseteq Rules
  /\ ruleCache \subseteq Rules
  /\ rulePolls \subseteq RulePolls
  /\ creates \subseteq RuleCalls
  /\ deletes \subseteq RuleCalls

\* A late poll may bring a deleted rule back or hide a new one, a failed one
\* may empty the page, and a deletion that failed hides a rule that is still
\* armed.  While the session lasts, a page that stays open ends up showing
\* exactly the rules the server has, and goes on doing so.
RulesSettle ==
  ([](expired = {}) /\ <>[]RulesOpen) => <>[](ruleShown = ruleServer)
=============================================================================
