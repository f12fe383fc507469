------------------------------ MODULE Browser ------------------------------
(***************************************************************************)
(* The browser tab the Next.js client runs in: which page it shows, the    *)
(* bearer token it keeps in localStorage, and the session check of the     *)
(* pages that poll /auth/me.                                               *)
(*                                                                         *)
(* A page opens and closes (its component mounts and unmounts); a request  *)
(* it sent survives it.  The answer can no longer set the state of the     *)
(* page, but its continuation still runs: it may still write localStorage  *)
(* or move the tab to /login.                                              *)
(***************************************************************************)
EXTENDS Integers, FiniteSets

CONSTANTS
  Pages,        \* the pages a behaviour may be about, one per behaviour
  MaxSessions,  \* bound: how often somebody signs in
  MaxMounts,    \* bound: how often each page is opened, [Pages -> Nat]
  MaxFaults,    \* bound: requests that fail although the session is good
  MaxClicks,    \* bound: clicks on the controls of each page, [Pages -> Nat]
  None

ASSUME BrowserBounds ==
  MaxSessions \in Nat /\ MaxFaults \in Nat
    /\ MaxMounts \in [Pages -> Nat] /\ MaxClicks \in [Pages -> Nat]

VARIABLES
  page,      \* the page this behaviour is about
  route,     \* "here" (on that page), "away" (another page), "login"
  mount,     \* how often the page was opened: the component now on screen
  session,   \* the newest session that was issued
  token,     \* localStorage mts_token: the session it belongs to, 0 if absent
  expired,   \* the sessions the server no longer accepts
  checks,    \* the sessions whose getMe request is in flight
  faults,    \* requests that failed so far
  clicks     \* clicks so far

browserVars == <<page, route, mount, session, token, expired, checks, faults, clicks>>

Sessions == 1..MaxSessions
Mounts == UNION {1..MaxMounts[p] : p \in Pages}

\* A request remembers the component that sent it; it can still set its state
\* while that component is on screen.
Alive(m) == route = "here" /\ mount = m

\* The pages whose effect polls getMe for as long as they are open.
CheckedPages == {"metals", "gas", "lab"}

\* The pages that stay open without a token: whatever they ask for is refused.
UnguardedPages == {"trade", "signals"}

BrowserInit ==
  /\ page \in Pages
  /\ route = "login"
  /\ mount = 0
  /\ session = 0
  /\ token = 0
  /\ expired = {}
  /\ checks = {}
  /\ faults = 0
  /\ clicks = 0

\* A request may be refused: when the session has expired, and for any other
\* reason (the network, a slow backend) a bounded number of times.  Every
\* request is judged by the token that is stored by then.
Fail ==
  /\ \/ token \in expired /\ UNCHANGED faults
     \/ faults < MaxFaults /\ faults' = faults + 1
  /\ UNCHANGED <<page, route, mount, session, token, expired, checks, clicks>>

\* The user clicks on a control of the open page.
Clicking ==
  /\ route = "here"
  /\ clicks < MaxClicks[page]
  /\ clicks' = clicks + 1
  /\ UNCHANGED <<page, route, mount, session, token, expired, checks, faults>>

\* The login form: store the token, go to the dashboard.
SignIn ==
  /\ route = "login"
  /\ session < MaxSessions
  /\ session' = session + 1
  /\ token' = session'
  /\ route' = "away"
  /\ UNCHANGED <<page, mount, expired, checks, faults, clicks>>

\* ACCESS_TOKEN_EXPIRE_MINUTES pass.
Expire(s) ==
  /\ s \in 1..session \ expired
  /\ expired' = expired \cup {s}
  /\ UNCHANGED <<page, route, mount, session, token, checks, faults, clicks>>

\* Mutant: the effect goes on without a token.
OpeningUnguarded ==
  /\ route # "here"
  /\ mount < MaxMounts[page]
  /\ mount' = mount + 1
  /\ route' = "here"
  /\ checks' = IF page \in CheckedPages THEN checks \cup {token} ELSE checks
  /\ UNCHANGED <<page, session, token, expired, faults, clicks>>

\* The page opens: without a token the effect of most goes straight back to /login.
Opening ==
  /\ route # "here"
  /\ token # 0 \/ page \in UnguardedPages
  /\ mount < MaxMounts[page]
  /\ mount' = mount + 1
  /\ route' = "here"
  /\ checks' = IF page \in CheckedPages THEN checks \cup {token} ELSE checks
  /\ UNCHANGED <<page, session, token, expired, faults, clicks>>

\* The document is loaded afresh, by a reload or by a redirect from another
\* site: nothing of the old document goes on.
Loading ==
  /\ token # 0
  /\ mount < MaxMounts[page]
  /\ mount' = mount + 1
  /\ route' = "here"
  /\ checks' = IF page \in CheckedPages THEN {token} ELSE {}
  /\ UNCHANGED <<page, session, token, expired, faults, clicks>>

\* The user walks away, or signs out in the navigation bar.
Walking ==
  /\ route = "here"
  /\ \/ route' = "away" /\ UNCHANGED token
     \/ route' = "login" /\ token' = 0
  /\ UNCHANGED <<page, mount, session, expired, checks, faults, clicks>>

\* Mutant: the session is checked when the page opens and never again.
CheckTickOnce == FALSE /\ UNCHANGED browserVars

\* setInterval(checkSession, 60_000) of an open page.
CheckTick ==
  /\ route = "here"
  /\ page \in CheckedPages
  /\ token \notin checks
  /\ checks' = checks \cup {token}
  /\ UNCHANGED <<page, route, mount, session, token, expired, faults, clicks>>

\* Mutant: any error of getMe counts as an expired session.
CheckBouncesAnyError(s) ==
  /\ s \in checks
  /\ s \in expired \/ faults < MaxFaults
  /\ faults' = IF s \in expired THEN faults ELSE faults + 1
  /\ checks' = checks \ {s}
  /\ route' = "login"
  /\ UNCHANGED <<page, mount, session, token, expired, clicks>>

\* getMe answers 401: router.replace('/login'), whatever page is open by
\* then; the token stays in localStorage.
CheckBounces(s) ==
  /\ s \in checks
  /\ s \in expired
  /\ checks' = checks \ {s}
  /\ route' = "login"
  /\ UNCHANGED <<page, mount, session, token, expired, faults, clicks>>

\* getMe answers, or fails otherwise: nothing happens.
CheckPasses(s) ==
  /\ s \in checks
  /\ checks' = checks \ {s}
  /\ \/ s \notin expired /\ UNCHANGED faults
     \/ faults < MaxFaults /\ faults' = faults + 1
  /\ UNCHANGED <<page, route, mount, session, token, expired, clicks>>

\* The steps that leave an open page where it is.
BrowserNext ==
  \/ SignIn \/ CheckTick
  \/ \E s \in Sessions : Expire(s) \/ CheckPasses(s)
  \/ route # "here" /\ \E s \in Sessions : CheckBounces(s)

\* The open page closes.
Closing == route = "here" /\ (Walking \/ \E s \in Sessions : CheckBounces(s))

\* The interval fires while the page is open; getMe is answered or fails.
BrowserFairness ==
  /\ WF_browserVars(CheckTick)
  /\ \A s \in Sessions : WF_browserVars(CheckPasses(s) \/ CheckBounces(s))

BrowserTypeOK ==
  /\ page \in Pages
  /\ route \in {"here", "away", "login"}
  /\ route = "here" => mount # 0 /\ (token # 0 \/ page \in UnguardedPages)
  /\ mount \in 0..MaxMounts[page]
  /\ session \in 0..MaxSessions
  /\ token \in 0..session
  /\ expired \subseteq 1..session
  /\ checks \subseteq 1..session
  /\ faults \in 0..MaxFaults
  /\ clicks \in 0..MaxClicks[page]

(***************************************************************************)
(* Properties.                                                             *)
(***************************************************************************)

\* The session check of the MCX pages and of the Strategy Lab: "only a
\* genuine 401 (not a network blip or a slow backend) sends the user back to
\* /login".  A tab that is moved to /login with its token still stored was
\* moved by a request of a session that had expired.
OnlyExpiredLeaves ==
  [][route' = "login" /\ route # "login" /\ token' # 0
       => \E s \in checks \cap expired : s \notin checks']_browserVars

\* "an expired token otherwise leaves every widget on this page silently
\* 401ing forever": a page that checks its session does not stay open on an
\* expired one.
SessionEnds ==
  (route = "here" /\ page \in CheckedPages /\ token \in expired)
    ~> (route # "here")
=============================================================================
