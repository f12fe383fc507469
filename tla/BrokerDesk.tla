----------------------------- MODULE BrokerDesk -----------------------------
(***************************************************************************)
(* The broker page (app/broker/broker-view.tsx).  Kite sends the browser   *)
(* back to it with a single-use ?request_token=...; the page then connects *)
(* by itself.  The user may also paste a token, connect another broker,    *)
(* switch to the simulated one or disconnect; one flag, loading, disables  *)
(* those buttons while a request is in flight.  The credentials of the     *)
(* unattended login have a flag and requests of their own.                 *)
(***************************************************************************)
EXTENDS Browser

CONSTANTS
  Brokers,     \* the brokers a user can connect
  Simulated,   \* the broker that needs no connection
  Kite,        \* the one that redirects: zerodha
  MaxReturns   \* bound: how often Kite sends the browser back

ASSUME BrokersAssumption ==
  Kite \in Brokers /\ Simulated \notin Brokers /\ None \notin Brokers \cup {Simulated}
    /\ MaxReturns \in Nat

VARIABLES
  kiteUrl,      \* the page's URL carries a request_token
  kiteReturns,  \* tokens Kite has issued by sending the browser back
  kiteSent,     \* automatic connects the page has sent
  brokerServer, \* the broker the server works with
  brokerShown,  \* the status on screen, None until loaded
  brokerBusy,   \* loading
  connects,     \* requests in flight: [to, mount, done]
  statusReqs    \* getBrokerStatus of a mount in flight: [broker, mount]

brokerVars == <<kiteUrl, kiteReturns, kiteSent, brokerServer, brokerShown,
                brokerBusy, connects, statusReqs>>

Targets == Brokers \cup {Simulated}
Connects == [to : Targets, mount : Mounts, done : BOOLEAN]
StatusReqs == [broker : Targets, mount : Mounts]
BrokerOpen == page = "broker" /\ route = "here"

BrokerPageInit ==
  /\ kiteUrl = FALSE
  /\ kiteReturns = 0 /\ kiteSent = 0
  /\ brokerServer = Simulated
  /\ brokerShown = None
  /\ brokerBusy = FALSE
  /\ connects = {} /\ statusReqs = {}

\* Mutant: the token stays in the URL until the connection is made.
MountLeavesUrl(url, old, sent) ==
  /\ brokerShown' = None
  /\ brokerBusy' = url
  /\ kiteUrl' = url
  /\ kiteSent' = IF url THEN kiteSent + 1 ELSE kiteSent
  /\ connects' = old \cup (IF url THEN {[to |-> Kite, mount |-> mount', done |-> FALSE]} ELSE {})
  /\ statusReqs' = sent \cup {[broker |-> brokerServer, mount |-> mount']}

\* The mount effect, with a URL that does or does not carry a token: ask for
\* the status; take the token off the URL, then connect with it.
Mount(url, old, sent) ==
  /\ brokerShown' = None
  /\ brokerBusy' = url
  /\ kiteUrl' = FALSE
  /\ kiteSent' = IF url THEN kiteSent + 1 ELSE kiteSent
  /\ connects' = old \cup (IF url THEN {[to |-> Kite, mount |-> mount', done |-> FALSE]} ELSE {})
  /\ statusReqs' = sent \cup {[broker |-> brokerServer, mount |-> mount']}

\* From a link in the client: what is in flight goes on.
BrokerOpens ==
  /\ page = "broker"
  /\ Opening
  /\ Mount(FALSE, connects, statusReqs)
  /\ UNCHANGED <<kiteReturns, brokerServer>>

\* A reload of the document, with the URL it has.
BrokerReloads ==
  /\ BrokerOpen
  /\ Loading
  /\ Mount(kiteUrl, {}, {})
  /\ UNCHANGED <<kiteReturns, brokerServer>>

\* Kite's redirect loads the document with a new token: often in a tab of its
\* own, which is then the one this behaviour follows.
KiteReturns ==
  /\ page = "broker"
  /\ kiteReturns < MaxReturns
  /\ kiteReturns' = kiteReturns + 1
  /\ Loading
  /\ Mount(TRUE, {}, {})
  /\ UNCHANGED brokerServer

BrokerLeaves ==
  /\ page = "broker"
  /\ Closing
  /\ kiteUrl' = FALSE
  /\ brokerShown' = None
  /\ brokerBusy' = FALSE
  /\ UNCHANGED <<kiteReturns, kiteSent, brokerServer, connects, statusReqs>>

\* The status of the mount arrives, even after a newer one.
StatusArrives(r) ==
  /\ r \in statusReqs
  /\ statusReqs' = statusReqs \ {r}
  /\ brokerShown' = IF Alive(r.mount) THEN r.broker ELSE brokerShown
  /\ UNCHANGED <<kiteUrl, kiteReturns, kiteSent, brokerServer, brokerBusy, connects, browserVars>>

StatusFails(r) ==
  /\ r \in statusReqs
  /\ Fail
  /\ statusReqs' = statusReqs \ {r}
  /\ UNCHANGED <<kiteUrl, kiteReturns, kiteSent, brokerServer, brokerShown, brokerBusy, connects>>

\* Mutant: the buttons are not disabled.
IdleAlways == BrokerOpen

\* disabled={loading}
Idle == BrokerOpen /\ ~brokerBusy

\* A connect button, the simulated one, or Disconnect (which also ends on the
\* simulated broker).
ConnectTo(b) ==
  /\ Idle
  /\ Clicking
  /\ brokerBusy' = TRUE
  /\ connects' = connects \cup {[to |-> b, mount |-> mount, done |-> FALSE]}
  /\ UNCHANGED <<kiteUrl, kiteReturns, kiteSent, brokerServer, brokerShown, statusReqs>>

\* The server switches to the broker.
ConnectDone(c) ==
  /\ c \in connects
  /\ ~c.done
  /\ brokerServer' = c.to
  /\ connects' = (connects \ {c}) \cup {[c EXCEPT !.done = TRUE]}
  /\ UNCHANGED <<kiteUrl, kiteReturns, kiteSent, brokerShown, brokerBusy, statusReqs, browserVars>>

\* Its answer is the new status.
ConnectAnswered(c) ==
  /\ c \in connects
  /\ c.done
  /\ connects' = connects \ {c}
  /\ IF Alive(c.mount)
       THEN brokerShown' = c.to /\ brokerBusy' = FALSE
       ELSE UNCHANGED <<brokerShown, brokerBusy>>
  /\ UNCHANGED <<kiteUrl, kiteReturns, kiteSent, brokerServer, statusReqs, browserVars>>

\* Refused, or lost on either way: an error text.
ConnectFails(c) ==
  /\ c \in connects
  /\ Fail
  /\ connects' = connects \ {c}
  /\ brokerBusy' = (brokerBusy /\ ~Alive(c.mount))
  /\ UNCHANGED <<kiteUrl, kiteReturns, kiteSent, brokerServer, brokerShown, statusReqs>>

BrokerNext ==
  \/ BrokerOpens \/ BrokerReloads \/ KiteReturns \/ BrokerLeaves
  \/ \E b \in Targets : ConnectTo(b)
  \/ \E r \in StatusReqs : StatusArrives(r) \/ StatusFails(r)
  \/ \E c \in Connects : ConnectDone(c) \/ ConnectAnswered(c) \/ ConnectFails(c)

BrokerTypeOK ==
  /\ kiteUrl \in BOOLEAN
  /\ kiteReturns \in 0..MaxReturns
  /\ kiteSent \in Nat
  /\ brokerServer \in Targets
  /\ brokerShown \in Targets \cup {None}
  /\ brokerBusy \in BOOLEAN
  /\ connects \subseteq Connects
  /\ statusReqs \subseteq StatusReqs

\* Kite's token works once.  However the page is reloaded, left and opened
\* again while it connects, it sends a token it was given once and no more.
TokenSentOnce == kiteSent <= kiteReturns

\* One request of the shared buttons at a time: the answer that ends the
\* loading state is the answer of the last thing the user asked this page for.
OneConnectPerPage ==
  \A c \in connects : Alive(c.mount) =>
    brokerBusy /\ \A d \in connects : d.mount = c.mount => d = c
=============================================================================
