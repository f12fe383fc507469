----------------------------- MODULE SignalAlarm -----------------------------
(***************************************************************************)
(* The MCX Strategy Dashboard (app/mcx-strategy-dashboard): it polls the   *)
(* server's signals and sounds an alarm when a contract's signal becomes   *)
(* tradeable.  What it compares a signal with lives in refs of the         *)
(* component, so a poll that is answered after the page was left may still *)
(* sound.                                                                  *)
(*                                                                         *)
(* One contract is modelled; the page treats each on its own.  A row is    *)
(* abstracted to its label (None when it is unavailable or not tradeable)  *)
(* and to how often what the server answers had changed by then.           *)
(***************************************************************************)
EXTENDS Browser

CONSTANTS
  TradeLabels,  \* the labels of a tradeable signal: TRADE, STRONG
  MaxSignals,  \* bound: changes of the server's row
  MaxPolls     \* bound: polls in flight when another one is sent

ASSUME SignalsAssumption ==
  None \notin TradeLabels /\ MaxSignals \in Nat /\ MaxPolls \in Nat

VARIABLES
  served,       \* the server's row: [label, blocked, n]
  alarmStored,  \* localStorage: the alarm is switched on
  heard,        \* per component: its refs, and the newest row it has processed
  signalReqs,   \* polls in flight: [row, mount], what the server had
  rung,         \* history: the rows an alarm sounded for
  rangTwice,    \* history: one row sounded again
  overtaken     \* history: a poll was answered after a later one

signalVars == <<served, alarmStored, heard, signalReqs, rung, rangTwice, overtaken>>

Labels == TradeLabels \cup {None}
Rows == [label : Labels, blocked : BOOLEAN, n : 0..MaxSignals]
SignalReqs == [row : Rows, mount : Mounts]
Refs == [on : BOOLEAN, first : BOOLEAN, prev : Labels, newest : 0..MaxSignals]

SignalsOpen == page = "signals" /\ route = "here"

SignalInit ==
  /\ served = [label |-> None, blocked |-> FALSE, n |-> 0]
  /\ alarmStored = FALSE
  /\ heard = [m \in Mounts |-> [on |-> FALSE, first |-> TRUE, prev |-> None, newest |-> 0]]
  /\ signalReqs = {}
  /\ rung = {}
  /\ rangTwice = FALSE /\ overtaken = FALSE

\* load: a poll goes out, of a page that was opened with a token.
Load(m) ==
  signalReqs' = signalReqs \cup (IF token = 0 THEN {} ELSE {[row |-> served, mount |-> m]})

\* Mount: the alarm is as it was stored; the first poll goes out.
SignalsMount ==
  /\ page = "signals"
  /\ Opening
  /\ heard' = [heard EXCEPT ![mount'].on = alarmStored]
  /\ Load(mount')
  /\ UNCHANGED <<served, alarmStored, rung, rangTwice, overtaken>>

SignalsLeave == page = "signals" /\ Closing /\ UNCHANGED signalVars

\* The contract's signal changes on the server, or its risk gate does.
SignalChanges(l, b) ==
  /\ page = "signals"
  /\ served.n < MaxSignals
  /\ <<l, b>> # <<served.label, served.blocked>>
  /\ served' = [label |-> l, blocked |-> b, n |-> served.n + 1]
  /\ UNCHANGED <<alarmStored, heard, signalReqs, rung, rangTwice, overtaken, browserVars>>

\* toggleAlerts: off at once, on when the browser's prompt is granted.
ToggleAlerts(granted) ==
  /\ page = "signals"
  /\ Clicking
  /\ alarmStored' = (~heard[mount].on /\ granted)
  /\ heard' = [heard EXCEPT ![mount].on = alarmStored']
  /\ UNCHANGED <<served, signalReqs, rung, rangTwice, overtaken>>

\* setInterval(load, 30_000)
SignalTick ==
  /\ SignalsOpen
  /\ Cardinality(signalReqs) < MaxPolls
  /\ Load(mount)
  /\ UNCHANGED <<served, alarmStored, heard, rung, rangTwice, overtaken, browserVars>>

\* isTradeable(row) && row.can_trade !== false
Tradeable(row) == row.label # None /\ ~row.blocked

\* Mutant: the alarm also sounds on the first load.
RingsOnFirst(refs, row) == refs.on /\ Tradeable(row) /\ row.label # refs.prev

\* The alarm sounds when the signal changed into a tradeable state.
Rings(refs, row) ==
  refs.on /\ ~refs.first /\ Tradeable(row) /\ row.label # refs.prev

\* load goes on, whether or not the page is still open.
SignalsArrive(r) ==
  /\ r \in signalReqs
  /\ signalReqs' = signalReqs \ {r}
  /\ heard' = [heard EXCEPT ![r.mount] =
                 [@ EXCEPT !.first = FALSE, !.prev = r.row.label, !.newest = r.row.n]]
  /\ overtaken' = (overtaken \/ r.row.n < heard[r.mount].newest)
  /\ IF Rings(heard[r.mount], r.row)
       THEN /\ rung' = rung \cup {r.row.n}
            /\ rangTwice' = (rangTwice \/ r.row.n \in rung)
       ELSE UNCHANGED <<rung, rangTwice>>
  /\ UNCHANGED <<served, alarmStored, browserVars>>

\* An error text; the refs stay.
SignalsFail(r) ==
  /\ r \in signalReqs
  /\ Fail
  /\ signalReqs' = signalReqs \ {r}
  /\ UNCHANGED <<served, alarmStored, heard, rung, rangTwice, overtaken>>

SignalNext ==
  \/ SignalsMount \/ SignalsLeave \/ SignalTick
  \/ \E l \in Labels, b \in BOOLEAN : SignalChanges(l, b)
  \/ \E granted \in BOOLEAN : ToggleAlerts(granted)
  \/ \E r \in signalReqs : SignalsArrive(r) \/ SignalsFail(r)

SignalTypeOK ==
  /\ served \in Rows
  /\ alarmStored \in BOOLEAN
  /\ heard \in [Mounts -> Refs]
  /\ signalReqs \subseteq SignalReqs
  /\ rung \subseteq 0..MaxSignals
  /\ rangTwice \in BOOLEAN
  /\ overtaken \in BOOLEAN

(***************************************************************************)
(* Properties.                                                             *)
(***************************************************************************)

\* "an alert fires only when this changes into a tradeable state, not on every
\* poll while the same signal is still open, and not on the very first load":
\* what the server answers between two changes sounds at most once, however
\* often the page is left and opened again and the alarm switched off and on,
\* as long as no poll is answered after a later one.
AlarmOnce == ~overtaken => ~rangTwice
=============================================================================
