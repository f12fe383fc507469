--------------------------- MODULE SignalAlarmProofs ---------------------------
(***************************************************************************)
(* The alarm of the MCX Strategy Dashboard sounds once for what the server *)
(* answers between two changes, for every bound, as long as no poll is     *)
(* answered after a later one.                                             *)
(*                                                                         *)
(* A component compares a row with the row it has processed before it.     *)
(* Why two components never sound for one row: a component sends its polls *)
(* after every older component has sent its own, so its rows are at least  *)
(* as new (OrderInv).  When a component sounds for row n it has processed  *)
(* an older one, hence the polls of the components before it carry rows    *)
(* older than n; and those after it only have rows from n on, so that the  *)
(* first one they process is no change into n (RungInv).  That equal row   *)
(* numbers mean equal labels is LabelInv.                                  *)
(***************************************************************************)
EXTENDS ClientProofs

OrderInv ==
  /\ page # "signals" => signalReqs = {} /\ \A m \in Mounts : heard[m].first
  /\ \A r \in signalReqs : r.mount <= mount /\ r.row.n <= served.n
  /\ \A r, s \in signalReqs : r.mount < s.mount => r.row.n <= s.row.n
  /\ \A m \in Mounts : ~heard[m].first =>
       /\ m <= mount
       /\ heard[m].newest <= served.n
       /\ \A r \in signalReqs : r.mount < m => r.row.n <= heard[m].newest

LabelInv ==
  /\ \A r \in signalReqs : r.row.n = served.n => r.row.label = served.label
  /\ \A r, s \in signalReqs : r.row.n = s.row.n => r.row.label = s.row.label
  /\ \A m \in Mounts : ~heard[m].first =>
       /\ heard[m].newest = served.n => heard[m].prev = served.label
       /\ \A r \in signalReqs : heard[m].newest = r.row.n => heard[m].prev = r.row.label

\* The component w has sounded for row n, or might as well have.
RungBy(n, w) ==
  /\ ~heard[w].first /\ n <= heard[w].newest /\ n <= served.n
  /\ \A r \in signalReqs : (w < r.mount => n <= r.row.n) /\ (r.mount < w => r.row.n < n)
  /\ \A m \in Mounts : w < m /\ ~heard[m].first => n <= heard[m].newest

RungInv == ~overtaken => ~rangTwice /\ \A n \in rung : \E w \in Mounts : RungBy(n, w)

AlarmInv == OrderInv /\ LabelInv /\ RungInv

\* A step that is not one of this page leaves its state alone, and while the tab
\* shows this page, its component.
LEMMA SignalSteps ==
  [Next]_vars => \/ SignalNext
                 \/ UNCHANGED <<signalVars, page>> /\ (page = "signals" => mount' = mount)
<1> SUFFICES ASSUME [Next]_vars, ~SignalNext
             PROVE  UNCHANGED <<signalVars, page>> /\ (page = "signals" => mount' = mount)
  OBVIOUS
<1>1. UNCHANGED signalVars
  BY DEF Next, vars
<1>2. CASE UNCHANGED vars
  BY <1>1, <1>2 DEF vars, browserVars
<1>3. CASE BrowserNext \/ PaperNext
  BY <1>1, <1>3, TabMoves, PaperMoves
<1>4. CASE \/ FuturesNext \/ LabNext \/ TicketNext \/ RuleNext \/ BrokerNext \/ WatchNext
          \/ LiveNext
  BY <1>1, <1>4, PageMoves DEF FuturesPages
<1> QED
  BY <1>2, <1>3, <1>4 DEF Next

\* Rows are numbered, and so are components.
LEMMA SignalNumbers ==
  ASSUME TypeOK
  PROVE  /\ mount \in Int /\ served.n \in Int
         /\ \A m \in Mounts : m \in Int /\ heard[m].newest \in Int
         /\ \A r \in signalReqs : r.mount \in Mounts /\ r.row.n \in Int
<1>1. mount \in Int
  BY PageBounds DEF TypeOK, BrowserTypeOK
<1>2. \A m \in Mounts : m \in Int
  BY BrowserBounds DEF Mounts
<1>3. served \in Rows /\ heard \in [Mounts -> Refs] /\ signalReqs \subseteq SignalReqs
  BY DEF TypeOK, SignalTypeOK
<1>4. served.n \in Int
  BY <1>3 DEF Rows
<1>5. \A m \in Mounts : heard[m].newest \in Int
  BY <1>3 DEF Refs
<1>6. \A r \in signalReqs : r.mount \in Mounts /\ r.row.n \in Int
  BY <1>3 DEF SignalReqs, Rows
<1> QED
  BY <1>1, <1>2, <1>4, <1>5, <1>6

\* What the invariant says of a component's refs does not depend on whether its
\* alarm is switched on.
SameRefs ==
  \A m \in Mounts : /\ heard'[m].first = heard[m].first
                    /\ heard'[m].prev = heard[m].prev
                    /\ heard'[m].newest = heard[m].newest

\* Polls that are answered by nobody, pages that open: nothing is lost.
LEMMA AlarmFrame ==
  ASSUME TypeOK, AlarmInv, SameRefs, signalReqs' \subseteq signalReqs,
         mount' \in {mount, mount + 1}, page # "signals" => signalReqs' = {},
         UNCHANGED <<page, served, rung, rangTwice, overtaken>>
  PROVE  AlarmInv'
<1> USE SignalNumbers DEF AlarmInv, SameRefs
<1>1. OrderInv'
  BY DEF OrderInv
<1>2. LabelInv'
  BY DEF LabelInv
<1>3. \A n \in rung, w \in Mounts : RungBy(n, w) => RungBy(n, w)'
  BY DEF RungBy
<1>4. RungInv'
  BY <1>3 DEF RungInv
<1> QED
  BY <1>1, <1>2, <1>4

\* The open page polls: its row is the newest there is.
LEMMA AlarmSend ==
  ASSUME TypeOK, AlarmInv, SameRefs, NEW d, signalReqs' = signalReqs \cup {d},
         d.row = served, d.mount = mount', d.mount \in Mounts,
         page = "signals", mount' \in {mount, mount + 1},
         UNCHANGED <<page, served, rung, rangTwice, overtaken>>
  PROVE  AlarmInv'
<1> USE SignalNumbers DEF AlarmInv, SameRefs
<1>1. OrderInv'
  <2>1. \A r \in signalReqs' : r.mount <= mount' /\ r.row.n <= served'.n
    BY DEF OrderInv
  <2>2. \A r, q \in signalReqs' : r.mount < q.mount => r.row.n <= q.row.n
    BY DEF OrderInv
  <2>3. \A m \in Mounts : ~heard'[m].first =>
          /\ m <= mount'
          /\ heard'[m].newest <= served'.n
          /\ \A r \in signalReqs' : r.mount < m => r.row.n <= heard'[m].newest
    BY DEF OrderInv
  <2> QED
    BY <2>1, <2>2, <2>3 DEF OrderInv
<1>2. LabelInv'
  BY DEF LabelInv
<1>3. ASSUME NEW n \in rung, NEW w \in Mounts, RungBy(n, w)
      PROVE  RungBy(n, w)'
  <2>1. w <= mount /\ n <= served.n
    BY <1>3 DEF RungBy, OrderInv
  <2>2. \A r \in signalReqs' : (w < r.mount => n <= r.row.n) /\ (r.mount < w => r.row.n < n)
    BY <1>3, <2>1 DEF RungBy
  <2> QED
    BY <1>3, <2>1, <2>2 DEF RungBy
<1>4. RungInv'
  BY <1>3 DEF RungInv
<1> QED
  BY <1>1, <1>2, <1>4

\* The open page loads, with a token or without one.
LEMMA AlarmLoad ==
  ASSUME TypeOK, AlarmInv, SameRefs, NEW m \in Mounts, m = mount', Load(m),
         page = "signals", mount' \in {mount, mount + 1},
         UNCHANGED <<page, served, rung, rangTwice, overtaken>>
  PROVE  AlarmInv'
<1>1. CASE token = 0
  BY <1>1, AlarmFrame DEF Load
<1>2. CASE token # 0
  <2>1. PICK d : d = [row |-> served, mount |-> m]
    OBVIOUS
  <2>2. d.row = served /\ d.mount = mount' /\ signalReqs' = signalReqs \cup {d}
    BY <1>2, <2>1 DEF Load
  <2> QED
    BY <2>2, AlarmSend
<1> QED
  BY <1>1, <1>2

\* The server's row changes, and is a new one.
LEMMA AlarmChange ==
  ASSUME TypeOK, AlarmInv, page = "signals", served'.n = served.n + 1,
         UNCHANGED <<page, mount, heard, signalReqs, rung, rangTwice, overtaken>>
  PROVE  AlarmInv'
<1> USE SignalNumbers DEF AlarmInv
<1>1. OrderInv'
  BY DEF OrderInv
<1>2. LabelInv'
  BY DEF LabelInv, OrderInv
<1>3. ASSUME NEW n \in rung, NEW w \in Mounts, RungBy(n, w)
      PROVE  RungBy(n, w)'
  <2>1. n \in Int
    BY SignalsAssumption DEF TypeOK, SignalTypeOK
  <2>2. n <= served'.n
    BY <1>3, <2>1 DEF RungBy
  <2> QED
    BY <1>3, <2>2 DEF RungBy
<1>4. RungInv'
  BY <1>3 DEF RungInv
<1> QED
  BY <1>1, <1>2, <1>4

\* A poll is processed.
LEMMA AlarmArrive ==
  ASSUME TypeOK, AlarmInv, NEW r \in signalReqs, SignalsArrive(r)
  PROVE  AlarmInv'
<1> DEFINE m == r.mount
           n == r.row.n
<1>1. /\ m \in Mounts /\ m \in Int /\ n \in Int /\ n <= served.n /\ m <= mount
      /\ page = "signals"
  BY SignalNumbers DEF AlarmInv, OrderInv
<1>2. /\ ~heard'[m].first /\ heard'[m].prev = r.row.label /\ heard'[m].newest = n
      /\ \A k \in Mounts : k # m => heard'[k] = heard[k]
  <2>1. heard \in [Mounts -> Refs] /\ heard[m] \in Refs
    BY <1>1 DEF TypeOK, SignalTypeOK
  <2>2. heard' = [heard EXCEPT ![m] =
                   [heard[m] EXCEPT !.first = FALSE, !.prev = r.row.label, !.newest = n]]
    BY <2>1 DEF SignalsArrive
  <2> QED
    BY <1>1, <2>1, <2>2 DEF Refs
<1>3. /\ signalReqs' \subseteq signalReqs
      /\ UNCHANGED <<page, mount, served>>
      /\ IF Rings(heard[m], r.row)
           THEN rung' = rung \cup {n} /\ rangTwice' = (rangTwice \/ n \in rung)
           ELSE UNCHANGED <<rung, rangTwice>>
  BY DEF SignalsArrive, browserVars
<1>a. ~overtaken' => ~overtaken /\ heard[m].newest <= n
  <2>1. overtaken' = (overtaken \/ n < heard[m].newest)
    BY DEF SignalsArrive
  <2>2. ~overtaken' => ~overtaken /\ ~(n < heard[m].newest)
    BY <2>1, Zenon
  <2>3. heard[m].newest \in Int
    BY <1>1, SignalNumbers
  <2> QED
    BY <1>1, <2>2, <2>3
<1> HIDE DEF m, n
<1>4. OrderInv'
  <2>1. ASSUME NEW k \in Mounts, ~heard'[k].first
        PROVE  /\ k <= mount' /\ heard'[k].newest <= served'.n
               /\ \A q \in signalReqs' : q.mount < k => q.row.n <= heard'[k].newest
    <3>1. CASE k = m
      BY <1>1, <1>2, <1>3, <3>1 DEF AlarmInv, OrderInv, m, n
    <3>2. CASE k # m
      BY <1>2, <1>3, <2>1, <3>2 DEF AlarmInv, OrderInv
    <3> QED
      BY <3>1, <3>2
  <2> QED
    BY <1>1, <1>3, <2>1 DEF AlarmInv, OrderInv
<1>5. LabelInv'
  <2>1. ASSUME NEW k \in Mounts, ~heard'[k].first
        PROVE  /\ heard'[k].newest = served'.n => heard'[k].prev = served'.label
               /\ \A q \in signalReqs' : heard'[k].newest = q.row.n => heard'[k].prev = q.row.label
    <3>1. CASE k = m
      BY <1>2, <1>3, <3>1 DEF AlarmInv, LabelInv, n
    <3>2. CASE k # m
      BY <1>2, <1>3, <2>1, <3>2 DEF AlarmInv, LabelInv
    <3> QED
      BY <3>1, <3>2
  <2> QED
    BY <1>3, <2>1 DEF AlarmInv, LabelInv
\* Rows that have sounded stay covered, unless the poll was overtaken.
<1>6. ASSUME NEW i \in Int, NEW w \in Mounts, RungBy(i, w), ~overtaken'
      PROVE  RungBy(i, w)'
  <2>2. heard[m].newest <= n /\ w \in Int /\ \A k \in Mounts : heard[k].newest \in Int
    BY <1>a, <1>6, SignalNumbers
  <2>3. ~heard'[w].first /\ i <= heard'[w].newest /\ i <= served'.n
    BY <1>1, <1>2, <1>3, <1>6, <2>2 DEF RungBy
  <2>4. \A k \in Mounts : w < k /\ ~heard'[k].first => i <= heard'[k].newest
    <3>1. w < m => i <= n
      BY <1>6 DEF RungBy, m, n
    <3> QED
      BY <1>1, <1>2, <1>6, <3>1 DEF RungBy
  <2> QED
    BY <1>3, <1>6, <2>3, <2>4 DEF RungBy
\* When it sounds, the component has processed an older row, and nobody else has
\* sounded for this one.
<1>7. ASSUME Rings(heard[m], r.row), ~overtaken'
      PROVE  RungBy(n, m)' /\ \A w \in Mounts : ~RungBy(n, w)
  <2>1. ~heard[m].first /\ heard[m].newest # n
    BY <1>1, <1>7 DEF Rings, AlarmInv, LabelInv, m, n
  <2>2. heard[m].newest < n /\ \A k \in Mounts : k \in Int /\ heard[k].newest \in Int
    BY <1>1, <1>a, <1>7, <2>1, SignalNumbers
  <2>3. \A q \in signalReqs' : (m < q.mount => n <= q.row.n) /\ (q.mount < m => q.row.n < n)
    <3>1. \A q \in signalReqs : q.row.n \in Int /\ (m < q.mount => n <= q.row.n)
                                /\ (q.mount < m => q.row.n <= heard[m].newest)
      BY <1>1, <2>1, SignalNumbers DEF AlarmInv, OrderInv, m, n
    <3> QED
      BY <1>1, <1>3, <2>2, <3>1
  <2>4. \A k \in Mounts : m < k /\ ~heard'[k].first => n <= heard'[k].newest
    BY <1>1, <1>2, <2>2 DEF AlarmInv, OrderInv, m, n
  <2>5. RungBy(n, m)'
    BY <1>1, <1>2, <1>3, <2>3, <2>4 DEF RungBy
  <2>6. ASSUME NEW w \in Mounts, RungBy(n, w)
        PROVE  FALSE
    <3>1. w # m
      BY <1>1, <2>2, <2>6 DEF RungBy
    <3>2. ~(w < m)
      BY <1>1, <2>1, <2>2, <2>6 DEF RungBy
    <3>3. ~(m < w)
      BY <1>1, <2>6 DEF RungBy, m, n
    <3> QED
      BY <1>1, <2>2, <2>6, <3>1, <3>2, <3>3
  <2> QED
    BY <2>5, <2>6
<1>8. rung \subseteq Int
  BY SignalsAssumption DEF TypeOK, SignalTypeOK
<1>9. RungInv'
  <2>1. SUFFICES ASSUME ~overtaken'
                 PROVE  ~rangTwice' /\ \A i \in rung' : \E w \in Mounts : RungBy(i, w)'
    BY DEF RungInv
  <2>2. ~rangTwice /\ \A i \in rung : \E w \in Mounts : RungBy(i, w)
    BY <1>a, <2>1 DEF AlarmInv, RungInv
  <2>3. \A i \in rung : \E w \in Mounts : RungBy(i, w)'
    BY <1>6, <1>8, <2>1, <2>2
  <2>4. CASE Rings(heard[m], r.row)
    <3>1. n \notin rung
      BY <1>7, <2>1, <2>2, <2>4
    <3>2. rung' = rung \cup {n} /\ rangTwice' = (rangTwice \/ n \in rung)
      BY <1>3, <2>4
    <3>3. ~rangTwice'
      BY <2>2, <3>1, <3>2, Zenon
    <3> QED
      BY <1>1, <1>7, <2>1, <2>3, <2>4, <3>2, <3>3
  <2>5. CASE ~Rings(heard[m], r.row)
    BY <1>3, <2>2, <2>3, <2>5
  <2> QED
    BY <2>4, <2>5
<1> QED
  BY <1>4, <1>5, <1>9 DEF AlarmInv

LEMMA AlarmInit == Init => AlarmInv
BY DEF Init, SignalInit, AlarmInv, OrderInv, LabelInv, RungInv, RungBy

LEMMA AlarmStep ==
  ASSUME TypeOK, AlarmInv, [Next]_vars
  PROVE  AlarmInv'
<1>a. SignalTypeOK /\ BrowserTypeOK /\ heard \in [Mounts -> Refs]
  BY DEF TypeOK, SignalTypeOK
<1>b. ASSUME heard' = heard
      PROVE  SameRefs
  BY <1>b DEF SameRefs
<1>c. ASSUME NEW k \in Mounts, NEW b \in BOOLEAN, heard' = [heard EXCEPT ![k].on = b]
      PROVE  SameRefs
  <2>1. heard[k] \in Refs
    BY <1>a
  <2> QED
    BY <1>a, <1>c, <2>1 DEF SameRefs, Refs
<1>1. CASE UNCHANGED <<signalVars, page>> /\ (page = "signals" => mount' = mount)
  <2>1. CASE page = "signals"
    BY <1>1, <1>b, <2>1, AlarmFrame DEF signalVars
  <2>2. CASE page # "signals"
    <3>1. signalReqs = {} /\ \A m \in Mounts : heard[m].first
      BY <2>2 DEF AlarmInv, OrderInv
    <3> QED
      BY <1>1, <3>1 DEF signalVars, AlarmInv, OrderInv, LabelInv, RungInv, RungBy
  <2> QED
    BY <2>1, <2>2
<1>2. CASE SignalsMount
  <2>1. mount' = mount + 1 /\ page' = page /\ mount' \in Mounts
    BY <1>2, <1>a, OpeningTyped, OpenMount DEF SignalsMount
  <2>2. /\ heard' = [heard EXCEPT ![mount'].on = alarmStored]
        /\ page = "signals" /\ UNCHANGED <<served, rung, rangTwice, overtaken>>
    BY <1>2 DEF SignalsMount
  <2>3. PICK m \in Mounts : m = mount' /\ Load(m)
    BY <1>2, <2>1 DEF SignalsMount, Load
  <2>4. SameRefs
    BY <1>a, <1>c, <2>1, <2>2 DEF SignalTypeOK
  <2> QED
    BY <2>1, <2>2, <2>3, <2>4, AlarmLoad
<1>3. CASE SignalsLeave
  <2>1. UNCHANGED signalVars /\ UNCHANGED <<page, mount>>
    BY <1>3, <1>a, ClosingTyped DEF SignalsLeave
  <2> QED
    BY <1>1, <2>1
<1>4. CASE SignalTick
  <2>1. mount \in Mounts
    BY <1>4, <1>a, OpenMount DEF SignalTick, SignalsOpen
  <2>2. /\ page = "signals"
        /\ UNCHANGED <<page, mount, heard, served, rung, rangTwice, overtaken>>
    BY <1>4 DEF SignalTick, SignalsOpen, browserVars
  <2>3. PICK m \in Mounts : m = mount' /\ Load(m)
    BY <1>4, <2>1, <2>2 DEF SignalTick
  <2> QED
    BY <1>b, <2>2, <2>3, AlarmLoad
<1>5. ASSUME NEW l \in Labels, NEW b \in BOOLEAN, SignalChanges(l, b)
      PROVE  AlarmInv'
  <2>1. /\ served'.n = served.n + 1 /\ page = "signals"
        /\ UNCHANGED <<page, mount, heard, signalReqs, rung, rangTwice, overtaken>>
    BY <1>5 DEF SignalChanges, browserVars
  <2> QED
    BY <2>1, AlarmChange
<1>6. ASSUME NEW granted \in BOOLEAN, ToggleAlerts(granted)
      PROVE  AlarmInv'
  <2>1. mount \in Mounts /\ UNCHANGED <<page, mount>>
    BY <1>6, <1>a, OpenMount, ClickingTyped DEF ToggleAlerts, Clicking
  <2>2. alarmStored' \in BOOLEAN /\ heard' = [heard EXCEPT ![mount].on = alarmStored']
    BY <1>6 DEF ToggleAlerts
  <2>3. page = "signals" /\ UNCHANGED <<served, signalReqs, rung, rangTwice, overtaken>>
    BY <1>6 DEF ToggleAlerts
  <2>4. SameRefs
    BY <1>c, <2>1, <2>2
  <2> QED
    BY <2>1, <2>3, <2>4, AlarmFrame
<1>7. ASSUME NEW r \in signalReqs, SignalsFail(r)
      PROVE  AlarmInv'
  <2>1. page = "signals"
    BY DEF AlarmInv, OrderInv
  <2>2. /\ signalReqs' \subseteq signalReqs
        /\ UNCHANGED <<page, mount, heard, served, rung, rangTwice, overtaken>>
    BY <1>7 DEF SignalsFail, Fail
  <2> QED
    BY <1>b, <2>1, <2>2, AlarmFrame
<1> QED
  BY <1>1, <1>2, <1>3, <1>4, <1>5, <1>6, <1>7, AlarmArrive, SignalSteps DEF SignalNext

\* What the server answers between two changes sounds at most once, however often
\* the page is left and opened again and the alarm switched off and on, as long
\* as no poll is answered after a later one.
THEOREM AlarmCorrect == Spec => []AlarmOnce
<1>1. AlarmInv => AlarmOnce
  BY DEF AlarmInv, RungInv, AlarmOnce
<1> QED
  BY <1>1, AlarmInit, AlarmStep, ClientTypeCorrect, PTL DEF Spec
=============================================================================
