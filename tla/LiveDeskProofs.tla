--------------------------- MODULE LiveDeskProofs ---------------------------
(***************************************************************************)
(* Broker and record agree on the live orders, and do what OrderLedger     *)
(* promises, for any number of orders, workers, faults and changes of the  *)
(* user's broker.                                                          *)
(***************************************************************************)
EXTENDS ClientTypeProofs

Early == {"sent", "read", "held"}

\* What a request in flight knows: before the broker acted, it has no such
\* order; after it did, it has, a simulated one is filled, and nobody recorded it
\* yet.  Only a live broker ever cancels.
Carried(r) ==
  /\ r.kind = "place" /\ r.at \in Early => book[r.order] = "none"
  /\ r.kind = "place" /\ r.at = "acted" =>
       /\ book[r.order] # "none" /\ record[r.order] = "none"
       /\ r.as = SimBroker => book[r.order] = "filled"
  /\ r.kind = "cancel" /\ r.at = "acted" => r.as # SimBroker

\* An order is placed by one request.
OneRequest ==
  \A r, q \in liveReqs : r.kind = "place" /\ q.kind = "place" /\ r.order = q.order => r = q

RecordInv == OrdersRecorded /\ OneRequest /\ \A r \in liveReqs : Carried(r)

\* A step of another page, or of the tab, is none of these.
LEMMA LiveSteps == [Next]_vars => LiveNext \/ UNCHANGED liveVars
BY DEF Next, vars

\* One request is replaced by itself a stage further, or with nobody waiting.
LEMMA MovesKeepRecord ==
  ASSUME TypeOK, RecordInv, NEW r \in liveReqs, NEW q,
         UNCHANGED <<book, record, cut>>, liveReqs' = (liveReqs \ {r}) \cup {q},
         q.kind = r.kind, q.order = r.order,
         (q.at = r.at /\ q.as = r.as) \/ (r.at \in Early /\ q.at \in Early)
  PROVE  RecordInv'
<1> USE DEF RecordInv, Early
<1>1. Carried(q)'
  BY DEF Carried
<1>2. \A p \in liveReqs : Carried(p)'
  BY DEF Carried
<1>3. OneRequest'
  BY DEF OneRequest
<1>4. OrdersRecorded'
  BY DEF OrdersRecorded
<1> QED
  BY <1>1, <1>2, <1>3, <1>4

\* A request at its next stage is the same order's.
LEMMA Staged ==
  ASSUME TypeOK, OneRequest, NEW r \in liveReqs, NEW at, NEW b, liveReqs' = Moved(r, at, b)
  PROVE  \E q : /\ liveReqs' = (liveReqs \ {r}) \cup {q}
                /\ q.kind = r.kind /\ q.order = r.order /\ q.at = at /\ q.as = b
                /\ OneRequest'
<1>1. PICK q : q = [r EXCEPT !.at = at, !.as = b]
  OBVIOUS
<1>2. q.kind = r.kind /\ q.order = r.order /\ q.at = at /\ q.as = b
  BY <1>1 DEF TypeOK, LiveTypeOK, LiveReqs
<1>3. liveReqs' = (liveReqs \ {r}) \cup {q}
  BY <1>1 DEF Moved
<1>4. OneRequest'
  BY <1>2, <1>3 DEF OneRequest
<1> QED
  BY <1>2, <1>3, <1>4

\* Requests end, others that place nothing are sent: an order the broker has
\* already is recorded, or cut short.
LEMMA EndsKeepRecord ==
  ASSUME TypeOK, RecordInv, UNCHANGED <<book, record>>, cut \subseteq cut',
         \A q \in liveReqs' \ liveReqs : q.kind # "place" /\ q.at # "acted",
         \A q \in liveReqs \ liveReqs' : q.kind = "place" /\ q.at = "acted" => q.order \in cut'
  PROVE  RecordInv'
<1> USE DEF RecordInv
<1>1. \A q \in liveReqs' : Carried(q)'
  BY DEF Carried
<1>2. OneRequest'
  BY DEF OneRequest
<1>3. OrdersRecorded'
  BY DEF OrdersRecorded
<1> QED
  BY <1>1, <1>2, <1>3

\* Requests know what they carry, in every state.
LEMMA RecordInvariance == Spec => []RecordInv
<1>1. Init => RecordInv
  BY DEF Init, LiveInit, RecordInv, OrdersRecorded, OneRequest
<1>2. ASSUME TypeOK, RecordInv, [Next]_vars
      PROVE  RecordInv'
  <2> USE <1>2
  <2>a. /\ liveReqs \subseteq LiveReqs
        /\ book \in [Orders -> States] /\ record \in [Orders -> States]
    BY DEF TypeOK, LiveTypeOK
  <2>b. \A r \in liveReqs : r.kind \in {"place", "cancel"} => r.order \in Orders
    BY <2>a DEF LiveReqs
  <2>1. CASE UNCHANGED liveVars
    BY <2>1, EndsKeepRecord DEF liveVars
  <2>2. CASE LiveOpens \/ LiveLeaves \/ SessionStep \/ SessionWriteFails
    <3>1. UNCHANGED <<book, record, cut>> /\ liveReqs \subseteq liveReqs'
      BY <2>2 DEF LiveOpens, LiveLeaves, SessionStep, SessionWriteFails, liveVars
    <3>2. \A q \in liveReqs' \ liveReqs : q.kind # "place" /\ q.at # "acted"
      BY <2>2 DEF LiveOpens, LiveLeaves, SessionStep, SessionWriteFails, liveVars, Request
    <3> QED
      BY <3>1, <3>2, EndsKeepRecord
  <2>3. ASSUME NEW o \in Orders, Submit(o)
        PROVE  RecordInv'
    <3>1. PICK q : /\ liveReqs' = liveReqs \cup {q}
                   /\ q.kind = "place" /\ q.order = o /\ q.at = "sent"
      <4>1. PICK w \in Workers : liveReqs' = liveReqs \cup {Request("place", o, mount, w)}
        BY <2>3 DEF Submit
      <4>2. PICK q : q = Request("place", o, mount, w)
        OBVIOUS
      <4>3. q.kind = "place" /\ q.order = o /\ q.at = "sent"
        BY <4>2 DEF Request
      <4> QED
        BY <4>1, <4>2, <4>3
    <3>2. UNCHANGED <<book, record, cut>> /\ Fresh(o)
      BY <2>3 DEF Submit
    <3>3. Carried(q)'
      BY <3>1, <3>2 DEF Carried, Fresh, Early
    <3>4. \A r \in liveReqs' : Carried(r)'
      BY <3>1, <3>2, <3>3 DEF Carried, RecordInv
    <3>5. OneRequest'
      BY <3>1, <3>2 DEF OneRequest, Fresh, RecordInv
    <3>6. OrdersRecorded'
      BY <3>1, <3>2 DEF OrdersRecorded, RecordInv
    <3> QED
      BY <3>4, <3>5, <3>6 DEF RecordInv
  <2>4. ASSUME NEW o \in Orders, SubmitCancel(o)
        PROVE  RecordInv'
    <3>1. UNCHANGED <<book, record, cut>> /\ liveReqs \subseteq liveReqs'
      BY <2>4 DEF SubmitCancel
    <3>2. \A q \in liveReqs' \ liveReqs : q.kind # "place" /\ q.at # "acted"
      BY <2>4 DEF SubmitCancel, Request
    <3> QED
      BY <3>1, <3>2, EndsKeepRecord
  <2>5. ASSUME NEW o \in Orders, BrokerFills(o)
        PROVE  RecordInv'
    <3>1. /\ book[o] = "open" /\ book' = [book EXCEPT ![o] = "filled"]
          /\ UNCHANGED <<record, cut, liveReqs>>
      BY <2>5 DEF BrokerFills
    <3>2. \A r \in liveReqs : Carried(r)'
      BY <2>a, <2>b, <3>1 DEF Carried, RecordInv, Early
    <3>3. OrdersRecorded' /\ OneRequest'
      BY <2>a, <3>1 DEF OrdersRecorded, OneRequest, RecordInv
    <3> QED
      BY <3>1, <3>2, <3>3 DEF RecordInv
  <2>6. ASSUME NEW w \in Workers, WorkerRestarts(w)
        PROVE  RecordInv'
    <3>1. UNCHANGED <<book, record>> /\ cut \subseteq cut' /\ liveReqs' \subseteq liveReqs
      BY <2>6 DEF WorkerRestarts
    <3>2. \A q \in liveReqs \ liveReqs' : q.kind = "place" /\ q.at = "acted" => q.order \in cut'
      BY <2>6 DEF WorkerRestarts
    <3> QED
      BY <3>1, <3>2, EndsKeepRecord
  <2>7. ASSUME NEW r \in liveReqs,
               \/ OrderAnswered(r) \/ ListArrives(r) \/ LiveRefused(r)
               \/ BrokerRefuses(r) \/ BrokerAnswerLost(r)
        PROVE  RecordInv'
    <3>1. UNCHANGED <<book, record>> /\ cut \subseteq cut'
      BY <2>7 DEF OrderAnswered, ListArrives, LiveRefused, BrokerRefuses, BrokerAnswerLost
    <3>2. liveReqs \ {r} \subseteq liveReqs'
      BY <2>7 DEF OrderAnswered, ListArrives, LiveRefused, BrokerRefuses, BrokerAnswerLost, LiveEnds
    <3>3. \A q \in liveReqs' \ liveReqs : q.kind # "place" /\ q.at # "acted"
      BY <2>7 DEF OrderAnswered, ListArrives, LiveRefused, BrokerRefuses, BrokerAnswerLost, LiveEnds,
                  Request
    <3>4. r.kind = "place" /\ r.at = "acted" => r.order \in cut'
      BY <2>7 DEF OrderAnswered, ListArrives, LiveRefused, BrokerRefuses, BrokerAnswerLost
    <3> QED
      BY <3>1, <3>2, <3>3, <3>4, EndsKeepRecord
  <2>8. ASSUME NEW r \in liveReqs, AnswerLost(r) \/ LookUp(r) \/ LookUpEnds(r) \/ LookUpFails(r)
        PROVE  RecordInv'
    <3>1. UNCHANGED <<book, record, cut>>
      BY <2>8 DEF AnswerLost, LookUp, LookUpEnds, LookUpFails
    <3>2. CASE AnswerLost(r)
      <4>1. PICK q : q = [r EXCEPT !.mount = 0]
        OBVIOUS
      <4>2. q.kind = r.kind /\ q.order = r.order /\ q.at = r.at /\ q.as = r.as
        BY <2>a, <4>1 DEF LiveReqs
      <4> QED
        BY <3>1, <3>2, <4>1, <4>2, MovesKeepRecord DEF AnswerLost
    <3>3. CASE LookUp(r) \/ LookUpEnds(r) \/ LookUpFails(r)
      <4>1. r.at \in Early
        BY <3>3 DEF LookUp, LookUpEnds, LookUpFails, Early
      <4>2. PICK at \in Early : \E b : liveReqs' = Moved(r, at, b)
        BY <3>3 DEF LookUp, LookUpEnds, LookUpFails, Early
      <4>3. PICK b : liveReqs' = Moved(r, at, b)
        BY <4>2
      <4>4. PICK q : /\ liveReqs' = (liveReqs \ {r}) \cup {q}
                     /\ q.kind = r.kind /\ q.order = r.order /\ q.at = at
        BY <4>3, Staged DEF RecordInv
      <4> QED
        BY <3>1, <4>1, <4>2, <4>4, MovesKeepRecord
    <3> QED
      BY <2>8, <3>2, <3>3
  <2>9. ASSUME NEW r \in liveReqs,
               BrokerTakes(r) \/ BrokerCancels(r) \/ Save(r) \/ SaveFails(r) \/ UpdateStatus(r)
        PROVE  RecordInv'
    <3>1. r.order \in Orders /\ Carried(r)
      BY <2>9, <2>b DEF BrokerTakes, BrokerCancels, Save, SaveFails, UpdateStatus, RecordInv
    <3>2. CASE BrokerTakes(r)
      <4>1. /\ r.kind = "place" /\ r.at = "held" /\ book[r.order] = "none"
            /\ book' = [book EXCEPT ![r.order] = Placed(r)] /\ UNCHANGED <<record, cut>>
            /\ liveReqs' = Moved(r, "acted", r.as)
        BY <3>1, <3>2 DEF BrokerTakes, Carried, Early
      <4>2. PICK q : /\ liveReqs' = (liveReqs \ {r}) \cup {q} /\ OneRequest'
                     /\ q.kind = "place" /\ q.order = r.order /\ q.at = "acted" /\ q.as = r.as
        BY <4>1, Staged DEF RecordInv
      <4>3. book'[r.order] = Placed(r) /\ Placed(r) # "none"
        BY <2>a, <3>1, <4>1 DEF Placed
      <4>0. record'[r.order] = "none"
        BY <3>1, <4>1 DEF OrdersRecorded, RecordInv
      <4>4. Carried(q)'
        BY <4>0, <4>2, <4>3 DEF Carried, Placed, Early
      <4>5. ASSUME NEW p \in liveReqs \ {r}
            PROVE  Carried(p)'
        <5>1. p.kind = "place" => p.order # r.order
          BY <4>1 DEF OneRequest, RecordInv
        <5>2. p.kind = "place" => book'[p.order] = book[p.order]
          BY <2>a, <2>b, <4>1, <5>1
        <5> QED
          BY <4>1, <5>2 DEF Carried, RecordInv
      <4>6. \A p \in liveReqs' : Carried(p)'
        BY <4>2, <4>4, <4>5
      <4>7. OrdersRecorded'
        <5> SUFFICES ASSUME NEW o \in Orders
                     PROVE  /\ book'[o] # "none" /\ record'[o] = "none" =>
                                 \/ o \in cut'
                                 \/ \E p \in liveReqs' : p.kind = "place" /\ p.order = o /\ p.at = "acted"
                            /\ record'[o] # "none" => book'[o] # "none"
                            /\ record'[o] = "filled" => book'[o] = "filled"
          BY DEF OrdersRecorded
        <5>1. CASE o = r.order
          BY <4>1, <4>2, <4>3, <5>1 DEF OrdersRecorded, RecordInv
        <5>2. CASE o # r.order
          <6>1. book'[o] = book[o] /\ record'[o] = record[o] /\ cut' = cut
            BY <2>a, <4>1, <5>2
          <6> QED
            BY <4>2, <5>2, <6>1 DEF OrdersRecorded, RecordInv
        <5> QED
          BY <5>1, <5>2
      <4> QED
        BY <4>2, <4>6, <4>7 DEF RecordInv
    <3>3. CASE BrokerCancels(r)
      <4>1. /\ r.kind = "cancel" /\ r.at = "held" /\ book[r.order] = "open" /\ r.as # SimBroker
            /\ book' = [book EXCEPT ![r.order] = "cancelled"] /\ UNCHANGED <<record, cut>>
            /\ liveReqs' = Moved(r, "acted", r.as)
        BY <3>3 DEF BrokerCancels
      <4>2. PICK q : /\ liveReqs' = (liveReqs \ {r}) \cup {q} /\ OneRequest'
                     /\ q.kind = "cancel" /\ q.at = "acted" /\ q.as = r.as
        BY <4>1, Staged DEF RecordInv
      <4>3. Carried(q)'
        BY <4>1, <4>2 DEF Carried
      <4>4. \A p \in liveReqs : Carried(p)'
        BY <2>a, <2>b, <3>1, <4>1 DEF Carried, RecordInv, Early
      <4>5. \A p \in liveReqs' : Carried(p)'
        BY <4>2, <4>3, <4>4
      <4>6. OrdersRecorded'
        BY <2>a, <3>1, <4>1, <4>2 DEF OrdersRecorded, RecordInv
      <4> QED
        BY <4>2, <4>5, <4>6 DEF RecordInv
    <3>4. CASE Save(r) \/ SaveFails(r) \/ UpdateStatus(r)
      <4>1. UNCHANGED book /\ r.at = "acted" /\ liveReqs' = Moved(r, "saved", r.as)
        BY <3>4 DEF Save, SaveFails, UpdateStatus
      <4>2. PICK q : /\ liveReqs' = (liveReqs \ {r}) \cup {q} /\ OneRequest' /\ q.at = "saved"
        BY <4>1, Staged DEF RecordInv
      <4>3. Carried(q)' /\ \A p \in liveReqs \ {r} : Carried(p)'
        <5>1. Carried(q)'
          BY <4>2 DEF Carried, Early
        <5>2. ASSUME NEW p \in liveReqs \ {r}
              PROVE  Carried(p)'
          <6>1. p.kind = "place" /\ p.at = "acted" => p.order \in Orders /\ record'[p.order] = record[p.order]
            <7>1. ASSUME p.kind = "place", p.at = "acted", Save(r)
                  PROVE  record'[p.order] = record[p.order]
              BY <2>a, <2>b, <3>1, <7>1 DEF OneRequest, RecordInv, Save
            <7>2. ASSUME UpdateStatus(r)
                  PROVE  record' = record
              BY <3>1, <7>2 DEF UpdateStatus, Carried
            <7> QED
              BY <2>b, <3>4, <7>1, <7>2 DEF SaveFails
          <6> QED
            BY <4>1, <6>1 DEF Carried, RecordInv
        <5> QED
          BY <5>1, <5>2
      <4>4. \A p \in liveReqs' : Carried(p)'
        BY <4>2, <4>3
      <4>5. \A p \in liveReqs \ {r} : p \in liveReqs'
        BY <4>2
      <4>6. CASE Save(r)
        <5>1. /\ r.kind = "place" /\ record' = [record EXCEPT ![r.order] = Placed(r)]
              /\ cut' = cut
          BY <4>6 DEF Save
        <5>2. /\ book[r.order] # "none" /\ (Placed(r) = "filled" => book[r.order] = "filled")
              /\ Placed(r) # "none"
          BY <3>1, <4>1, <5>1 DEF Carried, Placed
        <5>3. OrdersRecorded'
          BY <2>a, <3>1, <4>1, <4>5, <5>1, <5>2 DEF OrdersRecorded, RecordInv
        <5> QED
          BY <4>2, <4>4, <5>3 DEF RecordInv
      <4>7. CASE SaveFails(r)
        <5>1. record' = record /\ cut' = cut \cup {r.order}
          BY <4>7 DEF SaveFails
        <5>2. OrdersRecorded'
          BY <4>1, <4>5, <5>1 DEF OrdersRecorded, RecordInv
        <5> QED
          BY <4>2, <4>4, <5>2 DEF RecordInv
      <4>8. CASE UpdateStatus(r)
        <5>1. record' = record /\ cut' = cut /\ r.kind = "cancel"
          BY <3>1, <4>1, <4>8 DEF UpdateStatus, Carried
        <5>2. OrdersRecorded'
          BY <4>1, <4>5, <5>1 DEF OrdersRecorded, RecordInv
        <5> QED
          BY <4>2, <4>4, <5>2 DEF RecordInv
      <4> QED
        BY <3>4, <4>6, <4>7, <4>8
    <3> QED
      BY <2>9, <3>2, <3>3, <3>4
  <2> QED
    BY <2>1, <2>2, <2>3, <2>4, <2>5, <2>6, <2>7, <2>8, <2>9, LiveSteps DEF LiveNext
<1> QED
  BY <1>1, <1>2, ClientTypeCorrect, PTL DEF Spec

\* An order the broker took is recorded, or about to be, or its request met a
\* fault; and MongoDB never speaks of an order or a fill the broker does not have.
THEOREM RecordCorrect == Spec => []OrdersRecorded
<1>1. RecordInv => OrdersRecorded
  BY DEF RecordInv
<1> QED
  BY <1>1, RecordInvariance, PTL

-----------------------------------------------------------------------------
(* The refinement.  Only the broker, when it takes, cancels or fills, and  *)
(* the handler that saves, move what OrderLedger speaks of.                *)

\* Steps that leave the broker's book and the record of it alone.
LEMMA BookQuiet ==
  ASSUME TypeOK, RecordInv, [Next]_vars,
         \A o \in Orders : ~BrokerFills(o),
         \A r \in liveReqs : ~BrokerTakes(r) /\ ~BrokerCancels(r) /\ ~Save(r)
  PROVE  UNCHANGED <<book, record>>
<1>1. CASE UNCHANGED liveVars
  BY <1>1 DEF liveVars
<1>2. CASE LiveOpens \/ LiveLeaves \/ SessionStep \/ SessionWriteFails
  BY <1>2 DEF LiveOpens, LiveLeaves, SessionStep, SessionWriteFails, liveVars
<1>3. ASSUME NEW o \in Orders, Submit(o) \/ SubmitCancel(o)
      PROVE  UNCHANGED <<book, record>>
  BY <1>3 DEF Submit, SubmitCancel
<1>4. ASSUME NEW w \in Workers, WorkerRestarts(w)
      PROVE  UNCHANGED <<book, record>>
  BY <1>4 DEF WorkerRestarts
<1>5. ASSUME NEW r \in liveReqs,
             \/ OrderAnswered(r) \/ ListArrives(r) \/ AnswerLost(r) \/ LiveRefused(r)
             \/ LookUp(r) \/ LookUpEnds(r) \/ LookUpFails(r)
             \/ BrokerRefuses(r) \/ BrokerAnswerLost(r) \/ SaveFails(r)
      PROVE  UNCHANGED <<book, record>>
  BY <1>5 DEF OrderAnswered, ListArrives, AnswerLost, LiveRefused, LookUp, LookUpEnds, LookUpFails,
              BrokerRefuses, BrokerAnswerLost, SaveFails
<1>6. ASSUME NEW r \in liveReqs, UpdateStatus(r)
      PROVE  UNCHANGED <<book, record>>
  BY <1>6 DEF UpdateStatus, RecordInv, Carried
<1> QED
  BY <1>1, <1>2, <1>3, <1>4, <1>5, <1>6, LiveSteps DEF LiveNext

\* Live orders do what OrderLedger promises: whichever worker serves which request,
\* and whatever is lost on the way, the broker takes and ends an order once, and its
\* record is written once and after the broker took it.
THEOREM ImplementsOrderLedger == Spec => OrderLedgerSpec
<1>1. Init => OrderBook!Init
  BY DEF Init, LiveInit, OrderBook!Init
<1>2. ASSUME TypeOK, RecordInv, [Next]_vars
      PROVE  [OrderBook!Next]_<<book, record>>
  <2> USE <1>2
  <2>a. book \in [Orders -> States] /\ record \in [Orders -> States]
    BY DEF TypeOK, LiveTypeOK
  <2>b. \A r \in liveReqs : r.kind \in {"place", "cancel"} => r.order \in Orders
    BY DEF TypeOK, LiveTypeOK, LiveReqs
  <2>c. \A r \in liveReqs : Carried(r)
    BY DEF RecordInv
  <2>1. ASSUME NEW o \in Orders, BrokerFills(o)
        PROVE  OrderBook!End(o)
    BY <2>1 DEF BrokerFills, OrderBook!End
  <2>2. ASSUME NEW r \in liveReqs, BrokerCancels(r)
        PROVE  OrderBook!End(r.order) /\ r.order \in Orders
    BY <2>2, <2>b DEF BrokerCancels, OrderBook!End
  <2>3. ASSUME NEW r \in liveReqs, BrokerTakes(r)
        PROVE  OrderBook!Take(r.order) /\ r.order \in Orders
    <3>1. book[r.order] = "none"
      BY <2>3, <2>c DEF BrokerTakes, Carried, Early
    <3>2. Placed(r) \in {"open", "filled"}
      BY DEF Placed
    <3> QED
      BY <2>3, <2>b, <3>1, <3>2 DEF BrokerTakes, OrderBook!Take
  <2>4. ASSUME NEW r \in liveReqs, Save(r)
        PROVE  OrderBook!Note(r.order) /\ r.order \in Orders
    <3>1. /\ book[r.order] # "none" /\ record[r.order] = "none"
          /\ Placed(r) = "filled" => book[r.order] = "filled"
      BY <2>4, <2>c DEF Save, Carried, Placed
    <3>2. Placed(r) \in {"open", "filled"}
      BY DEF Placed
    <3> QED
      BY <2>4, <2>b, <3>1, <3>2 DEF Save, OrderBook!Note
  <2>5. CASE /\ \A o \in Orders : ~BrokerFills(o)
             /\ \A r \in liveReqs : ~BrokerTakes(r) /\ ~BrokerCancels(r) /\ ~Save(r)
    BY <2>5, BookQuiet
  <2> QED
    BY <2>1, <2>2, <2>3, <2>4, <2>5 DEF OrderBook!Next
<1> QED
  BY <1>1, <1>2, RecordInvariance, ClientTypeCorrect, PTL
     DEF Spec, OrderLedgerSpec, OrderBook!Spec, OrderBook!ledger
=============================================================================
