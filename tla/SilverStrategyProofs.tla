------------------------ MODULE SilverStrategyProofs ------------------------
(***************************************************************************)
(* Safety of the silver strategy, for all constants.  TypeOK, and that no  *)
(* more signals of a direction are open than there are schedulers, need    *)
(* nothing else.  That a banked first target is never turned into a loss,  *)
(* and how many trades a day can have, need the single scheduler: then     *)
(* nothing moves under a pass between its list and its writes, nor between *)
(* its look and its insert.                                                *)
(***************************************************************************)
EXTENDS SilverStrategy, FiniteSetTheorems, TLAPS

\* The signals closed today are finitely many.
LEMMA ClosedFinite == IsFiniteSet(ClosedToday)
  BY SignalsAssumption, FS_Subset DEF ClosedToday

\* Their number is a number.
LEMMA CountType == Cardinality(ClosedToday) \in Nat
  BY ClosedFinite, FS_CardinalityType

\* What close_signal writes has the shape of a signal.
LEMMA CloseType ==
  ASSUME TypeOK, NEW s \in Schedulers, NEW i \in Signals,
         NEW result \in Results, NEW pnl \in Points, Close(s, i, result, pnl)
  PROVE  TypeOK'
  <1> DEFINE stamp == IF pass[s].stamp = 0 THEN Cardinality(ClosedToday) + 1 ELSE pass[s].stamp
  <1>1. stamp \in Nat \cup {None}
    BY CountType DEF TypeOK, Pass
  <1>2. (IF stamp = None THEN 0 ELSE stamp) \in Nat
    BY <1>1
  <1>3. sig' = [sig EXCEPT ![i] =
                  [status |-> "closed", direction |-> @.direction, half |-> @.half,
                   age |-> 0, result |-> result, pnl |-> pnl,
                   stamp |-> IF stamp = None THEN 0 ELSE stamp]]
    BY DEF Close
  <1>4. pass' = [pass EXCEPT ![s].todo = @ \ {i}, ![s].stamp = stamp]
    BY DEF Close
  <1> HIDE DEF stamp
  <1>5. 0 \in 0..(ExpiryDays + 1)
    BY LimitsAssumption
  <1>6. sig' \in [Signals -> Signal]
    BY <1>2, <1>3, <1>5 DEF TypeOK, Signal
  <1>7. pass' \in [Schedulers -> Pass]
    <2>1. pass[s] \in Pass
      BY DEF TypeOK
    <2>2. [pass[s] EXCEPT !.todo = @ \ {i}, !.stamp = stamp] \in Pass
      BY <1>1, <2>1 DEF Pass
    <2>3. pass' = [pass EXCEPT ![s] = [pass[s] EXCEPT !.todo = @ \ {i}, !.stamp = stamp]]
      BY <1>4 DEF TypeOK
    <2> QED BY <2>2, <2>3 DEF TypeOK
  <1> QED BY <1>6, <1>7 DEF TypeOK

\* The records a document and a pass start as.
LEMMA InitTypes == NoSignal \in Signal /\ IdlePass \in Pass
  <1>1. 0 \in 0..(ExpiryDays + 1) /\ 0 \in Points
    BY LimitsAssumption DEF Points
  <1> QED BY <1>1 DEF NoSignal, IdlePass, Signal, Pass

\* Every step keeps the shape of both variables.
LEMMA TypeStep == TypeOK /\ [Next]_vars => TypeOK'
  <1> SUFFICES ASSUME TypeOK, [Next]_vars PROVE TypeOK'
    OBVIOUS
  <1> USE InitTypes
  <1>1. ASSUME NEW s \in Schedulers, ListOpen(s) PROVE TypeOK'
    <2>1. [IdlePass EXCEPT !.pc = "gating"] \in Pass
      BY DEF IdlePass, Pass
    <2>2. [IdlePass EXCEPT !.pc = "listed", !.todo = Open,
                           !.half = {i \in Open : sig[i].half}] \in Pass
      BY DEF IdlePass, Pass, Open
    <2> QED BY <1>1, <2>1, <2>2 DEF TypeOK, ListOpen
  <1>2. ASSUME NEW s \in Schedulers, Quote(s) PROVE TypeOK'
    <2>1. PICK old \in SUBSET pass[s].todo :
            pass' = [pass EXCEPT ![s].pc = "resolving", ![s].old = old]
      BY <1>2 DEF Quote
    <2>2. pass[s] \in Pass /\ old \subseteq Signals
      BY DEF TypeOK, Pass
    <2>3. [pass[s] EXCEPT !.pc = "resolving", !.old = old] \in Pass
      BY <2>2 DEF Pass
    <2>4. pass' = [pass EXCEPT ![s] = [pass[s] EXCEPT !.pc = "resolving", !.old = old]]
      BY <2>1 DEF TypeOK
    <2> QED BY <1>2, <2>3, <2>4 DEF TypeOK, Quote
  <1>3. ASSUME NEW s \in Schedulers, Resolved(s) \/ PassFails(s) PROVE TypeOK'
    BY <1>3 DEF TypeOK, Resolved, PassFails, IdlePass, Pass
  <1>4. ASSUME NEW s \in Schedulers, Gate(s) PROVE TypeOK'
    <2>1. [IdlePass EXCEPT !.pc = "looking", !.direction = "BUY"] \in Pass
      BY DEF IdlePass, Pass, Directions
    <2>2. \E p \in Pass : pass' = [pass EXCEPT ![s] = p]
      BY <1>4, <2>1 DEF Gate
    <2> QED BY <1>4, <2>2 DEF TypeOK, Gate
  <1>5. ASSUME NEW s \in Schedulers, NoSignalNow(s) PROVE TypeOK'
    BY <1>5 DEF TypeOK, NoSignalNow, After, IdlePass, Pass, Directions
  <1>6. ASSUME NEW s \in Schedulers, FindNoneOpen(s) PROVE TypeOK'
    BY <1>6 DEF TypeOK, FindNoneOpen, Pass
  <1>7. ASSUME NEW s \in Schedulers, LogSignal(s) PROVE TypeOK'
    <2>1. pass[s].direction \in Directions \cup {None}
      BY DEF TypeOK, Pass
    <2>2. [NoSignal EXCEPT !.status = "open", !.direction = pass[s].direction] \in Signal
      BY <2>1 DEF NoSignal, Signal
    <2>3. sig' \in [Signals -> Signal]
      BY <1>7, <2>2 DEF TypeOK, LogSignal
    <2>4. pass' \in [Schedulers -> Pass]
      BY <1>7 DEF TypeOK, LogSignal, After, IdlePass, Pass, Directions
    <2> QED BY <2>3, <2>4 DEF TypeOK
  <1>8. ASSUME NEW s \in Schedulers, NEW i \in Signals, LeaveOpen(s, i) PROVE TypeOK'
    BY <1>8 DEF TypeOK, LeaveOpen, Pass
  <1>9. ASSUME NEW s \in Schedulers, NEW i \in Signals, BankTarget1(s, i) PROVE TypeOK'
    BY <1>9 DEF TypeOK, BankTarget1, Pass, Signal
  <1>10. ASSUME NEW s \in Schedulers, NEW i \in Signals, StopOut(s, i) PROVE TypeOK'
    <2>1. -Risk \in Points
      BY LimitsAssumption DEF Points
    <2> QED BY <1>10, <2>1, CloseType DEF StopOut, Results
  <1>11. ASSUME NEW s \in Schedulers, NEW i \in Signals, TakeProfit(s, i) PROVE TypeOK'
    <2>1. {2 * Risk, 0} \subseteq Points
      BY LimitsAssumption DEF Points
    <2>2. PICK pnl \in {2 * Risk, 0} : Close(s, i, "WIN", pnl)
      BY <1>11 DEF TakeProfit
    <2> QED BY <2>1, <2>2, CloseType DEF Results
  <1>12. ASSUME NEW s \in Schedulers, NEW i \in Signals, Expire(s, i) PROVE TypeOK'
    <2>1. /\ 1 .. (2 * Risk - 1) \subseteq Points
          /\ (1 - Risk) .. (Risk - 1) \subseteq Points
      BY LimitsAssumption DEF Points
    <2>2. PICK pnl \in IF i \in pass[s].half THEN 1 .. (2 * Risk - 1) ELSE (1 - Risk) .. (Risk - 1) :
            Close(s, i, "EXPIRED", pnl)
      BY <1>12 DEF Expire
    <2>3. pnl \in Points
      BY <2>1, <2>2
    <2> QED BY <2>2, <2>3, CloseType DEF Results
  <1>13. ASSUME DayTurns PROVE TypeOK'
    <2>1. ASSUME NEW i \in Signals PROVE Older(sig[i]) \in Signal
      <3>1. sig[i] \in Signal
        BY DEF TypeOK
      <3>2. \A a \in 0..(ExpiryDays + 1) : a <= ExpiryDays => a + 1 \in 0..(ExpiryDays + 1)
        BY LimitsAssumption
      <3> QED BY <3>1, <3>2 DEF Older, Signal
    <2>2. sig' \in [Signals -> Signal]
      BY <1>13, <2>1 DEF DayTurns
    <2>3. pass' \in [Schedulers -> Pass]
      BY <1>13 DEF TypeOK, DayTurns, Pass
    <2> QED BY <2>2, <2>3 DEF TypeOK
  <1>14. CASE UNCHANGED vars
    BY <1>14 DEF TypeOK, vars
  <1> QED BY <1>1, <1>2, <1>3, <1>4, <1>5, <1>6, <1>7, <1>8, <1>9, <1>10, <1>11, <1>12,
             <1>13, <1>14 DEF Next, Step

\* Documents and passes always have the shape the code gives them.
THEOREM TypeCorrect == Spec => []TypeOK
  <1>1. Init => TypeOK
    BY InitTypes DEF Init, TypeOK
  <1> QED BY <1>1, TypeStep, PTL DEF Spec

-----------------------------------------------------------------------------
(* Any number of schedulers, as after the advisory lock was lost.  A       *)
(* scheduler that is about to log found no open signal, so each open       *)
(* signal of a direction has used up the turn of another scheduler.        *)

OpenIn(d)  == {i \in Open : sig[i].direction = d}
Logging(d) == {s \in Schedulers : pass[s].pc = "logging" /\ pass[s].direction = d}

OpenCounted ==
  \A d \in Directions :
    Cardinality(OpenIn(d)) + Cardinality(Logging(d)) <= Cardinality(Schedulers)

\* Both sets are finite.
LEMMA OpenFinite ==
  ASSUME NEW d
  PROVE  /\ IsFiniteSet(OpenIn(d)) /\ Cardinality(OpenIn(d)) \in Nat
         /\ IsFiniteSet(Logging(d)) /\ Cardinality(Logging(d)) \in Nat
         /\ Cardinality(Logging(d)) <= Cardinality(Schedulers)
         /\ Cardinality(Schedulers) \in Nat
  <1>1. OpenIn(d) \subseteq Signals /\ Logging(d) \subseteq Schedulers
    BY DEF OpenIn, Open, Logging
  <1> QED BY <1>1, SignalsAssumption, SchedulersAssumption, FS_Subset, FS_CardinalityType

\* No step but an insert raises either count, in the direction nobody looked at.
LEMMA CountKept ==
  ASSUME OpenCounted, NEW d \in Directions,
         OpenIn(d)' \subseteq OpenIn(d), Logging(d)' \subseteq Logging(d)
  PROVE  Cardinality(OpenIn(d))' + Cardinality(Logging(d))' <= Cardinality(Schedulers)
  <1>1. /\ Cardinality(OpenIn(d)') <= Cardinality(OpenIn(d))
        /\ Cardinality(Logging(d)') <= Cardinality(Logging(d))
        /\ Cardinality(OpenIn(d)') \in Nat /\ Cardinality(Logging(d)') \in Nat
    BY OpenFinite, FS_Subset, FS_CardinalityType
  <1> QED BY <1>1, OpenFinite DEF OpenCounted

\* Steps that open nothing and do not go on to log.
LEMMA OpenFewer ==
  ASSUME TypeOK, OpenCounted, NEW s \in Schedulers,
         \/ ListOpen(s) \/ Quote(s) \/ Resolved(s) \/ Gate(s) \/ NoSignalNow(s) \/ PassFails(s)
         \/ \E i \in Signals : LeaveOpen(s, i) \/ BankTarget1(s, i) \/ StopOut(s, i)
                                 \/ TakeProfit(s, i) \/ Expire(s, i)
  PROVE  OpenCounted'
  <1>0. pass \in [Schedulers -> Pass] /\ sig \in [Signals -> Signal]
    BY DEF TypeOK
  <1> DEFINE Quiet == pass'[s].pc # "logging" /\ \A r \in Schedulers \ {s} : pass'[r] = pass[r]
  <1>1. Quiet
    <2>1. ASSUME NEW x, x.pc # "logging", pass' = [pass EXCEPT ![s] = x] PROVE Quiet
      BY <1>0, <2>1
    <2>2. CASE ListOpen(s)
      <3>1. \E x : x.pc # "logging" /\ pass' = [pass EXCEPT ![s] = x]
        BY <2>2 DEF ListOpen, IdlePass
      <3> QED BY <2>1, <3>1
    <2>3. CASE Resolved(s) \/ PassFails(s)
      <3>1. \E x : x.pc # "logging" /\ pass' = [pass EXCEPT ![s] = x]
        BY <2>3 DEF Resolved, PassFails, IdlePass
      <3> QED BY <2>1, <3>1
    <2>4. CASE Gate(s)
      <3>1. \E x : x.pc # "logging" /\ pass' = [pass EXCEPT ![s] = x]
        BY <2>4 DEF Gate, IdlePass
      <3> QED BY <2>1, <3>1
    <2>5. CASE NoSignalNow(s)
      <3>1. After(pass[s].direction).pc # "logging"
        BY DEF After, IdlePass
      <3> QED BY <2>1, <2>5, <3>1 DEF NoSignalNow
    <2>6. CASE Quote(s)
      BY <1>0, <2>6 DEF Quote, Pass
    <2>7. ASSUME NEW i \in Signals, \/ LeaveOpen(s, i) \/ BankTarget1(s, i) \/ StopOut(s, i)
                                    \/ TakeProfit(s, i) \/ Expire(s, i)
          PROVE  Quiet
      BY <1>0, <2>7 DEF LeaveOpen, BankTarget1, StopOut, TakeProfit, Expire, Close, Pass
    <2> QED BY <2>2, <2>3, <2>4, <2>5, <2>6, <2>7
  <1> DEFINE NoneOpens == \A i \in Signals : sig'[i].status = "open" =>
                            sig[i].status = "open" /\ sig'[i].direction = sig[i].direction
  <1>2. NoneOpens
    <2>1. ASSUME UNCHANGED sig PROVE NoneOpens
      BY <2>1
    <2>2. ASSUME NEW i \in Signals, BankTarget1(s, i) PROVE NoneOpens
      BY <1>0, <2>2 DEF BankTarget1, Signal
    <2>3. ASSUME NEW i \in Signals, NEW result, NEW pnl, Close(s, i, result, pnl) PROVE NoneOpens
      BY <1>0, <2>3 DEF Close, Signal
    <2> QED BY <2>1, <2>2, <2>3 DEF ListOpen, Quote, Resolved, Gate, NoSignalNow, PassFails,
                                    LeaveOpen, StopOut, TakeProfit, Expire
  <1>3. \A d \in Directions : OpenIn(d)' \subseteq OpenIn(d) /\ Logging(d)' \subseteq Logging(d)
    BY <1>1, <1>2 DEF OpenIn, Open, Logging
  <1> QED BY <1>3, CountKept DEF OpenCounted

\* The counts hold in every state.
LEMMA OpenStep == TypeOK /\ OpenCounted /\ [Next]_vars => OpenCounted'
  <1> SUFFICES ASSUME TypeOK, OpenCounted, [Next]_vars PROVE OpenCounted'
    OBVIOUS
  <1>0. pass \in [Schedulers -> Pass] /\ sig \in [Signals -> Signal]
    BY DEF TypeOK
  <1>1. CASE UNCHANGED vars
    BY <1>1 DEF vars, OpenCounted, OpenIn, Open, Logging
  <1>2. CASE DayTurns
    <2>1. \A s \in Schedulers : pass'[s].pc = pass[s].pc /\ pass'[s].direction = pass[s].direction
      BY <1>0, <1>2 DEF DayTurns, Pass
    <2>2. ASSUME NEW i \in Signals, sig'[i].status = "open"
          PROVE  sig[i].status = "open" /\ sig'[i].direction = sig[i].direction
      <3>1. Older(sig[i]).status = sig[i].status /\ Older(sig[i]).direction = sig[i].direction
        BY <1>0 DEF Older, Signal
      <3>2. sig'[i] = IF Kept(i) THEN Older(sig[i]) ELSE NoSignal
        BY <1>2 DEF DayTurns
      <3>3. NoSignal.status = "none"
        BY DEF NoSignal
      <3> QED BY <2>2, <3>1, <3>2, <3>3
    <2>3. \A d \in Directions : OpenIn(d)' \subseteq OpenIn(d) /\ Logging(d)' \subseteq Logging(d)
      BY <2>1, <2>2 DEF OpenIn, Open, Logging
    <2> QED BY <2>3, CountKept DEF OpenCounted
  <1>3. ASSUME NEW s \in Schedulers, FindNoneOpen(s) PROVE OpenCounted'
    <2> SUFFICES ASSUME NEW d \in Directions
                 PROVE  Cardinality(OpenIn(d))' + Cardinality(Logging(d))' <= Cardinality(Schedulers)
      BY DEF OpenCounted
    <2>1. OpenIn(d)' = OpenIn(d)
      BY <1>3 DEF FindNoneOpen, OpenIn, Open
    <2>2. CASE pass[s].direction = d
      <3>1. OpenIn(d) = {}
        BY <1>3, <2>2 DEF FindNoneOpen, OpenIn
      <3>2. Logging(d)' \subseteq Schedulers
        BY DEF Logging
      <3> QED BY <2>1, <3>1, <3>2, SchedulersAssumption, FS_Subset, FS_EmptySet, FS_CardinalityType
    <2>3. CASE pass[s].direction # d
      <3>1. Logging(d)' \subseteq Logging(d)
        BY <1>0, <1>3, <2>3 DEF FindNoneOpen, Logging, Pass
      <3> QED BY <2>1, <3>1, CountKept
    <2> QED BY <2>2, <2>3
  <1>4. ASSUME NEW s \in Schedulers, LogSignal(s) PROVE OpenCounted'
    <2>1. PICK i \in Signals :
            /\ sig[i].status = "none"
            /\ sig' = [sig EXCEPT ![i] = [NoSignal EXCEPT !.status = "open",
                                                          !.direction = pass[s].direction]]
      BY <1>4 DEF LogSignal
    <2>2. sig'[i].direction = pass[s].direction /\ \A j \in Signals \ {i} : sig'[j] = sig[j]
      BY <1>0, <2>1 DEF NoSignal
    <2>3. pass'[s].pc # "logging" /\ \A r \in Schedulers \ {s} : pass'[r] = pass[r]
      BY <1>0, <1>4 DEF LogSignal, After, IdlePass
    <2> SUFFICES ASSUME NEW d \in Directions
                 PROVE  Cardinality(OpenIn(d))' + Cardinality(Logging(d))' <= Cardinality(Schedulers)
      BY DEF OpenCounted
    <2>4. CASE pass[s].direction = d
      <3>1. OpenIn(d)' \subseteq OpenIn(d) \cup {i} /\ i \notin OpenIn(d)
        BY <2>1, <2>2 DEF OpenIn, Open
      <3>2. Logging(d)' \subseteq Logging(d) \ {s} /\ s \in Logging(d)
        BY <1>4, <2>3, <2>4 DEF LogSignal, Logging
      <3>3. Cardinality(OpenIn(d)') <= Cardinality(OpenIn(d)) + 1
            /\ Cardinality(OpenIn(d)') \in Nat
        <4>1. IsFiniteSet(OpenIn(d)) /\ Cardinality(OpenIn(d)) \in Nat
          BY OpenFinite
        <4>2. /\ IsFiniteSet(OpenIn(d) \cup {i})
              /\ Cardinality(OpenIn(d) \cup {i}) = Cardinality(OpenIn(d)) + 1
          BY <3>1, <4>1, FS_AddElement
        <4>3. /\ IsFiniteSet(OpenIn(d)')
              /\ Cardinality(OpenIn(d)') <= Cardinality(OpenIn(d) \cup {i})
          BY <3>1, <4>2, FS_Subset
        <4> QED BY <4>2, <4>3, FS_CardinalityType
      <3>4. Cardinality(Logging(d)') <= Cardinality(Logging(d)) - 1
            /\ Cardinality(Logging(d)') \in Nat
        BY <3>2, OpenFinite, FS_RemoveElement, FS_Subset, FS_CardinalityType
      <3> QED BY <3>3, <3>4, OpenFinite DEF OpenCounted
    <2>5. CASE pass[s].direction # d
      <3>1. OpenIn(d)' \subseteq OpenIn(d) /\ Logging(d)' \subseteq Logging(d)
        BY <2>2, <2>3, <2>5 DEF OpenIn, Open, Logging
      <3> QED BY <3>1, CountKept
    <2> QED BY <2>4, <2>5
  <1>5. ASSUME NEW s \in Schedulers, Step(s), ~FindNoneOpen(s), ~LogSignal(s) PROVE OpenCounted'
    BY <1>5, OpenFewer DEF Step
  <1> QED BY <1>1, <1>2, <1>3, <1>4, <1>5 DEF Next

\* With any number of schedulers, as many signals of one direction are open as there
\* are schedulers, at most: a lost advisory lock costs one signal more, not one more a pass.
THEOREM OpenPerDirectionBounded == Spec => []OpenPerDirection
  <1>1. Init => OpenCounted
    <2> SUFFICES ASSUME Init, NEW d \in Directions
                 PROVE  Cardinality(OpenIn(d)) + Cardinality(Logging(d)) <= Cardinality(Schedulers)
      BY DEF OpenCounted
    <2>1. OpenIn(d) = {} /\ Logging(d) = {}
      BY DEF Init, NoSignal, IdlePass, OpenIn, Open, Logging
    <2> QED BY <2>1, OpenFinite, FS_EmptySet
  <1>2. OpenCounted => OpenPerDirection
    <2> SUFFICES ASSUME OpenCounted, NEW d \in Directions
                 PROVE  Cardinality({i \in Open : sig[i].direction = d}) <= Cardinality(Schedulers)
      BY DEF OpenPerDirection
    <2>1. Cardinality(OpenIn(d)) \in Nat /\ Cardinality(Logging(d)) \in Nat
      BY OpenFinite
    <2>2. Cardinality(Schedulers) \in Nat
      BY SchedulersAssumption, FS_CardinalityType
    <2>3. Cardinality(OpenIn(d)) + Cardinality(Logging(d)) <= Cardinality(Schedulers)
      BY DEF OpenCounted
    <2>4. Cardinality(OpenIn(d)) <= Cardinality(Schedulers)
      BY <2>1, <2>2, <2>3
    <2> QED BY <2>4 DEF OpenIn
  <1> QED BY <1>1, <1>2, OpenStep, TypeCorrect, PTL DEF Spec

-----------------------------------------------------------------------------
\* Nothing but the pass itself moves what the pass listed.
ListSound ==
  \A s \in Schedulers :
    /\ pass[s].todo \subseteq Open
    /\ \A i \in pass[s].todo : i \in pass[s].half <=> sig[i].half
    /\ pass[s].pc \notin {"listed", "resolving"} => pass[s].todo = {}

\* No signal is open in the direction a pass is about to log.
LookSound ==
  \A s \in Schedulers : pass[s].pc = "logging" =>
    \A i \in Open : sig[i].direction # pass[s].direction

\* A signal that is open, or that banked, was not closed as a loss.
BankSound ==
  \A i \in Signals : sig[i].half \/ sig[i].status = "open" => sig[i].result # "LOSS"

\* No two open signals have the same direction.
OnePerDirection ==
  \A i, j \in Open : sig[i].direction = sig[j].direction => i = j

SafeInv == TypeOK /\ OnePerDirection /\ ListSound /\ LookSound /\ BankSound

\* At the start nothing is open and nothing is listed.
LEMMA SafeInit == Init => SafeInv
  <1> SUFFICES ASSUME Init PROVE SafeInv
    OBVIOUS
  <1>1. TypeOK
    BY InitTypes DEF Init, TypeOK
  <1>2. \A i \in Signals : sig[i].status = "none" /\ sig[i].half = FALSE
    BY DEF Init, NoSignal
  <1>3. \A s \in Schedulers : pass[s].todo = {} /\ pass[s].pc = "idle"
    BY DEF Init, IdlePass
  <1>4. Open = {}
    BY <1>2 DEF Open
  <1> QED BY <1>1, <1>2, <1>3, <1>4 DEF SafeInv, OnePerDirection, ListSound, LookSound, BankSound

\* With one scheduler, a pass that closes a signal leaves the invariant in place: the
\* signal was still open and as the pass listed it.
LEMMA CloseSafe ==
  ASSUME SingleScheduler, SafeInv, NEW s \in Schedulers, NEW i \in pass[s].todo,
         pass[s].pc = "resolving", NEW result \in Results, NEW pnl \in Points,
         result = "LOSS" => i \notin pass[s].half, Close(s, i, result, pnl)
  PROVE  SafeInv'
  <1> USE DEF SafeInv
  <1>1. i \in Signals /\ sig[i].status = "open" /\ (i \in pass[s].half <=> sig[i].half)
    BY DEF ListSound, Open
  <1>2. TypeOK'
    BY <1>1, CloseType
  <1>3. /\ \A j \in Signals \ {i} : sig'[j] = sig[j]
        /\ sig'[i].status = "closed" /\ sig'[i].half = sig[i].half /\ sig'[i].result = result
    BY <1>1 DEF TypeOK, Close
  <1>4. /\ pass'[s].todo = pass[s].todo \ {i}
        /\ pass'[s].pc = pass[s].pc /\ pass'[s].half = pass[s].half
    BY DEF TypeOK, Pass, Close
  <1>5. Open' = Open \ {i}
    BY <1>1, <1>3 DEF Open
  <1>6. OnePerDirection'
    BY <1>3, <1>5 DEF OnePerDirection, Open
  <1>7. ListSound'
    <2> SUFFICES ASSUME NEW t \in Schedulers
                 PROVE  /\ pass'[t].todo \subseteq Open'
                        /\ \A j \in pass'[t].todo : j \in pass'[t].half <=> sig'[j].half
                        /\ pass'[t].pc \notin {"listed", "resolving"} => pass'[t].todo = {}
      BY DEF ListSound
    <2>1. t = s
      BY DEF SingleScheduler
    <2> QED BY <1>3, <1>4, <1>5, <2>1 DEF ListSound, Open
  <1>8. LookSound'
    BY <1>4 DEF LookSound, SingleScheduler
  <1>9. BankSound'
    BY <1>1, <1>3 DEF BankSound
  <1> QED BY <1>2, <1>6, <1>7, <1>8, <1>9

\* With one scheduler every step keeps the invariant.
LEMMA SafeStep ==
  ASSUME SingleScheduler, SafeInv, [Next]_vars
  PROVE  SafeInv'
  <1> USE DEF SafeInv
  <1>0. TypeOK' /\ \A s, t \in Schedulers : s = t
    BY TypeStep DEF SingleScheduler
  <1>1. ASSUME NEW s \in Schedulers, ListOpen(s) PROVE SafeInv'
    <2>1. /\ pass'[s].todo \subseteq Open /\ sig' = sig
          /\ \A i \in pass'[s].todo : i \in pass'[s].half <=> sig[i].half
          /\ pass'[s].pc = "gating" => pass'[s].todo = {}
          /\ pass'[s].pc \in {"gating", "listed"}
      <3>1. CASE Open = {}
        BY <1>1, <3>1 DEF ListOpen, TypeOK, IdlePass
      <3>2. CASE Open # {}
        BY <1>1, <3>2 DEF ListOpen, TypeOK, IdlePass
      <3> QED BY <3>1, <3>2
    <2> QED BY <1>0, <2>1 DEF OnePerDirection, ListSound, LookSound, BankSound, Open
  <1>2. ASSUME NEW s \in Schedulers, Quote(s) PROVE SafeInv'
    <2>1. PICK old \in SUBSET pass[s].todo :
            pass' = [pass EXCEPT ![s].pc = "resolving", ![s].old = old]
      BY <1>2 DEF Quote
    <2>2. /\ pass'[s].todo = pass[s].todo /\ pass'[s].half = pass[s].half
          /\ pass'[s].pc = "resolving" /\ sig' = sig
      BY <1>2, <2>1 DEF Quote, TypeOK, Pass
    <2> QED BY <1>0, <2>2 DEF OnePerDirection, ListSound, LookSound, BankSound, Open
  <1>3. ASSUME NEW s \in Schedulers, NEW p \in Pass, pass' = [pass EXCEPT ![s] = p],
               p.todo = {}, p.pc # "logging", UNCHANGED sig
        PROVE  SafeInv'
    BY <1>0, <1>3 DEF TypeOK, OnePerDirection, ListSound, LookSound, BankSound, Open
  <1>4. ASSUME NEW s \in Schedulers, Resolved(s) \/ PassFails(s) \/ Gate(s) \/ NoSignalNow(s)
        PROVE  SafeInv'
    <2> DEFINE Free == {p \in Pass : p.todo = {} /\ p.pc # "logging"}
    <2>1. IdlePass \in Free /\ [IdlePass EXCEPT !.pc = "gating"] \in Free
      BY InitTypes DEF IdlePass, Pass
    <2>2. \A d \in Directions : [IdlePass EXCEPT !.pc = "looking", !.direction = d] \in Free
      BY DEF IdlePass, Pass
    <2>3. After(pass[s].direction) \in Free
      BY <2>1, <2>2 DEF After, Directions
    <2>4. UNCHANGED sig /\ \E p \in Free : pass' = [pass EXCEPT ![s] = p]
      <3>1. CASE Gate(s)
        BY <2>1, <2>2, <3>1 DEF Gate, Directions
      <3>2. CASE NoSignalNow(s)
        BY <2>3, <3>2 DEF NoSignalNow, TypeOK
      <3>3. CASE Resolved(s) \/ PassFails(s)
        BY <2>1, <3>3 DEF Resolved, PassFails
      <3> QED BY <1>4, <3>1, <3>2, <3>3
    <2> QED BY <1>3, <2>4
  <1>5. ASSUME NEW s \in Schedulers, FindNoneOpen(s) PROVE SafeInv'
    <2>1. /\ pass'[s].todo = pass[s].todo /\ pass'[s].half = pass[s].half
          /\ pass'[s].pc = "logging" /\ pass'[s].direction = pass[s].direction /\ sig' = sig
      BY <1>5 DEF FindNoneOpen, TypeOK, Pass
    <2>2. pass[s].todo = {}
      BY <1>5 DEF FindNoneOpen, ListSound
    <2> QED BY <1>0, <1>5, <2>1, <2>2 DEF FindNoneOpen, OnePerDirection, ListSound, LookSound,
                                         BankSound, Open
  <1>6. ASSUME NEW s \in Schedulers, LogSignal(s) PROVE SafeInv'
    <2>1. PICK i \in Signals :
            /\ sig[i].status = "none"
            /\ sig' = [sig EXCEPT ![i] = [NoSignal EXCEPT !.status = "open",
                                                          !.direction = pass[s].direction]]
      BY <1>6 DEF LogSignal
    <2>2. /\ \A j \in Signals \ {i} : sig'[j] = sig[j]
          /\ sig'[i].status = "open" /\ sig'[i].direction = pass[s].direction
          /\ sig'[i].half = FALSE /\ sig'[i].result = None
      BY <2>1 DEF TypeOK, NoSignal
    <2>3. Open' = Open \cup {i} /\ i \notin Open
      BY <2>1, <2>2 DEF Open
    <2>4. pass'[s].todo = {} /\ pass'[s].pc # "logging"
      BY <1>6 DEF LogSignal, TypeOK, After, IdlePass
    <2>5. \A j \in Open : sig[j].direction # pass[s].direction
      BY <1>6 DEF LogSignal, LookSound
    <2>6. OnePerDirection'
      BY <2>2, <2>3, <2>5 DEF OnePerDirection, Open
    <2>7. ListSound' /\ LookSound'
      BY <1>0, <2>4 DEF ListSound, LookSound
    <2>8. BankSound'
      BY <2>2, NoneAssumption DEF BankSound
    <2> QED BY <1>0, <2>6, <2>7, <2>8
  <1>7. ASSUME NEW s \in Schedulers, NEW i \in Signals, LeaveOpen(s, i) PROVE SafeInv'
    <2>1. /\ pass'[s].todo = pass[s].todo \ {i} /\ pass'[s].half = pass[s].half
          /\ pass'[s].pc = "resolving" /\ sig' = sig
      BY <1>7 DEF LeaveOpen, TypeOK, Pass
    <2> QED BY <1>0, <2>1 DEF OnePerDirection, ListSound, LookSound, BankSound, Open
  <1>8. ASSUME NEW s \in Schedulers, NEW i \in Signals, BankTarget1(s, i) PROVE SafeInv'
    <2>1. i \in pass[s].todo /\ sig[i].status = "open" /\ ~sig[i].half
      BY <1>8 DEF BankTarget1, ListSound, Open, TypeOK, Signal
    <2>2. /\ \A j \in Signals \ {i} : sig'[j] = sig[j]
          /\ sig'[i] = [sig[i] EXCEPT !.half = TRUE]
      BY <1>8 DEF BankTarget1, TypeOK
    <2>3. /\ sig'[i].status = "open" /\ sig'[i].direction = sig[i].direction
          /\ sig'[i].result = sig[i].result
      BY <2>1, <2>2 DEF TypeOK, Signal
    <2>4. /\ pass'[s].todo = pass[s].todo \ {i} /\ pass'[s].half = pass[s].half
          /\ pass'[s].pc = "resolving"
      BY <1>8 DEF BankTarget1, TypeOK, Pass
    <2>5. Open' = Open
      BY <2>1, <2>2, <2>3 DEF Open
    <2>6. OnePerDirection'
      <3>1. \A j \in Signals : sig'[j].direction = sig[j].direction
        BY <2>2, <2>3
      <3> QED BY <2>5, <3>1 DEF OnePerDirection, Open
    <2>7. ListSound' /\ LookSound'
      BY <1>0, <2>2, <2>4, <2>5 DEF ListSound, LookSound, Open
    <2>8. BankSound'
      BY <2>1, <2>2, <2>3 DEF BankSound
    <2> QED BY <1>0, <2>6, <2>7, <2>8
  <1>9. ASSUME NEW s \in Schedulers, NEW i \in Signals,
               StopOut(s, i) \/ TakeProfit(s, i) \/ Expire(s, i)
        PROVE  SafeInv'
    <2>1. -Risk \in Points /\ {2 * Risk, 0} \subseteq Points
      BY LimitsAssumption DEF Points
    <2>2. /\ 1 .. (2 * Risk - 1) \subseteq Points
          /\ (1 - Risk) .. (Risk - 1) \subseteq Points
      BY LimitsAssumption DEF Points
    <2>3. i \in pass[s].todo /\ pass[s].pc = "resolving"
      BY <1>9 DEF StopOut, TakeProfit, Expire
    <2>4. \E result \in Results, pnl \in Points :
            (result = "LOSS" => i \notin pass[s].half) /\ Close(s, i, result, pnl)
      <3>1. CASE StopOut(s, i)
        BY <2>1, <3>1 DEF StopOut, Results
      <3>2. CASE TakeProfit(s, i)
        BY <2>1, <3>2 DEF TakeProfit, Results
      <3>3. CASE Expire(s, i)
        BY <2>2, <3>3 DEF Expire, Results
      <3> QED BY <1>9, <3>1, <3>2, <3>3
    <2> QED BY <2>3, <2>4, CloseSafe
  <1>10. ASSUME DayTurns PROVE SafeInv'
    <2>1. ASSUME NEW i \in Signals
          PROVE  /\ i \in Open' <=> i \in Open
                 /\ i \in Open => /\ sig'[i].direction = sig[i].direction
                                  /\ sig'[i].half = sig[i].half
                 /\ sig'[i].half \/ sig'[i].status = "open" =>
                      /\ sig[i].half \/ sig[i].status = "open"
                      /\ sig'[i].result = sig[i].result
      BY <1>10 DEF DayTurns, Kept, Older, Open, NoSignal, TypeOK, Signal
    <2>2. \A s \in Schedulers : /\ pass'[s].todo = pass[s].todo /\ pass'[s].half = pass[s].half
                                /\ pass'[s].pc = pass[s].pc
                                /\ pass'[s].direction = pass[s].direction
      BY <1>10 DEF DayTurns, TypeOK, Pass
    <2>3. Open' = Open
      BY <2>1 DEF Open
    <2>4. OnePerDirection'
      BY <2>1, <2>3 DEF OnePerDirection, Open
    <2>5. ListSound' /\ LookSound'
      BY <2>1, <2>2, <2>3 DEF ListSound, LookSound, Open
    <2>6. BankSound'
      BY <2>1 DEF BankSound
    <2> QED BY <1>0, <2>4, <2>5, <2>6
  <1>11. CASE UNCHANGED vars
    BY <1>11 DEF vars, TypeOK, OnePerDirection, ListSound, LookSound, BankSound, Open
  <1> QED BY <1>1, <1>2, <1>4, <1>5, <1>6, <1>7, <1>8, <1>9, <1>10, <1>11 DEF Next, Step

\* With one scheduler, no two signals of one direction are ever open together,
\* although nothing but the look before the insert prevents it.
THEOREM OneOpenSignal == ASSUME SingleScheduler PROVE Spec => []OnePerDirection
  <1>1. Init => SafeInv
    BY SafeInit
  <1>2. SafeInv /\ [Next]_vars => SafeInv'
    BY SafeStep
  <1>3. SafeInv => OnePerDirection
    BY DEF SafeInv
  <1> QED BY <1>1, <1>2, <1>3, PTL DEF Spec

\* With one scheduler, a banked target never becomes a loss and a result is never replaced.
THEOREM BankedIsKept == ASSUME SingleScheduler PROVE Spec => BankedKept
  <1> DEFINE Kept1(i) ==
        /\ sig[i].half => sig'[i].result # "LOSS"
        /\ sig[i].status = "closed" =>
             \/ sig'[i].result = sig[i].result /\ sig'[i].pnl = sig[i].pnl
             \/ sig'[i] = NoSignal
  <1>1. Init => SafeInv
    BY SafeInit
  <1>2. SafeInv /\ [Next]_vars => SafeInv'
    BY SafeStep
  <1>3. SafeInv /\ SafeInv' /\ [Next]_vars => [\A i \in Signals : Kept1(i)]_vars
    <2> SUFFICES ASSUME SafeInv, [Next]_vars, NEW i \in Signals PROVE Kept1(i)
      OBVIOUS
    <2> USE DEF SafeInv
    <2>1. sig[i].half => sig[i].result # "LOSS"
      BY DEF BankSound
    <2>2. CASE UNCHANGED sig
      BY <2>1, <2>2
    <2>3. ASSUME NEW s \in Schedulers, LogSignal(s) PROVE Kept1(i)
      <3>1. PICK j \in Signals :
              /\ sig[j].status = "none"
              /\ sig' = [sig EXCEPT ![j] = [NoSignal EXCEPT !.status = "open",
                                                            !.direction = pass[s].direction]]
        BY <2>3 DEF LogSignal
      <3>2. CASE i = j
        BY <3>1, <3>2, NoneAssumption DEF NoSignal, TypeOK
      <3>3. CASE i # j
        BY <2>1, <3>1, <3>3 DEF TypeOK
      <3> QED BY <3>2, <3>3
    <2>4. ASSUME NEW s \in Schedulers, NEW j \in Signals, BankTarget1(s, j) PROVE Kept1(i)
      <3>1. sig[j].status = "open"
        BY <2>4 DEF BankTarget1, ListSound, Open
      <3>2. sig'[i] = IF i = j THEN [sig[i] EXCEPT !.half = TRUE] ELSE sig[i]
        BY <2>4 DEF BankTarget1, TypeOK
      <3>3. sig'[i].result = sig[i].result /\ sig'[i].pnl = sig[i].pnl
        BY <3>2 DEF TypeOK, Signal
      <3> QED BY <2>1, <3>3
    <2>5. ASSUME NEW s \in Schedulers, NEW j \in Signals,
                 StopOut(s, j) \/ TakeProfit(s, j) \/ Expire(s, j)
          PROVE  Kept1(i)
      <3>1. j \in pass[s].todo /\ sig[j].status = "open"
        BY <2>5 DEF StopOut, TakeProfit, Expire, ListSound, Open
      <3>2. \E result \in Results, pnl \in Int :
              (result = "LOSS" => j \notin pass[s].half) /\ Close(s, j, result, pnl)
        <4> USE LimitsAssumption
        <4>1. CASE StopOut(s, j)
          BY <4>1 DEF StopOut, Results
        <4>2. CASE TakeProfit(s, j)
          BY <4>2 DEF TakeProfit, Results
        <4>3. CASE Expire(s, j)
          BY <4>3 DEF Expire, Results
        <4> QED BY <2>5, <4>1, <4>2, <4>3
      <3>3. PICK result \in Results, pnl \in Int :
              (result = "LOSS" => j \notin pass[s].half) /\ Close(s, j, result, pnl)
        BY <3>2
      <3>4. i = j => sig'[i].result = result
        BY <3>3 DEF Close, TypeOK
      <3>5. i # j => sig'[i] = sig[i]
        BY <3>3 DEF Close, TypeOK
      <3>6. j \in pass[s].half <=> sig[j].half
        BY <3>1 DEF ListSound
      <3> QED BY <2>1, <3>1, <3>3, <3>4, <3>5, <3>6
    <2>6. ASSUME DayTurns PROVE Kept1(i)
      <3>1. sig'[i] = IF Kept(i) THEN Older(sig[i]) ELSE NoSignal
        BY <2>6 DEF DayTurns
      <3>2. /\ Older(sig[i]).result = sig[i].result
            /\ Older(sig[i]).pnl = sig[i].pnl
        BY DEF Older, TypeOK, Signal
      <3>3. NoSignal.result # "LOSS"
        BY NoneAssumption DEF NoSignal
      <3> QED BY <2>1, <3>1, <3>2, <3>3
    <2>7. CASE UNCHANGED vars
      BY <2>2, <2>7 DEF vars
    <2>8. ASSUME NEW s \in Schedulers,
                 \/ ListOpen(s) \/ Quote(s) \/ Resolved(s) \/ Gate(s) \/ NoSignalNow(s)
                 \/ FindNoneOpen(s) \/ PassFails(s) \/ \E j \in Signals : LeaveOpen(s, j)
          PROVE  UNCHANGED sig
      BY <2>8 DEF ListOpen, Quote, Resolved, Gate, NoSignalNow, FindNoneOpen, PassFails, LeaveOpen
    <2> QED BY <2>2, <2>3, <2>4, <2>5, <2>6, <2>7, <2>8 DEF Next, Step
  <1> QED BY <1>1, <1>2, <1>3, PTL DEF Spec, BankedKept

-----------------------------------------------------------------------------
\* Only closed signals count as closed today, and an open one has a direction.
SigSound ==
  \A i \in Signals : /\ sig[i].stamp > 0 => sig[i].status = "closed"
                     /\ sig[i].status = "open" => sig[i].direction \in Directions

\* While a pass that came through the gate may still log, the day is below its limit.
GateSound ==
  \A s \in Schedulers : pass[s].pc \in {"looking", "logging"} =>
    pass[s].direction \in Directions /\ Cardinality(ClosedToday) < MaxTrades

CountInv == SigSound /\ GateSound /\ DayBounded

\* One signal per direction makes at most two.
LEMMA TwoDirections ==
  ASSUME NEW S, NEW x,
         \A i \in S : x[i].direction \in Directions,
         \A i, j \in S : x[i].direction = x[j].direction => i = j
  PROVE  IsFiniteSet(S) /\ Cardinality(S) \in 0..2
  <1> DEFINE dir == [i \in S |-> x[i].direction]
  <1>1. IsFiniteSet({"SELL"}) /\ Cardinality({"SELL"}) = 1
    BY FS_Singleton
  <1>2. IsFiniteSet({"SELL"} \cup {"BUY"}) /\ Cardinality({"SELL"} \cup {"BUY"}) = 2
    BY <1>1, FS_AddElement
  <1>3. {"SELL"} \cup {"BUY"} = Directions
    BY DEF Directions
  <1>4. dir \in Injection(S, Directions)
    BY DEF Injection, IsInjective
  <1>5. IsFiniteSet(Directions) /\ Cardinality(Directions) = 2
    BY <1>2, <1>3
  <1>6. IsFiniteSet(S) /\ Cardinality(S) <= 2
    BY <1>4, <1>5, FS_Injection
  <1> QED BY <1>6, FS_CardinalityType

\* With one scheduler every step keeps the count.
LEMMA CountStep ==
  ASSUME SingleScheduler, SafeInv, SafeInv', CountInv, [Next]_vars
  PROVE  CountInv'
  <1> USE DEF SafeInv, CountInv
  <1>0. /\ Cardinality(ClosedToday) \in Nat /\ Cardinality(Open) \in 0..2
        /\ IsFiniteSet(Open) /\ MaxTrades \in Nat
    BY CountType, TwoDirections, LimitsAssumption DEF SigSound, OnePerDirection, Open
  <1>a. \A s, t \in Schedulers : s = t
    BY DEF SingleScheduler
  <1>1. ASSUME NEW s \in Schedulers, UNCHANGED sig,
               pass'[s].pc \in {"looking", "logging"} =>
                 pass'[s].direction \in Directions /\ Cardinality(ClosedToday) < MaxTrades
        PROVE  CountInv'
    <2>1. ClosedToday' = ClosedToday /\ Open' = Open
      BY <1>1 DEF ClosedToday, Open
    <2> QED BY <1>a, <1>1, <2>1 DEF SigSound, GateSound, DayBounded
  <1>2. ASSUME NEW s \in Schedulers,
               ListOpen(s) \/ Quote(s) \/ Resolved(s) \/ PassFails(s)
               \/ \E i \in Signals : LeaveOpen(s, i)
        PROVE  CountInv'
    <2>1. UNCHANGED sig
      BY <1>2 DEF ListOpen, Quote, Resolved, PassFails, LeaveOpen
    <2>2. pass'[s].pc \notin {"looking", "logging"}
      <3>1. CASE ListOpen(s)
        BY <3>1 DEF ListOpen, TypeOK, IdlePass
      <3>2. CASE Quote(s)
        BY <3>2 DEF Quote, TypeOK, Pass
      <3>3. CASE Resolved(s) \/ PassFails(s)
        BY <3>3 DEF Resolved, PassFails, TypeOK, IdlePass
      <3>4. CASE \E i \in Signals : LeaveOpen(s, i)
        BY <3>4 DEF LeaveOpen, TypeOK, Pass
      <3> QED BY <1>2, <3>1, <3>2, <3>3, <3>4
    <2> QED BY <1>1, <2>1, <2>2
  <1>3. ASSUME NEW s \in Schedulers, Gate(s) PROVE CountInv'
    <2>1. CASE /\ \E streak \in Streaks : CanTrade(streak)
               /\ pass' = [pass EXCEPT ![s] = [IdlePass EXCEPT !.pc = "looking", !.direction = "BUY"]]
      <3>1. Cardinality(ClosedToday) < MaxTrades
        BY <2>1 DEF CanTrade
      <3>2. pass'[s].direction \in Directions
        BY <2>1 DEF TypeOK, IdlePass, Directions
      <3> QED BY <1>1, <1>3, <3>1, <3>2 DEF Gate
    <2>2. CASE pass' = [pass EXCEPT ![s] = IdlePass]
      <3>1. pass'[s].pc \notin {"looking", "logging"}
        BY <2>2 DEF TypeOK, IdlePass
      <3> QED BY <1>1, <1>3, <3>1 DEF Gate
    <2> QED BY <1>3, <2>1, <2>2 DEF Gate
  <1>4. ASSUME NEW s \in Schedulers, NoSignalNow(s) \/ FindNoneOpen(s) PROVE CountInv'
    <2>1. Cardinality(ClosedToday) < MaxTrades /\ pass[s].direction \in Directions
      BY <1>4 DEF NoSignalNow, FindNoneOpen, GateSound
    <2>2. UNCHANGED sig
      BY <1>4 DEF NoSignalNow, FindNoneOpen
    <2>3. pass'[s].pc \in {"looking", "logging"} => pass'[s].direction \in Directions
      <3>1. CASE NoSignalNow(s)
        BY <3>1 DEF NoSignalNow, After, TypeOK, IdlePass, Directions
      <3>2. CASE FindNoneOpen(s)
        BY <2>1, <3>2 DEF FindNoneOpen, TypeOK, Pass
      <3> QED BY <1>4, <3>1, <3>2
    <2> QED BY <1>1, <2>1, <2>2, <2>3
  <1>5. ASSUME NEW s \in Schedulers, LogSignal(s) PROVE CountInv'
    <2>1. Cardinality(ClosedToday) < MaxTrades /\ pass[s].direction \in Directions
      BY <1>5 DEF LogSignal, GateSound
    <2>2. PICK i \in Signals :
            /\ sig[i].status = "none"
            /\ sig' = [sig EXCEPT ![i] = [NoSignal EXCEPT !.status = "open",
                                                          !.direction = pass[s].direction]]
      BY <1>5 DEF LogSignal
    <2>3. /\ \A j \in Signals \ {i} : sig'[j] = sig[j]
          /\ sig'[i].status = "open" /\ sig'[i].direction = pass[s].direction
          /\ sig'[i].stamp = 0
      BY <2>2 DEF TypeOK, NoSignal
    <2>4. SigSound'
      BY <2>1, <2>3 DEF SigSound
    <2>5. ClosedToday' = ClosedToday
      BY <2>2, <2>3 DEF ClosedToday, SigSound
    <2>6. Cardinality(Open)' \in 0..2
      <3>1. \A j \in Open' : sig'[j].direction \in Directions
        BY <2>4 DEF SigSound, Open
      <3>2. \A j, k \in Open' : sig'[j].direction = sig'[k].direction => j = k
        BY DEF OnePerDirection
      <3> HIDE DEF SafeInv, CountInv
      <3> QED BY <3>1, <3>2, TwoDirections
    <2>7. DayBounded'
      BY <1>0, <2>1, <2>5, <2>6 DEF DayBounded
    <2>8. pass'[s].pc = "looking" => pass'[s].direction \in Directions
      BY <1>5 DEF LogSignal, After, TypeOK, IdlePass, Directions
    <2>9. pass'[s].pc # "logging"
      BY <1>5 DEF LogSignal, After, TypeOK, IdlePass
    <2> QED BY <1>a, <2>1, <2>4, <2>5, <2>7, <2>8, <2>9 DEF GateSound
  <1>6. ASSUME NEW s \in Schedulers, NEW i \in Signals, BankTarget1(s, i) PROVE CountInv'
    <2>1. sig' = [sig EXCEPT ![i] = [sig[i] EXCEPT !.half = TRUE]]
      BY <1>6 DEF BankTarget1, TypeOK
    <2>2. \A j \in Signals : /\ sig'[j].status = sig[j].status
                             /\ sig'[j].direction = sig[j].direction
                             /\ sig'[j].stamp = sig[j].stamp
      BY <2>1 DEF TypeOK, Signal
    <2>3. Open' = Open /\ ClosedToday' = ClosedToday
      BY <2>2 DEF Open, ClosedToday
    <2>4. pass'[s].pc = "resolving"
      BY <1>6 DEF BankTarget1, TypeOK, Pass
    <2> QED BY <1>a, <2>2, <2>3, <2>4 DEF SigSound, GateSound, DayBounded
  <1>7. ASSUME NEW s \in Schedulers, NEW i \in Signals,
               StopOut(s, i) \/ TakeProfit(s, i) \/ Expire(s, i)
        PROVE  CountInv'
    <2>1. i \in pass[s].todo /\ pass[s].pc = "resolving"
      BY <1>7 DEF StopOut, TakeProfit, Expire
    <2>2. PICK result, pnl : Close(s, i, result, pnl)
      BY <1>7 DEF StopOut, TakeProfit, Expire
    <2>3. i \in Open
      BY <2>1 DEF ListSound
    <2>4. /\ \A j \in Signals \ {i} : sig'[j] = sig[j]
          /\ sig'[i].status = "closed"
      BY <2>2 DEF Close, TypeOK
    <2>5. Open' = Open \ {i} /\ ClosedToday' \subseteq ClosedToday \cup {i}
      BY <2>3, <2>4 DEF Open, ClosedToday
    <2>6. Cardinality(Open)' = Cardinality(Open) - 1
      BY <1>0, <2>3, <2>5, FS_RemoveElement
    <2>7. /\ IsFiniteSet(ClosedToday \cup {i})
          /\ Cardinality(ClosedToday \cup {i}) <= Cardinality(ClosedToday) + 1
      <3>1. /\ IsFiniteSet(ClosedToday \cup {i})
            /\ Cardinality(ClosedToday \cup {i}) =
                 IF i \in ClosedToday THEN Cardinality(ClosedToday) ELSE Cardinality(ClosedToday) + 1
        BY ClosedFinite, FS_AddElement
      <3> QED BY <1>0, <3>1
    <2>8. /\ Cardinality(ClosedToday)' <= Cardinality(ClosedToday) + 1
          /\ Cardinality(ClosedToday)' \in Nat
      <3>1. /\ Cardinality(ClosedToday') <= Cardinality(ClosedToday \cup {i})
            /\ IsFiniteSet(ClosedToday')
        BY <2>5, <2>7, FS_Subset
      <3>2. Cardinality(ClosedToday') \in Nat /\ Cardinality(ClosedToday \cup {i}) \in Nat
        BY <2>7, <3>1, FS_CardinalityType
      <3> QED BY <1>0, <2>7, <3>1, <3>2
    <2>9. DayBounded'
      BY <1>0, <2>6, <2>8 DEF DayBounded
    <2>10. SigSound'
      BY <2>4 DEF SigSound
    <2>11. pass'[s].pc = "resolving"
      BY <2>1, <2>2 DEF Close, TypeOK, Pass
    <2> QED BY <1>a, <2>9, <2>10, <2>11 DEF GateSound
  <1>8. ASSUME DayTurns PROVE CountInv'
    <2>1. \A i \in Signals : /\ sig'[i].stamp = 0
                             /\ sig'[i].status = "open" =>
                                  /\ sig[i].status = "open"
                                  /\ sig'[i].direction = sig[i].direction
                             /\ sig[i].status = "open" => sig'[i].status = "open"
      <3> SUFFICES ASSUME NEW i \in Signals
                   PROVE  /\ sig'[i].stamp = 0
                          /\ sig'[i].status = "open" =>
                               /\ sig[i].status = "open"
                               /\ sig'[i].direction = sig[i].direction
                          /\ sig[i].status = "open" => sig'[i].status = "open"
        OBVIOUS
      <3>1. /\ Older(sig[i]).stamp = 0 /\ Older(sig[i]).status = sig[i].status
            /\ Older(sig[i]).direction = sig[i].direction
        BY DEF Older, TypeOK, Signal
      <3>2. sig'[i] = IF Kept(i) THEN Older(sig[i]) ELSE NoSignal
        BY <1>8 DEF DayTurns
      <3>3. NoSignal.stamp = 0 /\ NoSignal.status = "none"
        BY DEF NoSignal
      <3> QED BY <3>1, <3>2, <3>3 DEF Kept
    <2>2. ClosedToday' = {} /\ Open' = Open
      BY <2>1 DEF ClosedToday, Open
    <2>3. Cardinality(ClosedToday)' = 0
      BY <2>2, FS_EmptySet
    <2>4. DayBounded'
      BY <1>0, <2>2, <2>3 DEF DayBounded
    <2>5. SigSound'
      BY <2>1 DEF SigSound
    <2>6. \A s \in Schedulers : pass'[s].pc = pass[s].pc /\ pass'[s].direction = pass[s].direction
      BY <1>8 DEF DayTurns, TypeOK, Pass
    <2>7. GateSound'
      BY <1>0, <2>3, <2>6 DEF GateSound
    <2> QED BY <2>4, <2>5, <2>7
  <1>9. CASE UNCHANGED vars
    BY <1>9 DEF vars, SigSound, GateSound, DayBounded, Open, ClosedToday
  <1> QED BY <1>2, <1>3, <1>4, <1>5, <1>6, <1>7, <1>8, <1>9 DEF Next, Step

\* At the start nothing is open, closed or looked for.
LEMMA CountInit == Init => CountInv
  <1> SUFFICES ASSUME Init PROVE CountInv
    OBVIOUS
  <1>1. \A i \in Signals : sig[i].status = "none" /\ sig[i].stamp = 0
    BY DEF Init, NoSignal
  <1>2. \A s \in Schedulers : pass[s].pc = "idle"
    BY DEF Init, IdlePass
  <1>3. Open = {} /\ ClosedToday = {}
    BY <1>1 DEF Open, ClosedToday
  <1>4. DayBounded
    BY <1>3, FS_EmptySet, LimitsAssumption DEF DayBounded
  <1> QED BY <1>1, <1>2, <1>4 DEF CountInv, SigSound, GateSound

\* With one scheduler, a day never has more than one trade above max_trades_per_day, open
\* signals included.
THEOREM DayIsBounded == ASSUME SingleScheduler PROVE Spec => []DayBounded
  <1>1. Init => CountInv
    BY CountInit
  <1>2. SafeInv /\ SafeInv' /\ CountInv /\ [Next]_vars => CountInv'
    BY CountStep
  <1>3. SafeInv /\ [Next]_vars => SafeInv'
    BY SafeStep
  <1>4. CountInv => DayBounded
    BY DEF CountInv
  <1> QED BY <1>1, <1>2, <1>3, <1>4, SafeInit, PTL DEF Spec

-----------------------------------------------------------------------------
\* What the gate asks of the day.
Allowed == \E streak \in Streaks : CanTrade(streak)

\* While a pass that came through the gate may still log, the gate would still
\* let it through.
StillAllowed ==
  \A s \in Schedulers : pass[s].pc \in {"looking", "logging"} => Allowed

\* Nothing adds up to nothing.
LEMMA EmptySum == ASSUME NEW f, DOMAIN f = {} PROVE SumFunction(f) = 0
  <1> DEFINE Chosen(s) == CHOOSE i \in s : TRUE
             Sum(g) == [s \in SUBSET {} |->
                          IF s = {} THEN 0 ELSE f[Chosen(s)] + g[s \ {Chosen(s)}]]
             sum == CHOOSE g : g = Sum(g)
  <1>1. SumFunction(f) = sum[{}]
    BY DEF SumFunction, SumFunctionOnSet, FoldFunctionOnSet, MapThenFoldSet
  <1>2. \E g : g = Sum(g)
    <2>1. [s \in SUBSET {} |-> 0] = Sum([s \in SUBSET {} |-> 0])
      OBVIOUS
    <2> QED BY <2>1
  <1>3. sum = Sum(sum)
    <2> HIDE DEF Sum
    <2> QED BY <1>2
  <1>4. Sum(sum)[{}] = 0
    OBVIOUS
  <1> QED BY <1>1, <1>3, <1>4

\* The gate looks at nothing but the signals closed today.
LEMMA SameDay ==
  ASSUME ClosedToday' = ClosedToday,
         \A i \in ClosedToday : /\ sig'[i].stamp = sig[i].stamp /\ sig'[i].pnl = sig[i].pnl
                                /\ sig'[i].result = sig[i].result
  PROVE  Allowed' <=> Allowed
  <1>1. Losses' = Losses
    BY DEF Losses
  <1>2. {sig[i].stamp : i \in ClosedToday \ Losses}' = {sig[i].stamp : i \in ClosedToday \ Losses}
    BY <1>1
  <1>3. LastOther' = LastOther
    BY <1>2 DEF LastOther
  <1>4. /\ {i \in Losses : sig[i].stamp > LastOther}' = {i \in Losses : sig[i].stamp > LastOther}
        /\ {i \in Losses : sig[i].stamp >= LastOther}' = {i \in Losses : sig[i].stamp >= LastOther}
    BY <1>1, <1>3 DEF Losses
  <1>5. Streaks' = Streaks
    BY <1>4 DEF Streaks
  <1>6. [i \in ClosedToday |-> sig[i].pnl]' = [i \in ClosedToday |-> sig[i].pnl]
    OBVIOUS
  <1>7. RealizedPnl' = RealizedPnl
    BY <1>6 DEF RealizedPnl
  <1> QED BY <1>5, <1>7 DEF Allowed, CanTrade

\* A new day allows a trade.
LEMMA NewDay == ASSUME MaxLoss > 0, ClosedToday' = {} PROVE Allowed'
  <1>1. Losses' = {}
    BY DEF Losses
  <1>2. Streaks' = 0..0
    <2>1. /\ {i \in Losses : sig[i].stamp > LastOther}' = {}
          /\ {i \in Losses : sig[i].stamp >= LastOther}' = {}
      BY <1>1
    <2> QED BY <2>1, FS_EmptySet DEF Streaks
  <1>3. RealizedPnl' = 0
    <2>1. SumFunction([i \in ClosedToday |-> sig[i].pnl])' = SumFunction([i \in {} |-> sig'[i].pnl])
      OBVIOUS
    <2>2. SumFunction([i \in {} |-> sig'[i].pnl]) = 0
      BY EmptySum
    <2> QED BY <2>1, <2>2 DEF RealizedPnl
  <1>4. CanTrade(0)'
    BY <1>3, LimitsAssumption, FS_EmptySet DEF CanTrade
  <1> QED BY <1>2, <1>4 DEF Allowed

\* With one scheduler, nothing is closed between the gate and the log but by
\* midnight.
LEMMA AllowedStep ==
  ASSUME SingleScheduler, MaxLoss > 0, SafeInv, CountInv, StillAllowed, [Next]_vars
  PROVE  StillAllowed'
  <1>0. /\ pass \in [Schedulers -> Pass] /\ sig \in [Signals -> Signal]
        /\ \A s, t \in Schedulers : s = t
    BY DEF SafeInv, TypeOK, SingleScheduler
  <1>a. sig' = sig => (Allowed' <=> Allowed)
    <2> SUFFICES ASSUME sig' = sig PROVE Allowed' <=> Allowed
      OBVIOUS
    <2>1. ClosedToday' = ClosedToday
      BY DEF ClosedToday
    <2> QED BY <2>1, SameDay
  <1>1. CASE UNCHANGED vars
    BY <1>1, <1>a DEF vars, StillAllowed
  <1>2. CASE DayTurns
    <2>1. \A i \in Signals : sig'[i].stamp = 0
      <3> SUFFICES ASSUME NEW i \in Signals PROVE sig'[i].stamp = 0
        OBVIOUS
      <3>1. Older(sig[i]).stamp = 0
        BY <1>0 DEF Older, Signal
      <3>2. sig'[i] = IF Kept(i) THEN Older(sig[i]) ELSE NoSignal
        BY <1>2 DEF DayTurns
      <3>3. NoSignal.stamp = 0
        BY DEF NoSignal
      <3> QED BY <3>1, <3>2, <3>3
    <2>2. ClosedToday' = {}
      BY <2>1 DEF ClosedToday
    <2> QED BY <2>2, NewDay DEF StillAllowed
  <1>3. ASSUME NEW s \in Schedulers,
               ListOpen(s) \/ Quote(s) \/ Resolved(s) \/ PassFails(s)
        PROVE  StillAllowed'
    <2>1. ListOpen(s) => pass'[s].pc \in {"gating", "listed"}
      BY <1>0 DEF ListOpen, IdlePass
    <2>2. Quote(s) => pass'[s].pc = "resolving"
      BY <1>0 DEF Quote, Pass
    <2>3. Resolved(s) => pass'[s].pc = "gating"
      BY <1>0 DEF Resolved, Pass, IdlePass
    <2>4. PassFails(s) => pass'[s].pc = "idle"
      BY <1>0 DEF PassFails, IdlePass
    <2>5. pass'[s].pc \notin {"looking", "logging"}
      BY <1>3, <2>1, <2>2, <2>3, <2>4
    <2> QED BY <1>0, <2>5 DEF StillAllowed
  <1>4. ASSUME NEW s \in Schedulers, NEW i \in Signals,
               \/ LeaveOpen(s, i) \/ BankTarget1(s, i) \/ StopOut(s, i)
               \/ TakeProfit(s, i) \/ Expire(s, i)
        PROVE  StillAllowed'
    <2>1. pass'[s].pc = "resolving"
      BY <1>0, <1>4 DEF LeaveOpen, BankTarget1, StopOut, TakeProfit, Expire, Close, Pass
    <2> QED BY <1>0, <2>1 DEF StillAllowed
  <1>5. ASSUME NEW s \in Schedulers, Gate(s) PROVE StillAllowed'
    <2>1. sig' = sig
      BY <1>5 DEF Gate
    <2>2. Allowed \/ pass' = [pass EXCEPT ![s] = IdlePass]
      BY <1>5 DEF Gate, Allowed
    <2>3. CASE pass' = [pass EXCEPT ![s] = IdlePass]
      <3>1. pass'[s].pc = "idle"
        BY <1>0, <2>3 DEF IdlePass
      <3> QED BY <1>0, <3>1 DEF StillAllowed
    <2> QED BY <1>a, <2>1, <2>2, <2>3 DEF StillAllowed
  <1>6. ASSUME NEW s \in Schedulers, NoSignalNow(s) \/ FindNoneOpen(s) PROVE StillAllowed'
    <2>1. sig' = sig /\ pass[s].pc = "looking"
      BY <1>6 DEF NoSignalNow, FindNoneOpen
    <2> QED BY <1>a, <2>1 DEF StillAllowed
  <1>7. ASSUME NEW s \in Schedulers, LogSignal(s) PROVE StillAllowed'
    <2>1. Allowed
      BY <1>7 DEF LogSignal, StillAllowed
    <2>2. PICK i \in Signals :
            /\ sig[i].status = "none"
            /\ sig' = [sig EXCEPT ![i] = [NoSignal EXCEPT !.status = "open",
                                                          !.direction = pass[s].direction]]
      BY <1>7 DEF LogSignal
    <2>3. i \notin ClosedToday /\ sig'[i].stamp = 0
      BY <1>0, <2>2 DEF CountInv, SigSound, ClosedToday, NoSignal, Signal
    <2>4. \A j \in Signals \ {i} : sig'[j] = sig[j]
      BY <1>0, <2>2
    <2>5. ClosedToday' = ClosedToday
      BY <2>3, <2>4 DEF ClosedToday
    <2>6. \A j \in ClosedToday : sig'[j] = sig[j]
      BY <2>3, <2>4 DEF ClosedToday
    <2> QED BY <2>1, <2>5, <2>6, SameDay DEF StillAllowed
  <1> QED
    BY <1>1, <1>2, <1>3, <1>4, <1>5, <1>6, <1>7 DEF Next, Step

\* With one scheduler, a signal is logged only on a day whose closings allow a
\* trade, for any limits, however much lies between the gate and the log.
THEOREM LoggedOnAllowedDays ==
  ASSUME SingleScheduler, MaxLoss > 0 PROVE Spec => LoggedWithinLimits
  <1> DEFINE Logs == \E i \in Signals : sig[i].status = "none" /\ sig'[i].status = "open"
  <1>1. Init => SafeInv
    BY SafeInit
  <1>2. Init => StillAllowed
    BY DEF Init, IdlePass, StillAllowed
  <1>3. SafeInv /\ [Next]_vars => SafeInv'
    BY SafeStep
  <1>4. Init => CountInv
    BY CountInit
  <1>5. SafeInv /\ SafeInv' /\ CountInv /\ [Next]_vars => CountInv'
    BY CountStep
  <1>6. SafeInv /\ CountInv /\ StillAllowed /\ [Next]_vars => StillAllowed'
    BY AllowedStep
  <1>7. SafeInv /\ CountInv /\ StillAllowed /\ [Next]_vars
          => [\A i \in Signals : sig[i].status = "none" /\ sig'[i].status = "open" =>
                \E streak \in Streaks : CanTrade(streak)]_vars
    <2> SUFFICES ASSUME SafeInv, StillAllowed, Next, NEW i \in Signals,
                        sig[i].status = "none", sig'[i].status = "open"
                 PROVE  Allowed
      BY DEF Allowed
    <2>1. sig \in [Signals -> Signal] /\ pass \in [Schedulers -> Pass]
      BY DEF SafeInv, TypeOK
    <2>2. ~DayTurns
      <3>1. Older(sig[i]).status = "none"
        BY <2>1 DEF Older, Signal
      <3>2. NoSignal.status = "none"
        BY DEF NoSignal
      <3>3. DayTurns => sig'[i] = IF Kept(i) THEN Older(sig[i]) ELSE NoSignal
        BY DEF DayTurns
      <3> QED BY <3>1, <3>2, <3>3
    <2>3. sig' # sig
      OBVIOUS
    <2>4. PICK s \in Schedulers : Step(s)
      BY <2>2 DEF Next
    <2>5. ASSUME NEW j \in Signals, BankTarget1(s, j) \/ StopOut(s, j) \/ TakeProfit(s, j) \/ Expire(s, j)
          PROVE  FALSE
      <3>1. sig'[i].status = sig[i].status \/ sig'[i].status = "closed"
        BY <2>1, <2>5 DEF BankTarget1, StopOut, TakeProfit, Expire, Close, Signal
      <3> QED BY <3>1
    <2>6. LogSignal(s)
      BY <2>3, <2>4, <2>5 DEF Step, ListOpen, Quote, Resolved, Gate, NoSignalNow, FindNoneOpen,
                              PassFails, LeaveOpen
    <2> QED BY <2>6 DEF LogSignal, StillAllowed
  <1> QED
    BY <1>1, <1>2, <1>3, <1>4, <1>5, <1>6, <1>7, PTL DEF Spec, LoggedWithinLimits
=============================================================================
