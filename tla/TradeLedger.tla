---------------------------- MODULE TradeLedger ----------------------------
(***************************************************************************)
(* What the trades table promises.  A trade placed at the market runs and  *)
(* then settles, for good: it is never cancelled and never runs again.  An *)
(* order queued for its limit waits, runs, settles; until the end it may   *)
(* be voided, at any point, and a voided one may still be filled or        *)
(* settled by who had it in hand.                                          *)
(***************************************************************************)
CONSTANT Trades
VARIABLES phase,   \* where each trade is
          queued   \* the trades placed for a limit

Phases == {"absent", "waiting", "running", "settled", "void"}

Init == phase = [t \in Trades |-> "absent"] /\ queued = {}

Place(t)  == /\ phase[t] = "absent"
             /\ phase' = [phase EXCEPT ![t] = "running"]
             /\ UNCHANGED queued
Queue(t)  == /\ phase[t] = "absent"
             /\ phase' = [phase EXCEPT ![t] = "waiting"]
             /\ queued' = queued \cup {t}
Fill(t)   == /\ t \in queued
             /\ phase[t] \in {"waiting", "void"}
             /\ phase' = [phase EXCEPT ![t] = "running"]
             /\ UNCHANGED queued
Settle(t) == /\ phase[t] \in {"running", "void"}
             /\ phase' = [phase EXCEPT ![t] = "settled"]
             /\ UNCHANGED queued
Void(t)   == /\ t \in queued
             /\ phase' = [phase EXCEPT ![t] = "void"]
             /\ UNCHANGED queued

Next == \E t \in Trades : Place(t) \/ Queue(t) \/ Fill(t) \/ Settle(t) \/ Void(t)

Spec == Init /\ [][Next]_<<phase, queued>>
=============================================================================
