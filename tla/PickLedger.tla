----------------------------- MODULE PickLedger -----------------------------
(***************************************************************************)
(* What the Stock of the Day promises about its picks and their trades,    *)
(* whatever runs at the same time: a trade is placed before a pick trades  *)
(* on it, no two picks trade on one, a pick ends once and only after it    *)
(* traded, and what was closed, ended or deleted stays so.                 *)
(***************************************************************************)
CONSTANTS Picks, Trades, None
VARIABLES stage, link, position

ledger == <<stage, link, position>>

Init ==
  /\ stage = [p \in Picks |-> "absent"]
  /\ link = [p \in Picks |-> None]
  /\ position = [t \in Trades |-> "none"]

Place(t) ==
  /\ position[t] = "none"
  /\ position' = [position EXCEPT ![t] = "open"]
  /\ UNCHANGED <<stage, link>>

\* By the engine or by its owner.
Close(t) ==
  /\ position[t] = "open"
  /\ position' = [position EXCEPT ![t] = "closed"]
  /\ UNCHANGED <<stage, link>>

Watch(p) ==
  /\ stage[p] = "absent"
  /\ stage' = [stage EXCEPT ![p] = "watching"]
  /\ UNCHANGED <<link, position>>

Trade(p, t) ==
  /\ stage[p] = "absent"
  /\ position[t] # "none" /\ \A q \in Picks : link[q] # t
  /\ stage' = [stage EXCEPT ![p] = "trading"]
  /\ link' = [link EXCEPT ![p] = t]
  /\ UNCHANGED position

End(p) ==
  /\ stage[p] = "trading"
  /\ stage' = [stage EXCEPT ![p] = "ended"]
  /\ UNCHANGED <<link, position>>

Delete(p) ==
  /\ stage[p] \in {"watching", "trading", "ended"}
  /\ stage' = [stage EXCEPT ![p] = "deleted"]
  /\ UNCHANGED <<link, position>>

Next ==
  \/ \E t \in Trades : Place(t) \/ Close(t)
  \/ \E p \in Picks : Watch(p) \/ End(p) \/ Delete(p) \/ \E t \in Trades : Trade(p, t)

Spec == Init /\ [][Next]_ledger
=============================================================================
