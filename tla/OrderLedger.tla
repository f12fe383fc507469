----------------------------- MODULE OrderLedger -----------------------------
(***************************************************************************)
(* What live trading promises of an order, whatever becomes of the         *)
(* requests, the workers and the user's sessions: the broker takes it once *)
(* and ends it once, and the record of it follows the broker's book and    *)
(* never leads it.                                                         *)
(***************************************************************************)
CONSTANT Orders
VARIABLES book, record

ledger == <<book, record>>

Init ==
  /\ book = [o \in Orders |-> "none"]
  /\ record = [o \in Orders |-> "none"]

Take(o) ==
  /\ book[o] = "none"
  /\ \E status \in {"open", "filled"} : book' = [book EXCEPT ![o] = status]
  /\ UNCHANGED record

End(o) ==
  /\ book[o] = "open"
  /\ \E status \in {"filled", "cancelled"} : book' = [book EXCEPT ![o] = status]
  /\ UNCHANGED record

\* The record is of the taking: it may be open still when the order has ended.
Note(o) ==
  /\ book[o] # "none" /\ record[o] = "none"
  /\ \E status \in {"open", "filled"} :
       /\ status = "filled" => book[o] = "filled"
       /\ record' = [record EXCEPT ![o] = status]
  /\ UNCHANGED book

Correct(o) ==
  /\ book[o] = "cancelled" /\ record[o] = "open"
  /\ record' = [record EXCEPT ![o] = "cancelled"]
  /\ UNCHANGED book

Next == \E o \in Orders : Take(o) \/ End(o) \/ Note(o) \/ Correct(o)

Spec == Init /\ [][Next]_ledger
=============================================================================
