---------------------------- MODULE MCWebClient ----------------------------
(***************************************************************************)
(* A small instance of the browser client: one session, one fault, a page  *)
(* opened twice at most.                                                   *)
(***************************************************************************)
EXTENDS WebClient

\* The jobs of a behaviour are all of one kind.
OneKind == {[j \in Jobs |-> k] : k \in Kinds}

\* The Strategy Lab and the live page are opened once; what they leave running
\* goes on.
MCMaxMounts == [p \in Pages |-> IF p \in {"lab", "live"} THEN 1 ELSE 2]

\* Two picks of two stocks; one change of contract, list or alarm.
MCMaxClicks == [p \in Pages |-> IF p \in {"gas", "signals", "watch"} THEN 1 ELSE 2]
=============================================================================
