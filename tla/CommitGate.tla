----------------------------- MODULE CommitGate -----------------------------
(***************************************************************************)
(* What strict mode promises, without saying how: "the Ledger is the       *)
(* official commit gate: execution is never requested for a decision the   *)
(* Ledger has not accepted" (engine.py).  Decisions are accepted for good, *)
(* and each accepted decision is requested at most once, in the order in   *)
(* which the decisions were made.                                          *)
(***************************************************************************)
EXTENDS Integers, Sequences, Functions

CONSTANT Trace      \* decisions, numbered in the order they are made

VARIABLES
  accepted,         \* decisions the ledger has accepted
  requested         \* decisions whose execution was requested, in order

Init == accepted = {} /\ requested = <<>>

Accept(t) ==
  /\ t \notin accepted
  /\ accepted' = accepted \cup {t}
  /\ UNCHANGED requested

Request(t) ==
  /\ t \in accepted
  /\ \A u \in Range(requested) : u < t
  /\ requested' = Append(requested, t)
  /\ UNCHANGED accepted

Next == \E t \in Trace : Accept(t) \/ Request(t)

Spec == Init /\ [][Next]_<<accepted, requested>>
=============================================================================
