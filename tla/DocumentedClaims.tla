-------------------------- MODULE DocumentedClaims --------------------------
(***************************************************************************)
(* What the repository's documentation says of the running system, stated  *)
(* over DecisionRuntime.  The code does not keep any of these; the runs    *)
(* whose names start with claim_ exhibit a behaviour for each.             *)
(***************************************************************************)
EXTENDS DecisionRuntime

\* ledger_projector.py:17-18: a projected trace is COMPLETED when an OUTCOME
\* event is present and EVALUATING otherwise.  A fallback node's event has
\* step type outcome too (runtime_ledger_adapter.py:58), so a commit cut short
\* before the outcome projects as completed, and confirmed.
CompletedOnlyWithOutcome ==
  \A t \in Evaluated :
    Project(ledger[t], DecisionOf(t)).state = "completed" =>
      "outcome" \in Range(ledger[t])

\* features.md:46-48: in strict mode the ledger lets a repeated key be
\* answered with the prior result after a restart.  The trace, and with it
\* every event id, is new for each evaluation, so the key is decided again.
RestartKeepsAnswer ==
  LedgerMode = "strict" /\ LedgerDurable =>
    \A t, u \in Evaluated :
      t < u /\ KeyOf(t) = KeyOf(u) /\ KeyOf(t) # NoKey
        /\ fate[t] = "answered" => fate[u] # "answered"

\* kafka_execution_publisher.py:10: delivery to the topic is at-least-once.
\* The future send() returns is dropped, so a record the broker never takes
\* goes unnoticed and the evaluation is answered all the same.
AtLeastOnceDelivery ==
  Kafka =>
    \A t \in Evaluated :
      fate[t] = "answered" /\ StatusOf(DecisionOf(t)) = "confirmed" =>
        t \in Range(topic \o buffer)
=============================================================================
