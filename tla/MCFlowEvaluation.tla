--------------------------- MODULE MCFlowEvaluation -------------------------
(***************************************************************************)
(* Instantiates FlowEvaluation and TraceViews for TLC.                     *)
(***************************************************************************)
EXTENDS TraceViews

Of(type, active, cond, priority, severity, effect) ==
  [type |-> type, active |-> active, cond |-> cond, priority |-> priority,
   severity |-> severity, effect |-> effect]

DecisionNodes ==
  {Of("decision", TRUE, c, p, 1, "allow") : c \in {"true", "false"}, p \in 0..1}
    \cup {Of("decision", TRUE, "bad", 0, 1, "allow"),
          Of("decision", FALSE, "true", 1, 1, "allow")}

FallbackNodes == {Of("fallback", b, "true", 0, 1, "allow") : b \in BOOLEAN}

BoundaryNodes ==
  {Of("boundary", TRUE, "true", 0, s, e) :
     s \in 1..2, e \in {"allow", "block", "override", "escalate"}}
    \cup {Of("boundary", TRUE, "false", 0, 2, "block"),
          Of("boundary", FALSE, "true", 0, 2, "block"),
          Of("boundary", TRUE, "bad", 0, 1, "allow")}

\* Node types and effects the loops pass over.
OtherNodes ==
  {Of("boundary", TRUE, "true", 0, 0, "unknown"),
   Of("boundary", TRUE, "true", 0, 2, "redirect"),
   Of("human_gate", TRUE, "true", 0, 1, "allow")}

AllNodes ==
  DecisionNodes \cup FallbackNodes \cup BoundaryNodes \cup OtherNodes

=============================================================================
