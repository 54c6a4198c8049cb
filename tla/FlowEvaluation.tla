---------------------------- MODULE FlowEvaluation --------------------------
(***************************************************************************)
(* DecisionRuntimeEngine._pure_evaluate and BoundaryEngine.apply: what one *)
(* signal makes of one flow, before any side effect.  The two loops over   *)
(* flow.nodes go node by node, so that a condition that cannot be          *)
(* evaluated ends the evaluation where the code raises.                    *)
(*                                                                         *)
(* A node is named by its position in flow.nodes (ids are unique), and its *)
(* condition by what ConditionEvaluator makes of it for the signal: "true" *)
(* (a node without a condition too), "false", or "bad" when it raises.     *)
(***************************************************************************)
EXTENDS LedgerEvents, FiniteSets

CONSTANTS
  Node,       \* the nodes flows are made of
  MaxNodes    \* bound: nodes in a flow

\* The severity of a boundary is its rank in SEVERITY_ORDER, 0 for a word that
\* is not in it; a node that gives none has rank 1 ("low").  An effect that is
\* not one of the five changes nothing, and none at all means "allow".
NodeRecord == [
  type     : {"decision", "boundary", "fallback", "human_gate"},
  active   : BOOLEAN,
  cond     : {"true", "false", "bad"},
  priority : Nat,
  severity : 0..4,
  effect   : {"allow", "block", "override", "escalate", "redirect", "unknown"}]

ASSUME NodeAssumption == Node \subseteq NodeRecord /\ MaxNodes \in Nat

NoNode == 0     \* no action, no selected node

VARIABLES
  flow,       \* flow.nodes
  strategy,   \* resolution_policy.strategy
  pc,         \* which loop is running, or how the evaluation ended
  next,       \* position of the next node of the loop
  matched,    \* decision nodes that matched, in declaration order
  triggered,  \* boundary nodes that triggered, in declaration order
  records,    \* evaluated_nodes: the type of each record and its position
  result      \* status, selected node and node the action comes from

vars == <<flow, strategy, pc, next, matched, triggered, records, result>>

NoResult == [status |-> "none", selected |-> NoNode, action |-> NoNode]

Init ==
  /\ flow \in UNION {[1..n -> Node] : n \in 1..MaxNodes}
  /\ strategy \in {"first_match", "priority"}
  /\ pc = "decide" /\ next = 1
  /\ matched = <<>> /\ triggered = <<>> /\ records = <<>>
  /\ result = NoResult

IsLive(n, type) == flow[n].type = type /\ flow[n].active

Record(type, n) == records' = Append(records, [type |-> type, node |-> n])

\* A condition that does not parse or uses a forbidden construct: 400.
Raise(loop, type) ==
  /\ pc = loop /\ next \in DOMAIN flow
  /\ IsLive(next, type) /\ flow[next].cond = "bad"
  /\ pc' = "bad_condition"
  /\ UNCHANGED <<flow, strategy, next, matched, triggered, records, result>>

-----------------------------------------------------------------------------
(* The loop over the decision nodes, and the selection.                    *)

Decide ==
  /\ pc = "decide" /\ next \in DOMAIN flow
  /\ IsLive(next, "decision") => flow[next].cond # "bad"
  /\ next' = next + 1
  /\ IF IsLive(next, "decision")
     THEN /\ Record("decision", next)
          /\ matched' = IF flow[next].cond = "true"
                        THEN Append(matched, next) ELSE matched
     ELSE UNCHANGED <<records, matched>>
  /\ UNCHANGED <<flow, strategy, pc, triggered, result>>

\* _resolve: the highest priority, then the earlier node; any strategy other
\* than "priority" takes the first match.
Resolve(candidates) ==
  IF strategy = "priority"
  THEN CHOOSE n \in Range(candidates) : \A m \in Range(candidates) :
         \/ flow[n].priority > flow[m].priority
         \/ flow[n].priority = flow[m].priority /\ n <= m
  ELSE Head(candidates)

Fallbacks == {n \in DOMAIN flow : IsLive(n, "fallback")}

\* _get_fallback: the first active fallback node.
GetFallback == CHOOSE n \in Fallbacks : \A m \in Fallbacks : n <= m

DecideDone == pc = "decide" /\ next \notin DOMAIN flow

\* Some node matched: the selected one gives the action.
SelectMatch ==
  /\ DecideDone /\ matched # <<>>
  /\ LET n == Resolve(matched) IN
       result' = [status |-> "confirmed", selected |-> n, action |-> n]
  /\ pc' = "bound" /\ next' = 1
  /\ UNCHANGED <<flow, strategy, matched, triggered, records>>

SelectFallback ==
  /\ DecideDone /\ matched = <<>> /\ Fallbacks # {}
  /\ Record("fallback", GetFallback)
  /\ result' = [status |-> "fallback",
                selected |-> GetFallback, action |-> GetFallback]
  /\ pc' = "bound" /\ next' = 1
  /\ UNCHANGED <<flow, strategy, matched, triggered>>

\* No active fallback node: RuntimeError, which the route answers with 500.
NoFallback ==
  /\ DecideDone /\ matched = <<>> /\ Fallbacks = {}
  /\ pc' = "no_fallback"
  /\ UNCHANGED <<flow, strategy, next, matched, triggered, records, result>>

-----------------------------------------------------------------------------
(* BoundaryEngine.apply.                                                   *)

\* Mutant: the first boundary that triggers ends the loop.
GoOnUntilTriggered ==
  IF triggered' # triggered THEN Len(flow) + 1 ELSE next + 1

\* All boundaries are evaluated, whatever has triggered.
GoOn == next + 1

Bound ==
  /\ pc = "bound" /\ next \in DOMAIN flow
  /\ IsLive(next, "boundary") => flow[next].cond # "bad"
  /\ IF IsLive(next, "boundary")
     THEN /\ Record("boundary", next)
          /\ triggered' = IF flow[next].cond = "true"
                          THEN Append(triggered, next) ELSE triggered
     ELSE UNCHANGED <<records, triggered>>
  /\ next' = GoOn
  /\ UNCHANGED <<flow, strategy, pc, matched, result>>

\* Mutant: the sort is not stable, the last of the most severe ones wins.
DominantLast ==
  CHOOSE n \in Range(triggered) : \A m \in Range(triggered) :
    \/ flow[n].severity > flow[m].severity
    \/ flow[n].severity = flow[m].severity /\ n >= m

\* The head of the stable sort by descending severity.
Dominant ==
  CHOOSE n \in Range(triggered) : \A m \in Range(triggered) :
    \/ flow[n].severity > flow[m].severity
    \/ flow[n].severity = flow[m].severity /\ n <= m

\* Mutant: an escalation keeps the status the nodes gave.
ApplyEffectNoSuspend(n, r) ==
  CASE flow[n].effect = "block" ->
         [r EXCEPT !.status = "blocked", !.action = NoNode]
    [] flow[n].effect \in {"override", "redirect"} ->
         [r EXCEPT !.action = n, !.selected = n]
    [] flow[n].effect = "escalate" -> [r EXCEPT !.selected = n]
    [] OTHER -> r

\* _apply_effect
ApplyEffect(n, r) ==
  CASE flow[n].effect = "block" ->
         [r EXCEPT !.status = "blocked", !.action = NoNode]
    [] flow[n].effect \in {"override", "redirect"} ->
         [r EXCEPT !.action = n, !.selected = n]
    [] flow[n].effect = "escalate" ->
         [r EXCEPT !.status = "pending_human", !.selected = n]
    [] OTHER -> r

\* The effect of the dominant boundary, if any has triggered.
Apply ==
  /\ pc = "bound" /\ next \notin DOMAIN flow
  /\ result' = IF triggered = <<>> THEN result
               ELSE ApplyEffect(Dominant, result)
  /\ pc' = "done"
  /\ UNCHANGED <<flow, strategy, next, matched, triggered, records>>

-----------------------------------------------------------------------------

Next ==
  \/ Decide \/ Raise("decide", "decision")
  \/ SelectMatch \/ SelectFallback \/ NoFallback
  \/ Bound \/ Raise("bound", "boundary") \/ Apply

Spec == Init /\ [][Next]_vars

-----------------------------------------------------------------------------
(* Properties.                                                             *)

Active(type) == {n \in DOMAIN flow : flow[n].type = type /\ flow[n].active}
Holds(type)  == {n \in Active(type) : flow[n].cond = "true"}

\* The documented selection: n is the best of the matched nodes.
Wins(n) ==
  \A m \in Holds("decision") \ {n} :
    IF strategy = "priority"
    THEN \/ flow[m].priority < flow[n].priority
         \/ flow[m].priority = flow[n].priority /\ n < m
    ELSE n < m

\* The documented dominance: n is the most severe boundary that triggered, and
\* the first declared among equals.
Dominates(n) ==
  \A m \in Holds("boundary") \ {n} :
    \/ flow[m].severity < flow[n].severity
    \/ flow[m].severity = flow[n].severity /\ n < m

\* What runtime-policy.md promises of a result, whatever the mix of inactive
\* nodes, ties and effects: the action belongs to the winner among all matched
\* nodes or to the boundary that replaced it, and the status follows from the
\* dominant boundary alone.
ResultFollowsPolicy ==
  pc = "done" =>
    LET base   == IF Holds("decision") # {} THEN "confirmed" ELSE "fallback"
        chosen == IF Holds("decision") # {}
                  THEN {n \in Holds("decision") : Wins(n)}
                  ELSE {n \in Active("fallback") :
                          \A m \in Active("fallback") : n <= m}
        tops   == {n \in Holds("boundary") : Dominates(n)}
    IN  IF tops = {}
        THEN \E n \in chosen :
               result = [status |-> base, selected |-> n, action |-> n]
        ELSE \A b \in tops : \E n \in chosen :
               LET e == flow[b].effect IN
               /\ result.status = CASE e = "block" -> "blocked"
                                    [] e = "escalate" -> "pending_human"
                                    [] OTHER -> base
               /\ result.action = CASE e = "block" -> NoNode
                                    [] e \in {"override", "redirect"} -> b
                                    [] OTHER -> n
               /\ result.selected =
                    IF e \in {"override", "redirect", "escalate"} THEN b ELSE n

\* An evaluation gives a result exactly when every condition that is in use
\* can be evaluated and there is a node to select: a bad condition is never
\* masked by a match, a block or a more severe boundary.
ErrorsAreNotAbsorbed ==
  LET bad(type) == \E n \in Active(type) : flow[n].cond = "bad"
      none      == Holds("decision") = {} /\ Active("fallback") = {}
  IN  /\ pc = "done" => ~bad("decision") /\ ~bad("boundary") /\ ~none
      /\ pc = "no_fallback" => ~bad("decision") /\ none
      /\ pc = "bad_condition" => bad("decision") \/ (bad("boundary") /\ ~none)

-----------------------------------------------------------------------------
(* The abstraction DecisionRuntime makes of an evaluation.                 *)

\* A flow's evaluation as the two facts the side-effect pipeline branches on.
AbstractDecision == [
  matched |-> matched # <<>>,
  effect  |-> IF Active("boundary") = {} THEN "none"
              ELSE IF triggered = <<>> THEN "allow"
              ELSE IF flow[Dominant].effect \in {"block", "escalate"}
                   THEN flow[Dominant].effect
              ELSE "allow"]

NodeKind == {"decision", "fallback", "boundary"}

\* The node events among kinds are those of the records, in their order, and
\* records share an event when they are adjacent and of one type.
WrittenAs(types, kinds) ==
  LET nodes == {k \in DOMAIN kinds : kinds[k] \in NodeKind} IN
  \E at \in [DOMAIN types -> nodes] :
    /\ Range(at) = nodes
    /\ \A i \in DOMAIN types : kinds[at[i]] = types[i]
    /\ \A i \in DOMAIN types : i + 1 \in DOMAIN types =>
         IF types[i] = types[i + 1] THEN at[i] = at[i + 1] ELSE at[i] < at[i + 1]

\* DecisionRuntime loses nothing its pipeline depends on: the status is the
\* abstract decision's, and the node events BuildEvents gives it are those of
\* the evaluated nodes, many nodes of one type being written as one.
AbstractionIsFaithful ==
  pc = "done" =>
    LET types == [i \in DOMAIN records |-> records[i].type] IN
    /\ result.status = StatusOf(AbstractDecision)
    /\ Active("decision") # {} =>
         WrittenAs(types, BuildEvents(AbstractDecision))

=============================================================================
