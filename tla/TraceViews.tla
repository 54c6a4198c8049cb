----------------------------- MODULE TraceViews -----------------------------
(***************************************************************************)
(* What is shown of an evaluation afterwards: the trace TraceBuilder makes *)
(* of it, the explanation of GET /decision/{id}/explain, the events        *)
(* RuntimeLedgerAdapter writes for it, the trace LedgerProjector rebuilds  *)
(* from these when the process has lost the first one, and the differences *)
(* POST /compare finds between two traces.  All of them are functions of a *)
(* finished evaluation of FlowEvaluation.                                  *)
(***************************************************************************)
EXTENDS FlowEvaluation

\* The k-th of a set of positions, and the entries of s at these positions, in
\* their order: what a loop collects that keeps the entries passing a test.
Nth(positions, k) ==
  CHOOSE i \in positions : Cardinality({j \in positions : j < i}) = k - 1

EntriesAt(s, positions) ==
  [k \in 1..Cardinality(positions) |-> s[Nth(positions, k)]]

-----------------------------------------------------------------------------
(* The trace.                                                              *)

\* evaluated_nodes, with the matched flag each record carries.
EvaluatedNodes ==
  [i \in DOMAIN records |->
     [node |-> records[i].node, type |-> records[i].type,
      matched |-> \/ records[i].type = "fallback"
                  \/ records[i].node \in Range(matched \o triggered)]]

\* boundary_results: every active boundary, in declaration order.
BoundaryResults ==
  LET evaluated ==
        EntriesAt(records, {i \in DOMAIN records : records[i].type = "boundary"})
  IN
  [i \in DOMAIN evaluated |->
     LET b == evaluated[i].node IN
     [boundary |-> b, triggered |-> b \in Range(triggered),
      severity |-> flow[b].severity, effect |-> flow[b].effect]]

NoGate == "none"

\* Mutant: any boundary that escalates opens a gate, dominant or not.
GateOnEscalate ==
  IF \E b \in Range(triggered) : flow[b].effect = "escalate"
  THEN "pending" ELSE NoGate

\* A gate is requested for a suspended decision.
Gate == IF result.status = "pending_human" THEN "pending" ELSE NoGate

\* create_trace
CreateTrace ==
  [state   |-> "completed",
   nodes   |-> EvaluatedNodes,
   results |-> <<[status     |-> result.status,
                  outcome    |-> IF matched # <<>> THEN "pass" ELSE "fail",
                  selected   |-> result.selected,
                  action     |-> result.action,
                  boundaries |-> BoundaryResults,
                  gate       |-> Gate]>>]

\* ExplanationBuilder.build
Explain(trace) ==
  LET primary == trace.results[1]
      hits    == {i \in DOMAIN trace.nodes : trace.nodes[i].matched}
  IN
  [selected  |-> primary.selected,
   matched   |-> EntriesAt(trace.nodes, hits),
   unmatched |-> EntriesAt(trace.nodes, DOMAIN trace.nodes \ hits),
   effects   |-> primary.boundaries,
   gate      |-> primary.gate,
   action    |-> primary.action,
   status    |-> primary.status]

-----------------------------------------------------------------------------
(* The ledger and what is rebuilt from it.                                 *)

\* _NODE_TYPE_TO_STEP, for the types of evaluated nodes.
NodeStep ==
  [decision |-> "decision", boundary |-> "boundary", fallback |-> "outcome"]

Entry(step, payload) == [step |-> step, payload |-> payload]

\* _build_events, payloads included.
EventsOf(trace) ==
  LET primary == trace.results[1] IN
  <<Entry("signal", [signal |-> "the signal"])>>
    \o [i \in DOMAIN trace.nodes |->
          Entry(NodeStep[trace.nodes[i].type], trace.nodes[i])]
    \o (IF primary.gate = NoGate THEN <<>>
        ELSE <<Entry("human", [gate |-> primary.gate])>>)
    \o <<Entry("outcome", [status   |-> primary.status,
                           outcome  |-> primary.outcome,
                           selected |-> primary.selected])>>

\* append_human_gate_event
Resolution(action) == Entry("human", [gate |-> action])

\* payload.get(key, default)
Get(payload, key, default) ==
  IF key \in DOMAIN payload THEN payload[key] ELSE default

Outcomes(events) == {i \in DOMAIN events : events[i].step = "outcome"}

\* Mutant: the first event of step type outcome decides.
OutcomeEventFirst(events) ==
  events[CHOOSE i \in Outcomes(events) : \A j \in Outcomes(events) : i <= j]

\* The last event of step type outcome overwrites the ones before it.
OutcomeEvent(events) ==
  events[CHOOSE i \in Outcomes(events) : \A j \in Outcomes(events) : j <= i]

\* _build_result
BuildResult(payload) ==
  [status     |-> Get(payload, "status", "confirmed"),
   outcome    |-> Get(payload, "outcome", "pass"),
   selected   |-> Get(payload, "selected", NoNode),
   action     |-> NoNode,
   boundaries |-> <<>>,
   gate       |-> NoGate]

\* project
ProjectTrace(events) ==
  LET nodes == EntriesAt(events, {i \in DOMAIN events :
                                    events[i].step \in {"decision", "boundary"}})
      found == Outcomes(events) # {}
  IN  [state   |-> IF found THEN "completed" ELSE "evaluating",
       nodes   |-> [i \in DOMAIN nodes |-> nodes[i].payload],
       results |-> IF found
                   THEN <<BuildResult(OutcomeEvent(events).payload)>> ELSE <<>>]

-----------------------------------------------------------------------------
(* Comparing traces.                                                       *)

\* Where the two traces have no result, every field of it is None.
NoResultFields ==
  [status |-> "none", outcome |-> "none", selected |-> -1, action |-> NoNode,
   boundaries |-> <<>>, gate |-> NoGate]

Primary(trace) ==
  IF trace.results = <<>> THEN NoResultFields ELSE trace.results[1]

TriggeredIds(r) ==
  {r.boundaries[i].boundary :
     i \in {j \in DOMAIN r.boundaries : r.boundaries[j].triggered}}

NodeMap(trace) ==
  [n \in {trace.nodes[i].node : i \in DOMAIN trace.nodes} |->
     \E i \in DOMAIN trace.nodes :
       trace.nodes[i].node = n /\ trace.nodes[i].matched]

\* The paths of the fields that differ.
Paths(differs) == {<<f, NoNode>> : f \in {g \in DOMAIN differs : differs[g]}}

\* _compute_trace_diffs: the paths it reports, as a field and a node.
TraceDiffs(base, target) ==
  LET b == Primary(base)  t == Primary(target)
      bn == NodeMap(base)  tn == NodeMap(target)
      differs ==
        [status        |-> b.status # t.status,
         outcome       |-> b.outcome # t.outcome,
         selected      |-> b.selected # t.selected,
         action        |-> b.action # t.action,
         count         |-> Len(b.boundaries) # Len(t.boundaries),
         triggered_ids |-> TriggeredIds(b) # TriggeredIds(t),
         gate          |-> (b.gate = NoGate) # (t.gate = NoGate),
         gate_status   |-> NoGate \notin {b.gate, t.gate} /\ b.gate # t.gate,
         state         |-> base.state # target.state]
      both == DOMAIN bn \cap DOMAIN tn
  IN  Paths(differs)
        \cup {<<"present", n>> : n \in (DOMAIN bn \cup DOMAIN tn) \ both}
        \cup {<<"matched", n>> : n \in {m \in both : bn[m] # tn[m]}}

-----------------------------------------------------------------------------
(* Properties.                                                             *)

\* What a restart costs: the trace rebuilt from a complete ledger differs from
\* the stored one in what the events leave out, and in nothing else, whether or
\* not the gate has been resolved since.  Rebuilt from a ledger cut short it
\* shows the nodes up to the cut, and it is completed only when a fallback node
\* is among them (then it says confirmed: see CompletedOnlyWithOutcome).
ProjectionNeverMisreports ==
  pc = "done" =>
    LET stored == CreateTrace
        events == EventsOf(stored)
        r      == stored.results[1]
        lost   == Paths([action        |-> r.action # NoNode,
                         count         |-> r.boundaries # <<>>,
                         triggered_ids |-> triggered # <<>>,
                         gate          |-> r.gate # NoGate])
                    \cup (IF matched = <<>> THEN {<<"present", GetFallback>>}
                          ELSE {})
    IN  /\ \A later \in {<<>>, <<Resolution("approve")>>} :
             TraceDiffs(stored, ProjectTrace(events \o later)) = lost
        /\ \A n \in 1..(Len(events) - 1) :
             LET cut  == ProjectTrace(SubSeq(events, 1, n))
                 full == ProjectTrace(events)
             IN  /\ cut.nodes = SubSeq(full.nodes, 1, Len(cut.nodes))
                 /\ cut.state = "completed" <=>
                      matched = <<>> /\ n > 1 + Cardinality(Active("decision"))
                 /\ cut.state = "completed" =>
                      cut.results[1].status = "confirmed"

\* An explanation is its own evidence: from the conditions and effects it lists
\* a reader can derive the status, the selected node and whether a gate is
\* required, and it accounts for every node the evaluation used, once.
ExplanationJustifiesStatus ==
  pc = "done" =>
    LET e     == Explain(CreateTrace)
        hits  == {e.effects[i] : i \in {j \in DOMAIN e.effects :
                                          e.effects[j].triggered}}
        tops  == {h \in hits : \A g \in hits :
                    \/ g.severity < h.severity
                    \/ g.severity = h.severity /\ h.boundary <= g.boundary}
        base  == IF \E m \in Range(e.matched) : m.type = "decision"
                 THEN "confirmed" ELSE "fallback"
        rules == {h \in tops : h.effect \in
                    {"block", "override", "redirect", "escalate"}}
        moves == {h \in rules : h.effect # "block"}
        listed == Range(e.matched) \cup Range(e.unmatched)
    IN  /\ e.status = IF \E h \in rules : h.effect = "block" THEN "blocked"
                      ELSE IF \E h \in rules : h.effect = "escalate"
                      THEN "pending_human" ELSE base
        /\ IF moves # {} THEN \A h \in moves : e.selected = h.boundary
           ELSE \E m \in Range(e.matched) :
                  m.node = e.selected /\ m.type \in {"decision", "fallback"}
        /\ e.action = NoNode <=> e.status = "blocked"
        /\ e.gate # NoGate <=> e.status = "pending_human"
        /\ \A h \in Range(e.effects) :
             \E m \in Range(IF h.triggered THEN e.matched ELSE e.unmatched) :
               m.node = h.boundary
        /\ {m.node : m \in listed} =
             Active("decision") \cup Active("boundary")
               \cup (IF base = "fallback" THEN {GetFallback} ELSE {})
        /\ Len(e.matched) + Len(e.unmatched)
             = Cardinality({m.node : m \in listed})

=============================================================================
