------------------------ MODULE FlowEvaluationProofs ------------------------
(***************************************************************************)
(* Proofs about FlowEvaluation and TraceViews: the result of an evaluation *)
(* is the one the policy documents describe, for every flow; an evaluation *)
(* that cannot have a result has none; the explanation is evidence for the *)
(* result; and the trace rebuilt from the events differs from the stored   *)
(* one in exactly what the events leave out.                               *)
(***************************************************************************)
EXTENDS TraceViews, RangeLemmas, FiniteSetTheorems, FunctionTheorems,
        SequenceTheorems, TLAPS

Nodes == 1..Len(flow)

TypeOK ==
  /\ flow \in Seq(Node)
  /\ strategy \in {"first_match", "priority"}
  /\ pc \in {"decide", "bound", "done", "bad_condition", "no_fallback"}
  /\ next \in Nat \ {0}
  /\ matched \in Seq(Nodes) /\ triggered \in Seq(Nodes)
  /\ records \in Seq([type : NodeKind, node : Nodes])

-----------------------------------------------------------------------------
(* The inductive invariant.                                                *)

\* The nodes the loop over nodes of a type has passed.
Passed(loop) == {n \in Nodes : pc = loop => n < next}

\* The list holds exactly the passed nodes of the type whose condition holds, the
\* earliest of them first, and the condition of none of them is bad.
Collected(list, type, loop) ==
  /\ Range(list) = Holds(type) \cap Passed(loop)
  /\ list # <<>> => \A n \in Range(list) : Head(list) <= n
  /\ \A n \in Active(type) \cap Passed(loop) : flow[n].cond # "bad"

\* What the selection makes of the matched nodes.
Chosen ==
  IF Holds("decision") # {} THEN {n \in Holds("decision") : Wins(n)}
  ELSE {n \in Active("fallback") : \A m \in Active("fallback") : n <= m}

Base == IF Holds("decision") # {} THEN "confirmed" ELSE "fallback"

Selected(n) == [status |-> Base, selected |-> n, action |-> n]

Progress ==
  /\ pc = "decide" => triggered = <<>> /\ Collected(matched, "decision", "decide")
  /\ pc \in {"bound", "done"} =>
       /\ Collected(matched, "decision", "decide")
       /\ Collected(triggered, "boundary", "bound")
       /\ Chosen # {}
  /\ pc = "bound" => \E n \in Chosen : result = Selected(n)
  /\ pc = "done" => \E n \in Chosen :
       result = IF triggered = <<>> THEN Selected(n)
                ELSE ApplyEffect(Dominant, Selected(n))

\* How an evaluation ends without a result.
Failures ==
  LET bad(type) == \E n \in Active(type) : flow[n].cond = "bad"
      none      == Holds("decision") = {} /\ Active("fallback") = {}
  IN  /\ pc = "no_fallback" => ~bad("decision") /\ none
      /\ pc = "bad_condition" => bad("decision") \/ (bad("boundary") /\ ~none)

IInv == TypeOK /\ Progress /\ Failures

-----------------------------------------------------------------------------
(* Types.                                                                  *)

\* A flow is a sequence of node records, and stays so where it is indexed.
LEMMA FlowType ==
  ASSUME TypeOK
  PROVE  /\ Len(flow) \in Nat /\ DOMAIN flow = Nodes /\ Nodes \subseteq Nat
         /\ \A n \in Nodes : flow[n] \in NodeRecord
         /\ \A n \in Nodes : flow[n].priority \in Nat /\ flow[n].severity \in Nat
<1>1. Len(flow) \in Nat /\ DOMAIN flow = Nodes
  BY DEF TypeOK, Nodes
<1>2. \A n \in Nodes : flow[n] \in NodeRecord
  BY <1>1, NodeAssumption DEF TypeOK, Nodes
<1>3. \A r \in NodeRecord : r.priority \in Nat /\ r.severity \in Nat
  BY DEF NodeRecord
<1>. QED BY <1>1, <1>2, <1>3 DEF Nodes

\* TypeOK holds at first.
LEMMA TypeInit == Init => TypeOK
<1>. SUFFICES ASSUME Init PROVE TypeOK
  OBVIOUS
<1>1. PICK n \in 1..MaxNodes : flow \in [1..n -> Node]
  BY DEF Init
<1>2. n \in Nat
  BY <1>1, NodeAssumption
<1>3. flow \in Seq(Node)
  BY <1>1, <1>2
<1>. QED BY <1>3 DEF Init, TypeOK

\* Every step keeps TypeOK.
LEMMA TypeStep == TypeOK /\ [Next]_vars => TypeOK'
<1>. SUFFICES ASSUME TypeOK, [Next]_vars PROVE TypeOK'
  OBVIOUS
<1>0. DOMAIN flow = Nodes /\ Nodes \subseteq Nat
  BY FlowType
<1>1. flow' = flow /\ Nodes' = Nodes /\ strategy' = strategy
  BY DEF Next, vars, Decide, Raise, SelectMatch, SelectFallback, NoFallback,
     Bound, Apply, Nodes
<1>2. CASE Decide
  <2>1. next \in Nodes /\ "decision" \in NodeKind
    BY <1>0, <1>2 DEF Decide, NodeKind
  <2>2. records' \in Seq([type : NodeKind, node : Nodes])
    <3>. DEFINE Rec == [type : NodeKind, node : Nodes]
    <3>1. [type |-> "decision", node |-> next] \in Rec /\ records \in Seq(Rec)
      BY <2>1 DEF TypeOK
    <3>2. \/ records' = records
          \/ records' = Append(records, [type |-> "decision", node |-> next])
      BY <1>2 DEF Decide, Record
    <3>. HIDE DEF Rec
    <3>3. records' \in Seq(Rec)
      BY <3>1, <3>2, RangeAppend
    <3>. QED BY <3>3 DEF Rec
  <2>3. matched' \in Seq(Nodes) /\ triggered' \in Seq(Nodes)
    <3>1. matched' \in {matched, Append(matched, next)} /\ triggered' = triggered
      BY <1>2 DEF Decide
    <3>. QED BY <2>1, <3>1, RangeAppend DEF TypeOK
  <2>. QED BY <1>1, <1>2, <2>2, <2>3 DEF TypeOK, Decide
<1>3. CASE Bound
  <2>1. next \in Nodes /\ "boundary" \in NodeKind
    BY <1>0, <1>3 DEF Bound, NodeKind
  <2>2. records' \in Seq([type : NodeKind, node : Nodes])
    <3>. DEFINE Rec == [type : NodeKind, node : Nodes]
    <3>1. [type |-> "boundary", node |-> next] \in Rec /\ records \in Seq(Rec)
      BY <2>1 DEF TypeOK
    <3>2. \/ records' = records
          \/ records' = Append(records, [type |-> "boundary", node |-> next])
      BY <1>3 DEF Bound, Record
    <3>. HIDE DEF Rec
    <3>3. records' \in Seq(Rec)
      BY <3>1, <3>2, RangeAppend
    <3>. QED BY <3>3 DEF Rec
  <2>3. matched' \in Seq(Nodes) /\ triggered' \in Seq(Nodes)
    <3>1. triggered' \in {triggered, Append(triggered, next)} /\ matched' = matched
      BY <1>3 DEF Bound
    <3>. QED BY <2>1, <3>1, RangeAppend DEF TypeOK
  <2>. QED BY <1>1, <1>3, <2>2, <2>3 DEF TypeOK, Bound, GoOn
<1>4. CASE SelectFallback
  <2>1. GetFallback \in Nodes /\ "fallback" \in NodeKind
    <3>1. Fallbacks \in SUBSET Nat /\ Fallbacks # {} /\ Fallbacks \subseteq Nodes
      BY <1>0, <1>4 DEF SelectFallback, Fallbacks
    <3>2. \E n \in Fallbacks : \A m \in Fallbacks : n <= m
      BY <3>1, LeastNat
    <3>. QED BY <3>1, <3>2 DEF GetFallback, NodeKind
  <2>. QED BY <1>1, <1>4, <2>1 DEF TypeOK, SelectFallback, Record
<1>5. CASE \/ SelectMatch \/ NoFallback \/ Apply \/ UNCHANGED vars
           \/ Raise("decide", "decision") \/ Raise("bound", "boundary")
  BY <1>1, <1>5 DEF TypeOK, SelectMatch, NoFallback, Apply, Raise, vars
<1>. QED BY <1>2, <1>3, <1>4, <1>5 DEF Next

\* A step leaves the flow, and with it all that is read off it, alone.
LEMMA SameFlow ==
  ASSUME [Next]_vars
  PROVE  /\ flow' = flow /\ strategy' = strategy /\ Nodes' = Nodes
         /\ \A type : Active(type)' = Active(type) /\ Holds(type)' = Holds(type)
         /\ \A n : Wins(n)' = Wins(n)
         /\ \A n, r : ApplyEffect(n, r)' = ApplyEffect(n, r)
         /\ Chosen' = Chosen /\ Base' = Base /\ \A n : Selected(n)' = Selected(n)
<1>1. flow' = flow /\ strategy' = strategy
  BY DEF Next, vars, Decide, Raise, SelectMatch, SelectFallback, NoFallback,
     Bound, Apply
<1>2. \A type : Active(type)' = Active(type) /\ Holds(type)' = Holds(type)
  BY <1>1 DEF Active, Holds
<1>3. \A n : Wins(n)' = Wins(n)
  BY <1>1, <1>2 DEF Wins
<1>4. Chosen' = Chosen /\ Base' = Base /\ \A n : Selected(n)' = Selected(n)
  BY <1>1, <1>2, <1>3 DEF Chosen, Base, Selected
<1>5. \A n, r : ApplyEffect(n, r)' = ApplyEffect(n, r)
  BY <1>1 DEF ApplyEffect
<1>. QED BY <1>1, <1>2, <1>3, <1>4, <1>5 DEF Nodes

\* The sets of nodes the properties speak of are sets of positions.
LEMMA NodeSets ==
  ASSUME TypeOK
  PROVE  /\ \A type : Active(type) \subseteq Nodes /\ Holds(type) \subseteq Active(type)
         /\ Fallbacks = Active("fallback")
         /\ \A type : \A n \in Nodes : IsLive(n, type) <=> n \in Active(type)
         /\ \A type : \A n \in Active(type) : n \in Holds(type) <=> flow[n].cond = "true"
BY FlowType DEF Active, Holds, Fallbacks, IsLive

-----------------------------------------------------------------------------
(* The choices are possible, and the documented ones.                      *)

\* What _resolve takes is the winner among the candidates, and there is no other.
LEMMA ResolveWins ==
  ASSUME TypeOK, matched # <<>>, Range(matched) = Holds("decision"),
         \A n \in Range(matched) : Head(matched) <= n
  PROVE  Resolve(matched) \in Holds("decision") /\ Wins(Resolve(matched))
<1>1. /\ Range(matched) \subseteq Nodes /\ Range(matched) # {}
      /\ Head(matched) \in Range(matched)
  BY RangeTail, RangeType, RangeEmpty DEF TypeOK
<1>2. Len(flow) \in Nat /\ Nodes = 1..Len(flow) /\ Nodes \subseteq Nat
      /\ \A n \in Nodes : flow[n].priority \in Nat
  BY FlowType DEF Nodes
<1>3. CASE strategy = "priority"
  <2>. DEFINE R == {p \in Nodes \X Nodes :
                      \/ flow[p[1]].priority > flow[p[2]].priority
                      \/ flow[p[1]].priority = flow[p[2]].priority /\ p[1] <= p[2]}
  <2>1. \A i, j \in Nodes : <<i, j>> \in R <=>
                      \/ flow[i].priority > flow[j].priority
                      \/ flow[i].priority = flow[j].priority /\ i <= j
    OBVIOUS
  <2>. HIDE DEF R
  <2>2. ASSUME NEW i \in Nodes, NEW j \in Nodes PROVE <<i, j>> \in R \/ <<j, i>> \in R
    <3>1. i \in Nat /\ j \in Nat /\ flow[i].priority \in Nat /\ flow[j].priority \in Nat
      BY <1>2
    <3>2. \/ flow[i].priority > flow[j].priority \/ flow[j].priority > flow[i].priority
          \/ flow[i].priority = flow[j].priority /\ (i <= j \/ j <= i)
      BY <3>1
    <3>. QED BY <2>1, <3>2
  <2>3. \A i, j, k \in Nodes : <<i, j>> \in R /\ <<j, k>> \in R => <<i, k>> \in R
    BY ONLY <1>2, <2>1
  <2>4. \E n \in Range(matched) : \A m \in Range(matched) : <<n, m>> \in R
    <3>1. Range(matched) \in SUBSET (1..Len(flow)) /\ Range(matched) # {}
      BY <1>1, <1>2
    <3>2. \A i, j \in Range(matched) : <<i, j>> \in R \/ <<j, i>> \in R
      BY <1>1, <2>2
    <3>3. \A i, j, k \in Range(matched) : <<i, j>> \in R /\ <<j, k>> \in R => <<i, k>> \in R
      BY <1>1, <2>3
    <3>. QED BY <1>2, <3>1, <3>2, <3>3, BestExists
  <2>5. \E n \in Range(matched) : \A m \in Range(matched) :
          \/ flow[n].priority > flow[m].priority
          \/ flow[n].priority = flow[m].priority /\ n <= m
    BY <1>1, <2>1, <2>4
  <2>6. /\ Resolve(matched) \in Range(matched)
        /\ \A m \in Range(matched) :
             \/ flow[Resolve(matched)].priority > flow[m].priority
             \/ flow[Resolve(matched)].priority = flow[m].priority
                  /\ Resolve(matched) <= m
    BY <1>3, <2>5 DEF Resolve
  <2>. QED BY <1>1, <1>2, <1>3, <2>6 DEF Wins
<1>4. CASE strategy # "priority"
  <2>1. Resolve(matched) = Head(matched)
    BY <1>4 DEF Resolve
  <2>. QED BY <1>1, <1>2, <1>4, <2>1 DEF Wins
<1>. QED BY <1>3, <1>4

\* The head of the stable sort exists, dominates, and is the only one that does.
LEMMA DominantDominates ==
  ASSUME TypeOK, triggered # <<>>, Range(triggered) = Holds("boundary")
  PROVE  {n \in Holds("boundary") : Dominates(n)} = {Dominant}
<1>1. Range(triggered) \subseteq Nodes /\ Range(triggered) # {}
  BY RangeType, RangeEmpty DEF TypeOK
<1>2. Len(flow) \in Nat /\ Nodes = 1..Len(flow) /\ Nodes \subseteq Nat
      /\ \A n \in Nodes : flow[n].severity \in Nat
  BY FlowType DEF Nodes
<1>. DEFINE R == {p \in Nodes \X Nodes :
                    \/ flow[p[1]].severity > flow[p[2]].severity
                    \/ flow[p[1]].severity = flow[p[2]].severity /\ p[1] <= p[2]}
<1>3. \A i, j \in Nodes : <<i, j>> \in R <=>
                    \/ flow[i].severity > flow[j].severity
                    \/ flow[i].severity = flow[j].severity /\ i <= j
  OBVIOUS
<1>. HIDE DEF R
<1>4. ASSUME NEW i \in Nodes, NEW j \in Nodes PROVE <<i, j>> \in R \/ <<j, i>> \in R
  <2>1. i \in Nat /\ j \in Nat /\ flow[i].severity \in Nat /\ flow[j].severity \in Nat
    BY <1>2
  <2>2. \/ flow[i].severity > flow[j].severity \/ flow[j].severity > flow[i].severity
        \/ flow[i].severity = flow[j].severity /\ (i <= j \/ j <= i)
    BY <2>1
  <2>. QED BY <1>3, <2>2
<1>5. \A i, j, k \in Nodes : <<i, j>> \in R /\ <<j, k>> \in R => <<i, k>> \in R
  BY ONLY <1>2, <1>3
<1>6. \E n \in Range(triggered) : \A m \in Range(triggered) : <<n, m>> \in R
  <2>1. Range(triggered) \in SUBSET (1..Len(flow)) /\ Range(triggered) # {}
    BY <1>1, <1>2
  <2>2. \A i, j \in Range(triggered) : <<i, j>> \in R \/ <<j, i>> \in R
    BY <1>1, <1>4
  <2>3. \A i, j, k \in Range(triggered) : <<i, j>> \in R /\ <<j, k>> \in R => <<i, k>> \in R
    BY <1>1, <1>5
  <2>. QED BY <1>2, <2>1, <2>2, <2>3, BestExists
<1>7. \E n \in Range(triggered) : \A m \in Range(triggered) :
        \/ flow[n].severity > flow[m].severity
        \/ flow[n].severity = flow[m].severity /\ n <= m
  BY <1>1, <1>3, <1>6
<1>8. /\ Dominant \in Range(triggered)
      /\ \A m \in Range(triggered) :
           \/ flow[Dominant].severity > flow[m].severity
           \/ flow[Dominant].severity = flow[m].severity /\ Dominant <= m
  BY <1>7 DEF Dominant
<1>. HIDE DEF Dominant
<1>9. Dominates(Dominant)
  BY <1>1, <1>2, <1>8 DEF Dominates
<1>10. ASSUME NEW b \in Holds("boundary"), Dominates(b), b # Dominant PROVE FALSE
  <2>1. b \in Nodes /\ Dominant \in Nodes /\ b \in Range(triggered)
    BY <1>1, <1>8
  <2>2. \/ flow[Dominant].severity < flow[b].severity
        \/ flow[Dominant].severity = flow[b].severity /\ b < Dominant
    BY <1>8, <1>10 DEF Dominates
  <2>. QED BY <1>2, <1>8, <2>1, <2>2
<1>. QED BY <1>8, <1>9, <1>10

\* The first fallback node, when there is one.
LEMMA FallbackChosen ==
  ASSUME TypeOK, Fallbacks # {}
  PROVE  /\ GetFallback \in Fallbacks
         /\ \A m \in Fallbacks : GetFallback <= m
<1>1. Fallbacks \in SUBSET Nat
  BY FlowType DEF Fallbacks
<1>2. \E n \in Fallbacks : \A m \in Fallbacks : n <= m
  BY <1>1, LeastNat
<1>. QED BY <1>2 DEF GetFallback

-----------------------------------------------------------------------------
(* The loops.                                                              *)

\* One more element, later than the others, leaves the head of a list its least.
LEMMA HeadStaysLeast ==
  ASSUME NEW s \in Seq(Nat), NEW e \in Nat, \A x \in Range(s) : x < e,
         s # <<>> => \A x \in Range(s) : Head(s) <= x
  PROVE  \A x \in Range(Append(s, e)) : Head(Append(s, e)) <= x
<1>1. Range(Append(s, e)) = Range(s) \cup {e}
  BY RangeAppend
<1>2. CASE s = <<>>
  BY <1>1, <1>2, RangeEmpty
<1>3. CASE s # <<>>
  <2>1. Head(Append(s, e)) = Head(s) /\ Head(s) \in Range(s) /\ Head(s) \in Nat
    BY <1>3, RangeTail
  <2>. QED BY <1>1, <1>3, <2>1
<1>. QED BY <1>2, <1>3

\* A node the loop passes is collected when its condition holds.
LEMMA CollectStep ==
  ASSUME TypeOK, NEW list \in Seq(Nodes), NEW type, NEW loop,
         pc = loop, next \in Nodes, Collected(list, type, loop),
         IsLive(next, type) => flow[next].cond # "bad",
         flow' = flow, pc' = pc, next' = next + 1,
         NEW list2,
         list2 = IF IsLive(next, type) /\ flow[next].cond = "true"
                 THEN Append(list, next) ELSE list
  PROVE  /\ Range(list2) = Holds(type) \cap Passed(loop)'
         /\ list2 # <<>> => \A n \in Range(list2) : Head(list2) <= n
         /\ \A n \in Active(type) \cap Passed(loop)' : flow[n].cond # "bad"
<1>1. Nodes' = Nodes /\ Nodes \subseteq Nat /\ next \in Nat /\ DOMAIN flow = Nodes
  BY FlowType DEF Nodes
<1>2. Passed(loop)' = Passed(loop) \cup {next} /\ \A n \in Passed(loop) : n < next
  BY <1>1 DEF Passed
<1>3. /\ Active(type) \subseteq Nodes /\ Holds(type) \subseteq Active(type)
      /\ IsLive(next, type) <=> next \in Active(type)
      /\ next \in Active(type) => (next \in Holds(type) <=> flow[next].cond = "true")
  BY NodeSets
<1>4. \A n \in Active(type) \cap Passed(loop)' : flow[n].cond # "bad"
  BY <1>2, <1>3 DEF Collected
<1>5. CASE next \in Holds(type)
  <2>1. list2 = Append(list, next)
    BY <1>3, <1>5
  <2>2. Range(list2) = Range(list) \cup {next}
    BY <2>1, RangeAppend
  <2>3. \A x \in Range(list) : x < next
    BY <1>2 DEF Collected
  <2>4. list \in Seq(Nat)
    BY <1>1
  <2>5. \A n \in Range(list2) : Head(list2) <= n
    BY <1>1, <2>1, <2>3, <2>4, HeadStaysLeast DEF Collected
  <2>. QED BY <1>2, <1>4, <1>5, <2>2, <2>5 DEF Collected
<1>6. CASE next \notin Holds(type)
  <2>1. list2 = list
    BY <1>3, <1>6
  <2>. QED BY <1>2, <1>4, <1>6, <2>1 DEF Collected
<1>. QED BY <1>5, <1>6

-----------------------------------------------------------------------------
(* The steps.                                                              *)

\* Progress holds before the first node.
LEMMA ProgressInit == Init => Progress
<1>. SUFFICES ASSUME Init PROVE Progress
  OBVIOUS
<1>1. TypeOK
  BY TypeInit
<1>2. pc = "decide" /\ next = 1 /\ matched = <<>> /\ triggered = <<>>
  BY DEF Init
<1>3. Passed("decide") = {}
  BY <1>1, <1>2, FlowType DEF Passed
<1>4. Collected(matched, "decision", "decide")
  BY <1>2, <1>3, RangeEmpty DEF Collected
<1>. QED BY <1>2, <1>4 DEF Progress

\* A decision node more: the matches so far are again exactly those.
LEMMA DecideStep ==
  ASSUME IInv, Decide, flow' = flow
  PROVE  Progress'
<1>1. /\ pc = "decide" /\ pc' = "decide" /\ next' = next + 1 /\ triggered' = triggered
      /\ next \in Nodes
      /\ IsLive(next, "decision") => flow[next].cond # "bad"
  BY FlowType DEF Decide, IInv
<1>2. matched' = IF IsLive(next, "decision") /\ flow[next].cond = "true"
                 THEN Append(matched, next) ELSE matched
  BY DEF Decide
<1>3. TypeOK /\ triggered = <<>> /\ Collected(matched, "decision", "decide")
      /\ matched \in Seq(Nodes) /\ pc' = pc
  BY <1>1 DEF IInv, Progress, TypeOK
<1>4. /\ Range(matched') = Holds("decision") \cap Passed("decide")'
      /\ matched' # <<>> => \A n \in Range(matched') : Head(matched') <= n
      /\ \A n \in Active("decision") \cap Passed("decide")' : flow[n].cond # "bad"
  BY <1>1, <1>2, <1>3, CollectStep
<1>5. Active("decision")' = Active("decision") /\ Holds("decision")' = Holds("decision")
  BY DEF Active, Holds
<1>6. Collected(matched, "decision", "decide")'
  BY <1>4, <1>5 DEF Collected
<1>. QED BY <1>1, <1>3, <1>6 DEF Progress

\* A boundary node more: those triggered so far are again exactly those.
LEMMA BoundStep ==
  ASSUME IInv, Bound, [Next]_vars
  PROVE  Progress'
<1>1. /\ pc = "bound" /\ pc' = "bound" /\ next' = next + 1 /\ matched' = matched
      /\ result' = result /\ next \in Nodes /\ flow' = flow
      /\ IsLive(next, "boundary") => flow[next].cond # "bad"
  BY FlowType DEF Bound, IInv, GoOn
<1>2. triggered' = IF IsLive(next, "boundary") /\ flow[next].cond = "true"
                   THEN Append(triggered, next) ELSE triggered
  BY DEF Bound
<1>3. /\ TypeOK /\ Collected(triggered, "boundary", "bound") /\ pc' = pc
      /\ Collected(matched, "decision", "decide") /\ triggered \in Seq(Nodes)
      /\ Chosen # {} /\ \E n \in Chosen : result = Selected(n)
  BY <1>1 DEF IInv, Progress, TypeOK
<1>4. /\ Range(triggered') = Holds("boundary") \cap Passed("bound")'
      /\ triggered' # <<>> => \A n \in Range(triggered') : Head(triggered') <= n
      /\ \A n \in Active("boundary") \cap Passed("bound")' : flow[n].cond # "bad"
  BY <1>1, <1>2, <1>3, CollectStep
<1>5. /\ \A type : Active(type)' = Active(type) /\ Holds(type)' = Holds(type)
      /\ Chosen' = Chosen /\ \A n : Selected(n)' = Selected(n)
  BY SameFlow
<1>6. Collected(triggered, "boundary", "bound")'
  BY <1>1, <1>4, <1>5 DEF Collected
<1>7. Passed("decide")' = Passed("decide")
  BY <1>1 DEF Passed, Nodes
<1>8. Collected(matched, "decision", "decide")'
  BY <1>1, <1>3, <1>5, <1>7 DEF Collected
<1>. QED BY <1>1, <1>3, <1>5, <1>6, <1>8 DEF Progress

\* When a loop is over every node was passed.
LEMMA LoopDone ==
  ASSUME TypeOK, next \notin DOMAIN flow, NEW loop
  PROVE  Passed(loop) = Nodes
BY FlowType DEF TypeOK, Passed, Nodes

\* The base result is the documented one when the second loop begins.
LEMMA SelectStep ==
  ASSUME IInv, [Next]_vars, DecideDone, matched' = matched, triggered' = triggered,
         pc' = "bound", next' = 1,
         NEW n \in Chosen, result' = Selected(n)
  PROVE  Progress'
<1>1. /\ TypeOK /\ pc = "decide" /\ next \notin DOMAIN flow
      /\ Collected(matched, "decision", "decide") /\ triggered = <<>>
  BY DEF DecideDone, IInv, Progress
<1>2. /\ \A type : Active(type)' = Active(type) /\ Holds(type)' = Holds(type)
      /\ Chosen' = Chosen /\ \A m : Selected(m)' = Selected(m)
      /\ Nodes' = Nodes /\ flow' = flow
  BY SameFlow
<1>3. /\ Passed("decide") = Nodes /\ Passed("decide")' = Nodes
      /\ Passed("bound")' = {}
  <2>1. Passed("decide") = Nodes
    BY <1>1, LoopDone
  <2>2. \A m \in Nodes : ~(m < 1)
    BY DEF Nodes
  <2>. QED BY <1>2, <2>1, <2>2 DEF Passed
<1>4. Collected(matched, "decision", "decide")'
  BY <1>1, <1>2, <1>3 DEF Collected
<1>5. Collected(triggered, "boundary", "bound")'
  BY <1>1, <1>2, <1>3, RangeEmpty DEF Collected
<1>. QED BY <1>2, <1>4, <1>5 DEF Progress

\* At the end of the first loop the list holds the matched nodes.
LEMMA AllDecided ==
  ASSUME IInv, DecideDone
  PROVE  /\ Range(matched) = Holds("decision")
         /\ matched = <<>> <=> Holds("decision") = {}
         /\ matched # <<>> => \A n \in Range(matched) : Head(matched) <= n
         /\ \A n \in Active("decision") : flow[n].cond # "bad"
<1>1. /\ TypeOK /\ Collected(matched, "decision", "decide")
      /\ Passed("decide") = Nodes
  BY LoopDone DEF DecideDone, IInv, Progress
<1>2. Active("decision") \subseteq Nodes /\ Holds("decision") \subseteq Nodes
  BY <1>1, NodeSets
<1>3. Range(matched) = Holds("decision")
  BY <1>1, <1>2 DEF Collected
<1>4. matched = <<>> <=> Range(matched) = {}
  BY <1>1, RangeEmpty DEF TypeOK
<1>. QED BY <1>1, <1>2, <1>3, <1>4 DEF Collected

\* Every step keeps Progress.
LEMMA ProgressStep ==
  ASSUME IInv, [Next]_vars
  PROVE  Progress'
<1>0. /\ TypeOK /\ flow' = flow
      /\ \A type : Active(type)' = Active(type) /\ Holds(type)' = Holds(type)
      /\ Chosen' = Chosen /\ \A n : Selected(n)' = Selected(n)
      /\ \A n, r : ApplyEffect(n, r)' = ApplyEffect(n, r)
      /\ Nodes' = Nodes
  BY SameFlow DEF IInv
<1>1. CASE Decide
  BY <1>0, <1>1, DecideStep
<1>2. CASE Bound
  BY <1>2, BoundStep
<1>3. CASE SelectMatch
  <2>. DEFINE n == Resolve(matched)
  <2>1. DecideDone /\ matched # <<>> /\ matched' = matched /\ triggered' = triggered
        /\ pc' = "bound" /\ next' = 1
        /\ result' = [status |-> "confirmed", selected |-> n, action |-> n]
    BY <1>3 DEF SelectMatch
  <2>2. n \in Holds("decision") /\ Wins(n)
    BY <1>0, <2>1, AllDecided, ResolveWins
  <2>. HIDE DEF n
  <2>3. n \in Chosen /\ result' = Selected(n)
    BY <2>1, <2>2 DEF Chosen, Selected, Base
  <2>. QED BY <2>1, <2>3, SelectStep
<1>4. CASE SelectFallback
  <2>. DEFINE n == GetFallback
  <2>1. DecideDone /\ matched = <<>> /\ matched' = matched /\ triggered' = triggered
        /\ pc' = "bound" /\ next' = 1 /\ Fallbacks # {}
        /\ result' = [status |-> "fallback", selected |-> n, action |-> n]
    BY <1>4 DEF SelectFallback
  <2>2. Holds("decision") = {} /\ Fallbacks = Active("fallback")
        /\ n \in Fallbacks /\ \A m \in Fallbacks : n <= m
    BY <1>0, <2>1, AllDecided, NodeSets, FallbackChosen
  <2>. HIDE DEF n
  <2>3. n \in Chosen /\ result' = Selected(n)
    BY <2>1, <2>2 DEF Chosen, Selected, Base
  <2>. QED BY <2>1, <2>3, SelectStep
<1>5. CASE NoFallback \/ Raise("decide", "decision") \/ Raise("bound", "boundary")
  BY <1>5 DEF NoFallback, Raise, Progress
<1>6. CASE Apply
  <2>1. /\ pc = "bound" /\ pc' = "done" /\ next \notin DOMAIN flow
        /\ matched' = matched /\ triggered' = triggered
        /\ result' = IF triggered = <<>> THEN result
                     ELSE ApplyEffect(Dominant, result)
    BY <1>6 DEF Apply
  <2>2. /\ Collected(matched, "decision", "decide")
        /\ Collected(triggered, "boundary", "bound")
        /\ Chosen # {} /\ \E n \in Chosen : result = Selected(n)
    BY <2>1 DEF IInv, Progress
  <2>3. /\ Passed("decide") = Nodes /\ Passed("bound") = Nodes
        /\ Passed("decide")' = Nodes /\ Passed("bound")' = Nodes
    BY <1>0, <2>1, LoopDone DEF Passed
  <2>4. Collected(matched, "decision", "decide")' /\ Collected(triggered, "boundary", "bound")'
    BY <1>0, <2>1, <2>2, <2>3 DEF Collected
  <2>5. Dominant' = Dominant
    BY <1>0, <2>1 DEF Dominant
  <2>6. PICK n \in Chosen : result = Selected(n)
    BY <2>2
  <2>7. result' = IF triggered = <<>> THEN Selected(n)
                  ELSE ApplyEffect(Dominant, Selected(n))
    BY <2>1, <2>6
  <2>8. (\E m \in Chosen : result = IF triggered = <<>> THEN Selected(m)
                             ELSE ApplyEffect(Dominant, Selected(m)))'
    <3>1. (triggered = <<>>)' <=> triggered = <<>>
      BY <2>1
    <3>2. ApplyEffect(Dominant, Selected(n))' = ApplyEffect(Dominant, Selected(n))
      BY <1>0, <2>5 DEF ApplyEffect
    <3>. QED BY <1>0, <2>1, <2>6, <2>7, <3>1, <3>2
  <2>. QED BY <1>0, <2>1, <2>2, <2>4, <2>8 DEF Progress
<1>7. CASE UNCHANGED vars
  <2>1. pc' = pc /\ next' = next /\ matched' = matched /\ triggered' = triggered
        /\ result' = result
    BY <1>7 DEF vars
  <2>2. \A loop : Passed(loop)' = Passed(loop)
    BY <1>0, <2>1 DEF Passed
  <2>3. \A list, type, loop : Collected(list, type, loop)' = Collected(list, type, loop)
    BY <1>0, <2>2 DEF Collected
  <2>4. Dominant' = Dominant
    BY <1>0, <2>1 DEF Dominant
  <2>. QED BY <1>0, <2>1, <2>3, <2>4 DEF Progress, IInv
<1>. QED BY <1>1, <1>2, <1>3, <1>4, <1>5, <1>6, <1>7 DEF Next

\* Every step keeps Failures: what failed names its cause.
LEMMA FailuresStep ==
  ASSUME IInv, [Next]_vars
  PROVE  Failures'
<1>1. /\ TypeOK /\ flow' = flow
      /\ \A type : Active(type)' = Active(type) /\ Holds(type)' = Holds(type)
      /\ \A type : \A n \in Nodes : IsLive(n, type) <=> n \in Active(type)
      /\ DOMAIN flow = Nodes
  BY SameFlow, NodeSets, FlowType DEF IInv
<1>2. CASE Raise("decide", "decision")
  <2>1. pc' = "bad_condition" /\ next \in Active("decision") /\ flow[next].cond = "bad"
    BY <1>1, <1>2 DEF Raise
  <2>. QED BY <1>1, <2>1 DEF Failures
<1>3. CASE Raise("bound", "boundary")
  <2>1. /\ pc = "bound" /\ pc' = "bad_condition"
        /\ next \in Active("boundary") /\ flow[next].cond = "bad"
    BY <1>1, <1>3 DEF Raise
  <2>2. ~(Holds("decision") = {} /\ Active("fallback") = {})
    BY <2>1 DEF IInv, Progress, Chosen
  <2>. QED BY <1>1, <2>1, <2>2 DEF Failures
<1>4. CASE NoFallback
  <2>1. DecideDone /\ matched = <<>> /\ Fallbacks = {} /\ pc' = "no_fallback"
    BY <1>4 DEF NoFallback
  <2>2. Holds("decision") = {} /\ \A n \in Active("decision") : flow[n].cond # "bad"
    BY <2>1, AllDecided
  <2>3. Active("fallback") = {}
    BY <1>1, <2>1, NodeSets
  <2>. QED BY <1>1, <2>1, <2>2, <2>3 DEF Failures
<1>5. CASE Decide \/ SelectMatch \/ SelectFallback \/ Bound \/ Apply
  <2>1. pc' \in {"decide", "bound", "done"}
    BY <1>5 DEF Decide, SelectMatch, SelectFallback, Bound, Apply
  <2>. QED BY <2>1 DEF Failures
<1>6. CASE UNCHANGED vars
  BY <1>1, <1>6 DEF vars, IInv, Failures
<1>. QED BY <1>2, <1>3, <1>4, <1>5, <1>6 DEF Next

\* IInv holds at first.
LEMMA InvariantInit == Init => IInv
BY TypeInit, ProgressInit DEF IInv, Init, Failures

\* IInv is inductive.
LEMMA InvariantStep == IInv /\ [Next]_vars => IInv'
BY TypeStep, ProgressStep, FailuresStep DEF IInv

\* IInv is an invariant.
LEMMA Invariant == Spec => []IInv
BY InvariantInit, InvariantStep, PTL DEF Spec

-----------------------------------------------------------------------------
(* The theorems.                                                           *)

\* What the lists hold when there is a result.
LEMMA AllCollected ==
  ASSUME IInv, pc = "done"
  PROVE  /\ Range(matched) = Holds("decision") /\ Range(triggered) = Holds("boundary")
         /\ matched = <<>> <=> Holds("decision") = {}
         /\ triggered = <<>> <=> Holds("boundary") = {}
         /\ \A type \in {"decision", "boundary"} :
              \A n \in Active(type) : flow[n].cond # "bad"
<1>1. /\ TypeOK /\ Collected(matched, "decision", "decide")
      /\ Collected(triggered, "boundary", "bound")
      /\ Passed("decide") = Nodes /\ Passed("bound") = Nodes
  BY DEF IInv, Progress, Passed
<1>2. \A type : Active(type) \subseteq Nodes /\ Holds(type) \subseteq Nodes
  BY <1>1, NodeSets
<1>3. Range(matched) = Holds("decision") /\ Range(triggered) = Holds("boundary")
  BY <1>1, <1>2 DEF Collected
<1>4. /\ matched = <<>> <=> Range(matched) = {}
      /\ triggered = <<>> <=> Range(triggered) = {}
  BY <1>1, RangeEmpty DEF TypeOK
<1>. QED BY <1>1, <1>2, <1>3, <1>4 DEF Collected

\* An evaluation gives a result exactly when every condition in use can be
\* evaluated and there is a node to select, in whatever order the nodes are
\* declared: no match and no boundary ends a loop of _pure_evaluate or of
\* BoundaryEngine.apply before it meets a bad condition.
THEOREM ErrorsSurface == Spec => []ErrorsAreNotAbsorbed
<1>1. ASSUME IInv PROVE ErrorsAreNotAbsorbed
  <2>1. pc = "done" => Chosen # {} /\ \A type \in {"decision", "boundary"} :
                         \A n \in Active(type) : flow[n].cond # "bad"
    BY <1>1, AllCollected DEF IInv, Progress
  <2>2. Chosen # {} => ~(Holds("decision") = {} /\ Active("fallback") = {})
    BY DEF Chosen
  <2>. QED BY <1>1, <2>1, <2>2 DEF IInv, Failures, ErrorsAreNotAbsorbed
<1>. QED BY <1>1, Invariant, PTL

\* What ApplyEffect makes of the selection, field by field.
LEMMA EffectFields ==
  ASSUME TypeOK, NEW b \in Nodes, NEW n,
         NEW r, r = ApplyEffect(b, Selected(n)), NEW e, e = flow[b].effect
  PROVE  /\ r.status = CASE e = "block" -> "blocked"
                         [] e = "escalate" -> "pending_human"
                         [] OTHER -> Base
         /\ r.action = CASE e = "block" -> NoNode
                         [] e \in {"override", "redirect"} -> b
                         [] OTHER -> n
         /\ r.selected = IF e \in {"override", "redirect", "escalate"} THEN b ELSE n
<1>1. /\ Selected(n).status = Base /\ Selected(n).action = n /\ Selected(n).selected = n
      /\ DOMAIN Selected(n) = {"status", "selected", "action"}
  BY DEF Selected
<1>2. CASE e = "block"
  <2>1. r = [Selected(n) EXCEPT !.status = "blocked", !.action = NoNode]
    BY <1>2 DEF ApplyEffect
  <2>. QED BY <1>1, <1>2, <2>1
<1>3. CASE e \in {"override", "redirect"}
  <2>1. r = [Selected(n) EXCEPT !.action = b, !.selected = b]
    BY <1>3 DEF ApplyEffect
  <2>. QED BY <1>1, <1>3, <2>1
<1>4. CASE e = "escalate"
  <2>1. r = [Selected(n) EXCEPT !.status = "pending_human", !.selected = b]
    BY <1>4 DEF ApplyEffect
  <2>. QED BY <1>1, <1>4, <2>1
<1>5. CASE e \notin {"block", "override", "redirect", "escalate"}
  <2>1. r = Selected(n)
    BY <1>5 DEF ApplyEffect
  <2>. QED BY <1>1, <1>5, <2>1
<1>. QED BY <1>2, <1>3, <1>4, <1>5

\* The result is the one runtime-policy.md promises, for every flow: the action
\* is the winner's or that of the boundary that replaced it, and the status is
\* what the dominant boundary makes of it (_resolve, _apply_effect).
THEOREM ResultIsDocumented == Spec => []ResultFollowsPolicy
<1>1. ASSUME IInv, pc = "done" PROVE ResultFollowsPolicy
  <2>. DEFINE tops == {n \in Holds("boundary") : Dominates(n)}
  <2>1. TypeOK
    BY <1>1 DEF IInv
  <2>2. PICK n \in Chosen :
          result = IF triggered = <<>> THEN Selected(n)
                   ELSE ApplyEffect(Dominant, Selected(n))
    BY <1>1 DEF IInv, Progress
  <2>3. CASE triggered = <<>>
    <3>1. tops = {} /\ result = Selected(n)
      BY <1>1, <2>2, <2>3, AllCollected
    <3>2. \E m \in Chosen : result = [status |-> Base, selected |-> m, action |-> m]
      BY <2>2, <3>1 DEF Selected
    <3>. QED BY <1>1, <3>1, <3>2 DEF ResultFollowsPolicy, Chosen, Base
  <2>4. CASE triggered # <<>>
    <3>1. tops = {Dominant} /\ Dominant \in Nodes
      <4>1. tops = {Dominant}
        BY <1>1, <2>1, <2>4, AllCollected, DominantDominates
      <4>. QED BY <2>1, <4>1, NodeSets
    <3>. DEFINE b == Dominant
                e == flow[b].effect
    <3>2. /\ result.status = CASE e = "block" -> "blocked"
                               [] e = "escalate" -> "pending_human"
                               [] OTHER -> Base
          /\ result.action = CASE e = "block" -> NoNode
                               [] e \in {"override", "redirect"} -> b
                               [] OTHER -> n
          /\ result.selected = IF e \in {"override", "redirect", "escalate"} THEN b ELSE n
      BY <2>1, <2>2, <2>4, <3>1, EffectFields
    <3>. QED BY <1>1, <2>2, <3>1, <3>2 DEF ResultFollowsPolicy, Chosen, Base
  <2>. QED BY <2>3, <2>4
<1>2. IInv => ResultFollowsPolicy
  BY <1>1 DEF ResultFollowsPolicy
<1>. QED BY <1>2, Invariant, PTL

-----------------------------------------------------------------------------
(* The abstraction.                                                        *)

\* The order in which the types of nodes are recorded, and written.
Rank == [decision |-> 1, fallback |-> 2, boundary |-> 3]

TypesOf == {records[i].type : i \in 1..Len(records)}

\* The records are in the order of their types, and hold a type exactly when a
\* node of the type was used.
Recorded ==
  /\ \A i, j \in 1..Len(records) :
       i <= j => Rank[records[i].type] <= Rank[records[j].type]
  /\ pc \in {"decide", "bound", "done"} =>
       /\ "decision" \in TypesOf <=> Active("decision") \cap Passed("decide") # {}
       /\ "fallback" \in TypesOf <=> pc # "decide" /\ matched = <<>>
       /\ "boundary" \in TypesOf <=>
            pc # "decide" /\ Active("boundary") \cap Passed("bound") # {}

\* Decision nodes are written before the fallback, and it before boundaries.
LEMMA RankType ==
  /\ \A x \in NodeKind : Rank[x] \in Nat
  /\ \A x, y \in NodeKind : Rank[x] = Rank[y] => x = y
  /\ Rank["decision"] < Rank["fallback"] /\ Rank["fallback"] < Rank["boundary"]
BY DEF Rank, NodeKind

\* Records are of the three kinds of node.
LEMMA RecordsType ==
  ASSUME TypeOK
  PROVE  /\ Len(records) \in Nat /\ TypesOf \subseteq NodeKind
         /\ \A i \in 1..Len(records) : records[i].type \in NodeKind
<1>. DEFINE Rec == [type : NodeKind, node : Nodes]
<1>1. records \in Seq(Rec) /\ \A r \in Rec : r.type \in NodeKind
  BY DEF TypeOK
<1>. HIDE DEF Rec
<1>2. Len(records) \in Nat /\ \A i \in 1..Len(records) : records[i] \in Rec
  BY <1>1
<1>. QED BY <1>1, <1>2 DEF TypesOf

\* A record of a type no earlier than the others keeps the records in order.
LEMMA RecordAdds ==
  ASSUME TypeOK, NEW type \in NodeKind, NEW n, Record(type, n),
         \A i, j \in 1..Len(records) :
           i <= j => Rank[records[i].type] <= Rank[records[j].type],
         \A x \in TypesOf : Rank[x] <= Rank[type]
  PROVE  /\ TypesOf' = TypesOf \cup {type}
         /\ \A i, j \in 1..Len(records') :
              i <= j => Rank[records'[i].type] <= Rank[records'[j].type]
<1>. DEFINE r == [type |-> type, node |-> n]
<1>1. r.type = type /\ Len(records) \in Nat
  BY RecordsType
<1>. HIDE DEF r
<1>2. records' = Append(records, r)
  BY DEF Record, r
<1>3. /\ Len(records') = Len(records) + 1 /\ records'[Len(records) + 1] = r
      /\ \A i \in 1..Len(records) : records'[i] = records[i]
  BY <1>2 DEF TypeOK
<1>4. 1..Len(records') = (1..Len(records)) \cup {Len(records) + 1}
  BY <1>1, <1>3
<1>5. TypesOf' = TypesOf \cup {type}
  <2>1. TypesOf' = {records'[i].type : i \in 1..Len(records')}
    BY DEF TypesOf
  <2>. QED BY <1>1, <1>3, <1>4, <2>1 DEF TypesOf
<1>6. ASSUME NEW i \in 1..Len(records'), NEW j \in 1..Len(records'), i <= j
      PROVE  Rank[records'[i].type] <= Rank[records'[j].type]
  <2>1. CASE i \in 1..Len(records) /\ j \in 1..Len(records)
    BY <1>3, <1>6, <2>1
  <2>2. CASE i \in 1..Len(records) /\ j = Len(records) + 1
    BY <1>1, <1>3, <2>2 DEF TypesOf
  <2>3. CASE i = Len(records) + 1
    <3>1. j = Len(records) + 1
      BY <1>1, <1>4, <1>6, <2>3
    <3>. QED BY <1>1, <1>3, <2>3, <3>1, RankType
  <2>. QED BY <1>4, <2>1, <2>2, <2>3
<1>. QED BY <1>5, <1>6

\* Recorded holds before the first node.
LEMMA RecordedInit == Init => Recorded
<1>. SUFFICES ASSUME Init PROVE Recorded
  OBVIOUS
<1>1. TypeOK
  BY TypeInit
<1>2. pc = "decide" /\ next = 1 /\ records = <<>>
  BY DEF Init
<1>3. Passed("decide") = {}
  BY <1>1, <1>2, FlowType DEF Passed
<1>4. 1..Len(records) = {}
  BY <1>2
<1>5. TypesOf = {}
  BY <1>4 DEF TypesOf
<1>. QED BY <1>2, <1>3, <1>4, <1>5 DEF Recorded

\* The loop over the nodes of a type has passed one of them when it has just
\* recorded it, or had before.
LEMMA PassedStep ==
  ASSUME TypeOK, NEW type, NEW loop, pc = loop, next \in Nodes,
         flow' = flow, pc' = pc, next' = next + 1
  PROVE  Active(type) \cap Passed(loop)' # {}
           <=> IsLive(next, type) \/ Active(type) \cap Passed(loop) # {}
<1>1. Nodes' = Nodes /\ Nodes \subseteq Nat /\ next \in Nat
  BY FlowType DEF Nodes
<1>2. Passed(loop)' = Passed(loop) \cup {next}
  <2>1. \A n \in Nodes : n < next + 1 <=> n < next \/ n = next
    BY <1>1
  <2>. QED BY <1>1, <2>1 DEF Passed
<1>3. IsLive(next, type) <=> next \in Active(type)
  BY NodeSets
<1>. QED BY <1>2, <1>3

\* A record of a decision node keeps Recorded.
LEMMA RecordedDecide ==
  ASSUME IInv, Recorded, Decide, [Next]_vars
  PROVE  Recorded'
<1>1. /\ TypeOK /\ pc = "decide" /\ pc' = "decide" /\ next' = next + 1
      /\ next \in Nodes /\ flow' = flow
  BY FlowType DEF Decide, IInv
<1>2. /\ Active("decision")' = Active("decision")
      /\ Active("decision") \cap Passed("decide")' # {}
           <=> IsLive(next, "decision") \/ Active("decision") \cap Passed("decide") # {}
  BY <1>1, PassedStep, SameFlow
<1>3. TypesOf \subseteq {"decision"}
  BY <1>1, RecordsType DEF Recorded, NodeKind
<1>4. CASE IsLive(next, "decision")
  <2>1. Record("decision", next) /\ "decision" \in NodeKind
    BY <1>4 DEF Decide, NodeKind
  <2>2. \A x \in TypesOf : Rank[x] <= Rank["decision"]
    BY <1>3, RankType DEF NodeKind
  <2>3. /\ TypesOf' = TypesOf \cup {"decision"}
        /\ \A i, j \in 1..Len(records') :
             i <= j => Rank[records'[i].type] <= Rank[records'[j].type]
    BY <1>1, <2>1, <2>2, RecordAdds DEF Recorded
  <2>. QED BY <1>1, <1>2, <1>3, <1>4, <2>3 DEF Recorded
<1>5. CASE ~IsLive(next, "decision")
  <2>1. records' = records /\ TypesOf' = TypesOf
    BY <1>5 DEF Decide, TypesOf
  <2>. QED BY <1>1, <1>2, <1>3, <1>5, <2>1 DEF Recorded
<1>. QED BY <1>4, <1>5

\* A record of a boundary node keeps Recorded.
LEMMA RecordedBound ==
  ASSUME IInv, Recorded, Bound, [Next]_vars
  PROVE  Recorded'
<1>1. /\ TypeOK /\ pc = "bound" /\ pc' = "bound" /\ next' = next + 1
      /\ next \in Nodes /\ flow' = flow /\ matched' = matched
  BY FlowType DEF Bound, IInv, GoOn
<1>2. /\ \A type : Active(type)' = Active(type)
      /\ Active("boundary") \cap Passed("bound")' # {}
           <=> IsLive(next, "boundary") \/ Active("boundary") \cap Passed("bound") # {}
  BY <1>1, PassedStep, SameFlow
<1>3. Passed("decide")' = Passed("decide")
  BY <1>1 DEF Passed, Nodes
<1>4. CASE IsLive(next, "boundary")
  <2>1. Record("boundary", next) /\ "boundary" \in NodeKind
    BY <1>4 DEF Bound, NodeKind
  <2>2. \A x \in TypesOf : Rank[x] <= Rank["boundary"]
    BY <1>1, RecordsType, RankType DEF NodeKind
  <2>3. /\ TypesOf' = TypesOf \cup {"boundary"}
        /\ \A i, j \in 1..Len(records') :
             i <= j => Rank[records'[i].type] <= Rank[records'[j].type]
    BY <1>1, <2>1, <2>2, RecordAdds DEF Recorded
  <2>. QED BY <1>1, <1>2, <1>3, <1>4, <2>3 DEF Recorded
<1>5. CASE ~IsLive(next, "boundary")
  <2>1. records' = records /\ TypesOf' = TypesOf
    BY <1>5 DEF Bound, TypesOf
  <2>. QED BY <1>1, <1>2, <1>3, <1>5, <2>1 DEF Recorded
<1>. QED BY <1>4, <1>5

\* A record of the fallback, or none, keeps Recorded.
LEMMA RecordedSelect ==
  ASSUME IInv, Recorded, [Next]_vars, SelectMatch \/ SelectFallback
  PROVE  Recorded'
<1>1. /\ TypeOK /\ DecideDone /\ pc = "decide" /\ next \notin DOMAIN flow
      /\ pc' = "bound" /\ next' = 1 /\ matched' = matched
  BY DEF SelectMatch, SelectFallback, DecideDone, IInv
<1>2. /\ \A type : Active(type)' = Active(type)
      /\ Nodes' = Nodes
  BY SameFlow
<1>3. Passed("decide") = Nodes /\ Passed("decide")' = Nodes /\ Passed("bound")' = {}
  <2>1. \A m \in Nodes : ~(m < 1)
    BY DEF Nodes
  <2>. QED BY <1>1, <1>2, <2>1, LoopDone DEF Passed
<1>4. TypesOf \subseteq {"decision"}
  BY <1>1, RecordsType DEF Recorded, NodeKind
<1>5. CASE SelectMatch
  <2>1. records' = records /\ TypesOf' = TypesOf /\ matched # <<>>
    BY <1>5 DEF SelectMatch, TypesOf
  <2>. QED BY <1>1, <1>2, <1>3, <1>4, <2>1 DEF Recorded
<1>6. CASE SelectFallback
  <2>1. Record("fallback", GetFallback) /\ matched = <<>> /\ "fallback" \in NodeKind
    BY <1>6 DEF SelectFallback, NodeKind
  <2>2. \A x \in TypesOf : Rank[x] <= Rank["fallback"]
    BY <1>4, RankType DEF NodeKind
  <2>3. /\ TypesOf' = TypesOf \cup {"fallback"}
        /\ \A i, j \in 1..Len(records') :
             i <= j => Rank[records'[i].type] <= Rank[records'[j].type]
    BY <1>1, <2>1, <2>2, RecordAdds DEF Recorded
  <2>. QED BY <1>1, <1>2, <1>3, <1>4, <2>1, <2>3 DEF Recorded
<1>. QED BY <1>5, <1>6

\* Every step keeps Recorded.
LEMMA RecordedStep ==
  ASSUME IInv, Recorded, [Next]_vars
  PROVE  Recorded'
<1>1. flow' = flow /\ Nodes' = Nodes /\ \A type : Active(type)' = Active(type)
  BY SameFlow
<1>2. CASE Decide
  BY <1>2, RecordedDecide
<1>3. CASE Bound
  BY <1>3, RecordedBound
<1>4. CASE SelectMatch \/ SelectFallback
  BY <1>4, RecordedSelect
<1>5. CASE NoFallback \/ Raise("decide", "decision") \/ Raise("bound", "boundary")
  BY <1>5 DEF NoFallback, Raise, Recorded
<1>6. CASE Apply
  <2>1. /\ pc = "bound" /\ pc' = "done" /\ next \notin DOMAIN flow
        /\ matched' = matched /\ records' = records /\ TypesOf' = TypesOf
    BY <1>6 DEF Apply, TypesOf
  <2>2. /\ Passed("decide") = Nodes /\ Passed("bound") = Nodes
        /\ Passed("decide")' = Nodes /\ Passed("bound")' = Nodes
    BY <1>1, <2>1, LoopDone DEF Passed, IInv
  <2>. QED BY <1>1, <2>1, <2>2 DEF Recorded
<1>7. CASE UNCHANGED vars
  <2>1. /\ pc' = pc /\ matched' = matched /\ records' = records /\ TypesOf' = TypesOf
        /\ \A loop : Passed(loop)' = Passed(loop)
    BY <1>1, <1>7 DEF vars, TypesOf, Passed
  <2>. QED BY <1>1, <2>1 DEF Recorded
<1>. QED BY <1>2, <1>3, <1>4, <1>5, <1>6, <1>7 DEF Next

\* The positions of the node events are those of their types' ranks, and at most
\* one event is written for a type.
Written(kinds) ==
  \A k, l \in DOMAIN kinds : kinds[k] \in NodeKind /\ kinds[l] \in NodeKind =>
    (k < l <=> Rank[kinds[k]] < Rank[kinds[l]])

\* A record of the type that is next in line extends what is written.
LEMMA WrittenAppend ==
  ASSUME NEW s \in Seq(Kind), NEW x \in Kind, Written(s),
         x \in NodeKind =>
           \A y \in Range(s) \cap NodeKind : Rank[y] < Rank[x]
  PROVE  /\ Append(s, x) \in Seq(Kind) /\ Written(Append(s, x))
         /\ Range(Append(s, x)) = Range(s) \cup {x}
<1>1. /\ DOMAIN s = 1..Len(s) /\ Len(s) \in Nat
      /\ DOMAIN Append(s, x) = 1..Len(s) + 1
      /\ \A i \in 1..Len(s) : Append(s, x)[i] = s[i] /\ s[i] \in Range(s)
      /\ Append(s, x)[Len(s) + 1] = x
  BY RangeType
<1>2. 1..Len(s) + 1 = (1..Len(s)) \cup {Len(s) + 1}
      /\ \A i \in 1..Len(s) : i < Len(s) + 1 /\ ~(Len(s) + 1 < i)
      /\ ~(Len(s) + 1 < Len(s) + 1)
  BY <1>1
<1>3. Written(Append(s, x))
  <2>. DEFINE t == Append(s, x)
              n == Len(s) + 1
  <2>1. DOMAIN t = DOMAIN s \cup {n} /\ t[n] = x
        /\ \A i \in DOMAIN s : t[i] = s[i] /\ s[i] \in Range(s) /\ i < n /\ ~(n < i)
        /\ ~(n < n)
    BY <1>1, <1>2
  <2>. HIDE DEF t, n
  <2>2. ASSUME NEW k \in DOMAIN t, NEW l \in DOMAIN t, t[k] \in NodeKind, t[l] \in NodeKind
        PROVE  k < l <=> Rank[t[k]] < Rank[t[l]]
    <3>1. CASE k \in DOMAIN s /\ l \in DOMAIN s
      BY <2>1, <2>2, <3>1 DEF Written
    <3>2. CASE k \in DOMAIN s /\ l = n
      BY <2>1, <2>2, <3>2
    <3>3. CASE k = n /\ l \in DOMAIN s
      <4>1. Rank[s[l]] < Rank[x] /\ ~(k < l) /\ t[k] = x /\ t[l] = s[l]
        BY <2>1, <2>2, <3>3
      <4>2. Rank[s[l]] \in Nat /\ Rank[x] \in Nat
        BY <2>2, <4>1, RankType
      <4>. QED BY <4>1, <4>2
    <3>4. CASE k = n /\ l = n
      <4>1. t[k] = x /\ Rank[x] \in Nat
        BY <2>1, <2>2, <3>4, RankType
      <4>. QED BY <2>1, <3>4, <4>1
    <3>. QED BY <2>1, <3>1, <3>2, <3>3, <3>4
  <2>3. Written(t)
    BY <2>2 DEF Written
  <2>. QED BY <2>3 DEF t
<1>. QED BY <1>3, RangeAppend

\* Which node events BuildEvents writes, and in which order.
LEMMA BuildEventsNodes ==
  ASSUME NEW d \in Decision
  PROVE  /\ BuildEvents(d) \in Seq(Kind) /\ Written(BuildEvents(d))
         /\ "decision" \in Range(BuildEvents(d))
         /\ "fallback" \in Range(BuildEvents(d)) <=> ~d.matched
         /\ "boundary" \in Range(BuildEvents(d)) <=> d.effect # "none"
<1>. DEFINE s1 == <<"signal", "decision">>
            s2 == s1 \o (IF d.matched THEN <<>> ELSE <<"fallback">>)
            s3 == s2 \o (IF d.effect = "none" THEN <<>> ELSE <<"boundary">>)
            s4 == s3 \o (IF StatusOf(d) = "pending_human" THEN <<"human">> ELSE <<>>)
            s5 == Append(s4, "outcome")
<1>1. \A x \in {"signal", "decision", "fallback", "boundary", "human", "outcome"} :
        x \in Kind /\ (x \in NodeKind <=> x \in {"decision", "fallback", "boundary"})
  BY DEF Kind, NodeKind
<1>2. BuildEvents(d) = s4 \o <<"outcome">>
  BY DEF BuildEvents
<1>3. s1 \in Seq(Kind) /\ Written(s1) /\ Range(s1) = {"signal", "decision"}
  <2>1. /\ s1 \in Seq(Kind) /\ DOMAIN s1 = {1, 2}
        /\ s1[1] = "signal" /\ s1[2] = "decision"
    BY <1>1
  <2>. HIDE DEF s1
  <2>2. Range(s1) = {"signal", "decision"}
    BY <2>1 DEF Range
  <2>3. Written(s1)
    <3>1. \A k \in DOMAIN s1 : s1[k] \in NodeKind => k = 2 /\ s1[k] = "decision"
      BY <1>1, <2>1
    <3>2. ~(2 < 2) /\ ~(Rank["decision"] < Rank["decision"])
      BY RankType DEF NodeKind
    <3>. QED BY <3>1, <3>2 DEF Written
  <2>. QED BY <2>1, <2>2, <2>3
<1>. HIDE DEF s1
<1>5. /\ s2 \in Seq(Kind) /\ Written(s2)
      /\ Range(s2) = Range(s1) \cup (IF d.matched THEN {} ELSE {"fallback"})
  <2>1. CASE d.matched
    <3>1. s2 = s1
      BY <1>3, <2>1
    <3>. QED BY <1>3, <2>1, <3>1
  <2>2. CASE ~d.matched
    <3>1. s2 = Append(s1, "fallback")
      BY <1>1, <1>3, <2>2, AppendIsConcat
    <3>2. \A y \in Range(s1) \cap NodeKind : Rank[y] < Rank["fallback"]
      BY <1>1, <1>3, RankType
    <3>. QED BY <1>1, <1>3, <2>2, <3>1, <3>2, WrittenAppend
  <2>. QED BY <2>1, <2>2
<1>. HIDE DEF s2
<1>6. /\ s3 \in Seq(Kind) /\ Written(s3)
      /\ Range(s3) = Range(s2) \cup (IF d.effect = "none" THEN {} ELSE {"boundary"})
  <2>1. CASE d.effect = "none"
    <3>1. s3 = s2
      BY <1>5, <2>1
    <3>. QED BY <1>5, <2>1, <3>1
  <2>2. CASE d.effect # "none"
    <3>1. s3 = Append(s2, "boundary")
      BY <1>1, <1>5, <2>2, AppendIsConcat
    <3>2. \A y \in Range(s2) \cap NodeKind : y \in {"decision", "fallback"}
      BY <1>1, <1>3, <1>5
    <3>3. \A y \in Range(s2) \cap NodeKind : Rank[y] < Rank["boundary"]
      BY <3>2, RankType DEF NodeKind
    <3>4. /\ s3 \in Seq(Kind) /\ Written(s3) /\ Range(s3) = Range(s2) \cup {"boundary"}
      <4>1. "boundary" \in Kind
        BY <1>1
      <4>. HIDE DEF s3
      <4>. QED BY <1>5, <3>1, <3>3, <4>1, WrittenAppend
    <3>. HIDE DEF s3
    <3>. QED BY <2>2, <3>4
  <2>. QED BY <2>1, <2>2
<1>. HIDE DEF s3
<1>7. /\ s4 \in Seq(Kind) /\ Written(s4) /\ Range(s4) \ {"human"} = Range(s3) \ {"human"}
  <2>1. CASE StatusOf(d) # "pending_human"
    <3>1. s4 = s3
      BY <1>6, <2>1
    <3>. QED BY <1>6, <3>1
  <2>2. CASE StatusOf(d) = "pending_human"
    <3>1. s4 = Append(s3, "human")
      BY <1>1, <1>6, <2>2, AppendIsConcat
    <3>2. "human" \in Kind /\ "human" \notin NodeKind
      BY <1>1
    <3>. HIDE DEF s4
    <3>3. s4 \in Seq(Kind) /\ Written(s4) /\ Range(s4) = Range(s3) \cup {"human"}
      BY <1>6, <3>1, <3>2, WrittenAppend
    <3>. QED BY <3>3
  <2>. QED BY <2>1, <2>2
<1>. HIDE DEF s4
<1>8. /\ s5 \in Seq(Kind) /\ Written(s5) /\ Range(s5) = Range(s4) \cup {"outcome"}
  BY <1>1, <1>7, WrittenAppend
<1>9. BuildEvents(d) = s5
  BY <1>1, <1>2, <1>7, AppendIsConcat
<1>10. \A x \in {"decision", "fallback", "boundary"} :
         x \in Range(s5) <=> x \in Range(s3)
  BY <1>7, <1>8
<1>. HIDE DEF s5
<1>11. "decision" \in Range(s3)
  BY <1>3, <1>5, <1>6
<1>12. "fallback" \in Range(s3) <=> ~d.matched
  BY <1>3, <1>5, <1>6
<1>13. "boundary" \in Range(s3) <=> d.effect # "none"
  BY <1>3, <1>5, <1>6
<1>. QED BY <1>8, <1>9, <1>10, <1>11, <1>12, <1>13

\* The two facts the pipeline branches on, read off the flow.
LEMMA AbstractFacts ==
  ASSUME IInv, pc = "done"
  PROVE  /\ AbstractDecision \in Decision
         /\ AbstractDecision.matched <=> matched # <<>>
         /\ AbstractDecision.effect = "none" <=> Active("boundary") = {}
         /\ triggered = <<>> => AbstractDecision.effect \in {"none", "allow"}
         /\ triggered # <<>> => AbstractDecision.effect =
              IF flow[Dominant].effect \in {"block", "escalate"}
              THEN flow[Dominant].effect ELSE "allow"
<1>. DEFINE e == IF Active("boundary") = {} THEN "none"
                 ELSE IF triggered = <<>> THEN "allow"
                 ELSE IF flow[Dominant].effect \in {"block", "escalate"}
                      THEN flow[Dominant].effect ELSE "allow"
<1>1. AbstractDecision = [matched |-> matched # <<>>, effect |-> e]
  BY DEF AbstractDecision
<1>2. e \in Effect /\ (e = "none" <=> Active("boundary") = {})
  BY DEF Effect
<1>3. triggered # <<>> => Active("boundary") # {}
  BY AllCollected, NodeSets DEF IInv
<1>4. /\ triggered = <<>> => e \in {"none", "allow"}
      /\ triggered # <<>> => e = IF flow[Dominant].effect \in {"block", "escalate"}
                                 THEN flow[Dominant].effect ELSE "allow"
  BY <1>3
<1>. HIDE DEF e
<1>5. AbstractDecision.effect = e /\ AbstractDecision.matched = (matched # <<>>)
  BY <1>1
<1>6. AbstractDecision \in Decision
  BY <1>1, <1>2 DEF Decision
<1>. QED BY <1>2, <1>4, <1>5, <1>6

\* The status is that of the abstract decision.
LEMMA StatusAbstracted ==
  ASSUME IInv, pc = "done"
  PROVE  result.status = StatusOf(AbstractDecision)
<1>1. PICK n \in Chosen :
        result = IF triggered = <<>> THEN Selected(n)
                 ELSE ApplyEffect(Dominant, Selected(n))
  BY DEF IInv, Progress
<1>2. Base = IF matched # <<>> THEN "confirmed" ELSE "fallback"
  BY AllCollected DEF Base
<1>3. CASE triggered = <<>>
  <2>1. result.status = Base
    BY <1>1, <1>3 DEF Selected
  <2>. QED BY <1>2, <1>3, <2>1, AbstractFacts DEF StatusOf
<1>4. CASE triggered # <<>>
  <2>. DEFINE e == flow[Dominant].effect
  <2>1. Dominant \in Nodes
    BY <1>4, AllCollected, DominantDominates, NodeSets DEF IInv
  <2>2. result.status = CASE e = "block" -> "blocked"
                          [] e = "escalate" -> "pending_human"
                          [] OTHER -> Base
    BY <1>1, <1>4, <2>1, EffectFields DEF IInv
  <2>3. result.status = IF e = "block" THEN "blocked"
                        ELSE IF e = "escalate" THEN "pending_human" ELSE Base
    BY <2>2, Zenon
  <2>4. AbstractDecision.effect = IF e \in {"block", "escalate"} THEN e ELSE "allow"
    BY <1>4, AbstractFacts
  <2>. HIDE DEF e
  <2>. QED BY <1>2, <2>3, <2>4, AbstractFacts DEF StatusOf
<1>. QED BY <1>3, <1>4

\* Every record has its event, and every node event its records.
LEMMA RecordsWritten ==
  ASSUME IInv, Recorded, pc = "done", Active("decision") # {},
         NEW kinds, kinds = BuildEvents(AbstractDecision)
  PROVE  WrittenAs([i \in DOMAIN records |-> records[i].type], kinds)
<1>. DEFINE types == [i \in DOMAIN records |-> records[i].type]
            nodes == {k \in DOMAIN kinds : kinds[k] \in NodeKind}
            place(x) == CHOOSE k \in nodes : kinds[k] = x
            at == [i \in DOMAIN types |-> place(types[i])]
<1>1. /\ DOMAIN types = 1..Len(records) /\ Len(records) \in Nat
      /\ \A i \in DOMAIN types : types[i] = records[i].type /\ types[i] \in NodeKind
      /\ TypesOf = {types[i] : i \in DOMAIN types}
  BY RecordsType DEF IInv, TypeOK, TypesOf
<1>2. /\ kinds \in Seq(Kind) /\ Written(kinds)
      /\ "decision" \in Range(kinds)
      /\ "fallback" \in Range(kinds) <=> matched = <<>>
      /\ "boundary" \in Range(kinds) <=> Active("boundary") # {}
  BY BuildEventsNodes, AbstractFacts
<1>3. Range(kinds) \cap NodeKind = TypesOf
  <2>1. \A type : Active(type) \cap Passed("decide") = Active(type)
                  /\ Active(type) \cap Passed("bound") = Active(type)
    BY NodeSets DEF IInv, Passed
  <2>2. /\ "decision" \in TypesOf
        /\ "fallback" \in TypesOf <=> matched = <<>>
        /\ "boundary" \in TypesOf <=> Active("boundary") # {}
    BY <2>1 DEF Recorded
  <2>3. TypesOf \subseteq NodeKind
    BY RecordsType DEF IInv
  <2>. QED BY <1>2, <2>2, <2>3 DEF NodeKind
<1>4. {kinds[k] : k \in nodes} = TypesOf
  BY <1>3 DEF Range
<1>5. \A k, l \in nodes : k < l <=> Rank[kinds[k]] < Rank[kinds[l]]
  BY <1>2 DEF Written
<1>6. \A k \in nodes : k \in Nat /\ kinds[k] \in NodeKind
  BY <1>2
<1>7. \A k, l \in nodes : kinds[k] = kinds[l] => k = l
  <2>. SUFFICES ASSUME NEW k \in nodes, NEW l \in nodes, kinds[k] = kinds[l]
                PROVE  k = l
    OBVIOUS
  <2>1. k \in Nat /\ l \in Nat /\ Rank[kinds[k]] \in Nat
    BY <1>6, RankType
  <2>2. ~(k < l) /\ ~(l < k)
    BY <1>5, <2>1
  <2>. QED BY <2>1, <2>2
<1>. HIDE DEF nodes, types
<1>8. \A i \in DOMAIN types : place(types[i]) \in nodes /\ kinds[place(types[i])] = types[i]
  <2>. SUFFICES ASSUME NEW i \in DOMAIN types
                PROVE  place(types[i]) \in nodes /\ kinds[place(types[i])] = types[i]
    OBVIOUS
  <2>1. \E k \in nodes : kinds[k] = types[i]
    BY <1>1, <1>4
  <2>. QED BY <2>1
<1>9. /\ at \in [DOMAIN types -> nodes]
      /\ \A i \in DOMAIN types : at[i] \in nodes /\ kinds[at[i]] = types[i]
      /\ DOMAIN at = DOMAIN types
  BY <1>8
<1>. HIDE DEF at, place
<1>10. Range(at) = nodes
  <2>1. ASSUME NEW k \in nodes PROVE k \in Range(at)
    <3>1. PICK i \in DOMAIN types : types[i] = kinds[k]
      BY <1>1, <1>4
    <3>2. at[i] = k
      BY <1>7, <1>9, <3>1
    <3>. QED BY <1>9, <3>2 DEF Range
  <2>2. Range(at) \subseteq nodes
    BY <1>9 DEF Range
  <2>. QED BY <2>1, <2>2
<1>11. ASSUME NEW i \in DOMAIN types, i + 1 \in DOMAIN types
       PROVE  IF types[i] = types[i + 1] THEN at[i] = at[i + 1] ELSE at[i] < at[i + 1]
  <2>1. CASE types[i] = types[i + 1]
    BY <1>7, <1>9, <1>11, <2>1
  <2>2. CASE types[i] # types[i + 1]
    <3>1. Rank[types[i]] <= Rank[types[i + 1]]
      <4>1. i \in 1..Len(records) /\ i + 1 \in 1..Len(records) /\ i <= i + 1
        BY <1>1, <1>11
      <4>. QED BY <1>1, <1>11, <4>1 DEF Recorded
    <3>2. Rank[types[i]] < Rank[types[i + 1]]
      BY <1>1, <1>11, <2>2, <3>1, RankType
    <3>3. at[i] < at[i + 1]
      BY <1>5, <1>9, <1>11, <3>2
    <3>. QED BY <2>2, <3>3
  <2>. QED BY <2>1, <2>2
<1>12. WrittenAs(types, kinds)
  BY <1>9, <1>10, <1>11 DEF WrittenAs, nodes
<1>. QED BY <1>12 DEF types

\* DecisionRuntime's abstraction of a flow loses nothing its pipeline depends
\* on, however many nodes the flow has: the status is that of the abstract
\* decision, and _build_events writes an event for every record.
THEOREM AbstractionHolds == Spec => []AbstractionIsFaithful
<1>1. Spec => [](IInv /\ Recorded)
  <2>1. IInv /\ Recorded /\ [Next]_vars => (IInv /\ Recorded)'
    BY InvariantStep, RecordedStep
  <2>. QED BY <2>1, InvariantInit, RecordedInit, PTL DEF Spec
<1>2. IInv /\ Recorded => AbstractionIsFaithful
  BY StatusAbstracted, RecordsWritten DEF AbstractionIsFaithful
<1>. QED BY <1>1, <1>2, PTL

-----------------------------------------------------------------------------
(* Entries at positions.                                                   *)

\* The positions before one of them.
Below(I, i) == {j \in I : j < i}

\* The entries at a set of positions are numbered by how many lie below them.
LEMMA NthType ==
  ASSUME NEW n \in Nat, NEW I \in SUBSET (1..n)
  PROVE  /\ IsFiniteSet(I) /\ Cardinality(I) \in Nat
         /\ \A i \in I : Cardinality(Below(I, i)) \in Nat
         /\ \A i, j \in I :
              Cardinality(Below(I, i)) = Cardinality(Below(I, j)) => i = j
         /\ \A k \in 1..Cardinality(I) :
              Nth(I, k) \in I /\ Cardinality(Below(I, Nth(I, k))) = k - 1
         /\ \A i \in I : \E k \in 1..Cardinality(I) : Nth(I, k) = i
<1>1. IsFiniteSet(I) /\ Cardinality(I) \in Nat
  <2>1. IsFiniteSet(1..n)
    BY FS_Interval
  <2>. QED BY <2>1, FS_Subset, FS_CardinalityType
<1>2. ASSUME NEW i \in I
      PROVE  /\ IsFiniteSet(Below(I, i)) /\ Cardinality(Below(I, i)) \in Nat
             /\ Cardinality(Below(I, i)) < Cardinality(I)
  <2>1. Below(I, i) \in SUBSET (I \ {i})
    BY DEF Below
  <2>2. IsFiniteSet(I \ {i}) /\ Cardinality(I \ {i}) = Cardinality(I) - 1
    BY <1>1, FS_RemoveElement
  <2>3. IsFiniteSet(Below(I, i)) /\ Cardinality(Below(I, i)) <= Cardinality(I \ {i})
    BY <2>1, <2>2, FS_Subset
  <2>. QED BY <1>1, <2>2, <2>3, FS_CardinalityType
<1>3. ASSUME NEW i \in I, NEW j \in I, i < j
      PROVE  Cardinality(Below(I, i)) < Cardinality(Below(I, j))
  <2>0. I \subseteq Nat
    OBVIOUS
  <2>1. Below(I, i) \cup {i} \in SUBSET Below(I, j) /\ i \notin Below(I, i)
    <3>1. i \in Nat /\ j \in Nat /\ ~(i < i)
      BY <2>0
    <3>2. \A x \in Nat : x < i => x < j
      BY <1>3, <3>1
    <3>. QED BY <1>3, <2>0, <3>1, <3>2 DEF Below
  <2>2. Cardinality(Below(I, i) \cup {i}) = Cardinality(Below(I, i)) + 1
    BY <1>2, <2>1, FS_AddElement
  <2>3. Cardinality(Below(I, i) \cup {i}) <= Cardinality(Below(I, j))
    BY <1>2, <2>1, FS_Subset
  <2>. QED BY <1>2, <2>2, <2>3
<1>4. ASSUME NEW i \in I, NEW j \in I,
             Cardinality(Below(I, i)) = Cardinality(Below(I, j))
      PROVE  i = j
  <2>1. ~(i < j) /\ ~(j < i)
    BY <1>2, <1>3, <1>4
  <2>. QED BY <2>1
<1>. DEFINE R == [i \in I |-> 1 + Cardinality(Below(I, i))]
<1>5. R \in [I -> 1..Cardinality(I)]
  BY <1>1, <1>2
<1>6. \A i \in I : R[i] = 1 + Cardinality(Below(I, i))
  OBVIOUS
<1>. HIDE DEF R
<1>7. \A i, j \in I : R[i] = R[j] => i = j
  BY <1>2, <1>4, <1>6
<1>8. R \in Injection(I, 1..Cardinality(I))
  BY <1>5, <1>7, Fun_IsInj
<1>9. IsFiniteSet(1..Cardinality(I)) /\ Cardinality(1..Cardinality(I)) = Cardinality(I)
  BY <1>1, FS_Interval
<1>10. R \in Surjection(I, 1..Cardinality(I))
  BY <1>8, <1>9, FS_Injection
<1>11. \A k \in 1..Cardinality(I) : \E i \in I : R[i] = k
  BY <1>10, Fun_SurjectionProperties
<1>12. ASSUME NEW k \in 1..Cardinality(I)
       PROVE  Nth(I, k) \in I /\ Cardinality(Below(I, Nth(I, k))) = k - 1
  <2>1. \E i \in I : Cardinality(Below(I, i)) = k - 1
    BY <1>2, <1>6, <1>11
  <2>. QED BY <2>1 DEF Nth, Below
<1>13. ASSUME NEW i \in I
       PROVE  \E k \in 1..Cardinality(I) : Nth(I, k) = i
  <2>1. R[i] \in 1..Cardinality(I) /\ R[i] - 1 = Cardinality(Below(I, i))
    BY <1>2, <1>5, <1>6
  <2>2. Nth(I, R[i]) = i
    BY <1>4, <1>12, <2>1
  <2>. QED BY <2>1, <2>2
<1>. QED BY <1>1, <1>2, <1>4, <1>12, <1>13

\* What EntriesAt gives is a sequence of the entries at the positions.
LEMMA EntriesAtType ==
  ASSUME NEW S, NEW s \in Seq(S), NEW I \in SUBSET (1..Len(s))
  PROVE  /\ EntriesAt(s, I) \in Seq(S) /\ Len(EntriesAt(s, I)) = Cardinality(I)
         /\ Cardinality(I) \in Nat
         /\ \A k \in 1..Cardinality(I) :
              Nth(I, k) \in I /\ EntriesAt(s, I)[k] = s[Nth(I, k)]
         /\ \A i \in I : \E k \in 1..Cardinality(I) : EntriesAt(s, I)[k] = s[i]
         /\ Range(EntriesAt(s, I)) = {s[i] : i \in I}
<1>1. Len(s) \in Nat
  OBVIOUS
<1>2. /\ Cardinality(I) \in Nat
      /\ \A k \in 1..Cardinality(I) : Nth(I, k) \in I
      /\ \A i \in I : \E k \in 1..Cardinality(I) : Nth(I, k) = i
  BY <1>1, NthType
<1>3. EntriesAt(s, I) = [k \in 1..Cardinality(I) |-> s[Nth(I, k)]]
  BY DEF EntriesAt
<1>4. \A k \in 1..Cardinality(I) : s[Nth(I, k)] \in S
  <2>1. \A i \in I : s[i] \in S
    OBVIOUS
  <2>. QED BY <1>2, <2>1
<1>5. EntriesAt(s, I) \in Seq(S) /\ Len(EntriesAt(s, I)) = Cardinality(I)
  BY <1>2, <1>3, <1>4
<1>6. \A k \in 1..Cardinality(I) : EntriesAt(s, I)[k] = s[Nth(I, k)]
  BY <1>3
<1>7. Range(EntriesAt(s, I)) = {s[i] : i \in I}
  <2>1. Range(EntriesAt(s, I)) = {s[Nth(I, k)] : k \in 1..Cardinality(I)}
    BY <1>3 DEF Range
  <2>2. \A i \in I : s[i] \in {s[Nth(I, k)] : k \in 1..Cardinality(I)}
    <3>. SUFFICES ASSUME NEW i \in I PROVE s[i] \in {s[Nth(I, k)] : k \in 1..Cardinality(I)}
      OBVIOUS
    <3>1. PICK k \in 1..Cardinality(I) : Nth(I, k) = i
      BY <1>2
    <3>2. s[Nth(I, k)] = s[i]
      BY <3>1
    <3>. QED BY <3>2
  <2>. QED BY <1>2, <2>1, <2>2
<1>. QED BY <1>2, <1>5, <1>6, <1>7

\* The entries of a set of positions up to n come first.
LEMMA EntriesAtPrefix ==
  ASSUME NEW m \in Nat, NEW I \in SUBSET (1..m), NEW n \in 0..m,
         NEW J, J = {i \in I : i <= n}
  PROVE  /\ Cardinality(J) \in Nat /\ Cardinality(J) <= Cardinality(I)
         /\ \A k \in 1..Cardinality(J) : Nth(J, k) = Nth(I, k)
<1>1. J \in SUBSET I /\ J \in SUBSET (1..m)
  OBVIOUS
<1>2. /\ IsFiniteSet(I) /\ Cardinality(I) \in Nat
      /\ \A i, j \in I :
           Cardinality(Below(I, i)) = Cardinality(Below(I, j)) => i = j
      /\ \A k \in 1..Cardinality(I) :
           Nth(I, k) \in I /\ Cardinality(Below(I, Nth(I, k))) = k - 1
  BY NthType
<1>3. /\ Cardinality(J) \in Nat
      /\ \A k \in 1..Cardinality(J) :
           Nth(J, k) \in J /\ Cardinality(Below(J, Nth(J, k))) = k - 1
  BY <1>1, NthType
<1>4. Cardinality(J) <= Cardinality(I)
  BY <1>1, <1>2, FS_Subset
<1>5. ASSUME NEW k \in 1..Cardinality(J)
      PROVE  Nth(J, k) = Nth(I, k)
  <2>1. k \in 1..Cardinality(I)
    BY <1>2, <1>3, <1>4
  <2>2. Nth(J, k) \in J /\ Cardinality(Below(J, Nth(J, k))) = k - 1
    BY <1>3
  <2>3. Nth(I, k) \in I /\ Cardinality(Below(I, Nth(I, k))) = k - 1
    BY <1>2, <2>1
  <2>4. Below(J, Nth(J, k)) = Below(I, Nth(J, k))
    <3>. DEFINE p == Nth(J, k)
    <3>1. p \in J
      BY <2>2
    <3>. HIDE DEF p
    <3>2. p \in Nat /\ p <= n /\ n \in Nat /\ \A j \in I : j \in Nat
      BY <3>1
    <3>3. \A j \in I : j < p => j <= n
      BY <3>2
    <3>4. \A j : j \in J <=> j \in I /\ j <= n
      OBVIOUS
    <3>5. Below(J, p) = Below(I, p)
      BY <3>3, <3>4 DEF Below
    <3>. QED BY <3>5 DEF p
  <2>. QED BY <1>1, <1>2, <2>2, <2>3, <2>4
<1>. QED BY <1>3, <1>4, <1>5

\* A sequence without repetitions has as many entries as positions.
LEMMA DistinctEntries ==
  ASSUME NEW S, NEW s \in Seq(S), \A i, j \in 1..Len(s) : s[i] = s[j] => i = j
  PROVE  IsFiniteSet(Range(s)) /\ Cardinality(Range(s)) = Len(s)
<1>1. Len(s) \in Nat /\ DOMAIN s = 1..Len(s) /\ Range(s) = {s[i] : i \in 1..Len(s)}
  BY DEF Range
<1>2. s \in [1..Len(s) -> Range(s)]
  BY <1>1
<1>3. s \in Injection(1..Len(s), Range(s))
  BY <1>2, Fun_IsInj
<1>4. s \in Surjection(1..Len(s), Range(s))
  BY <1>1, <1>2, Fun_IsSurj
<1>5. IsFiniteSet(1..Len(s)) /\ Cardinality(1..Len(s)) = Len(s)
  BY <1>1, FS_Interval
<1>. QED BY <1>3, <1>4, <1>5, FS_Surjection

-----------------------------------------------------------------------------
(* Each used node has one record.                                          *)

\* The nodes that have a record.
RecordedNodes == {records[i].node : i \in 1..Len(records)}

\* The nodes that were used so far.
Used ==
  (Active("decision") \cap Passed("decide"))
    \cup (IF pc = "decide" THEN {}
          ELSE (Active("boundary") \cap Passed("bound"))
                 \cup (IF matched = <<>> THEN {GetFallback} ELSE {}))

\* Each used node has one record, of its type; that of the fallback comes right
\* after those of the decision nodes.
Listed ==
  /\ \A i, j \in 1..Len(records) : records[i].node = records[j].node => i = j
  /\ \A i \in 1..Len(records) : records[i].type = flow[records[i].node].type
  /\ pc \in {"decide", "bound", "done"} => RecordedNodes = Used
  /\ pc \in {"bound", "done"} /\ matched = <<>> =>
       /\ Cardinality(Active("decision")) + 1 \in 1..Len(records)
       /\ records[Cardinality(Active("decision")) + 1].node = GetFallback

\* A record of a node without one keeps the records distinct.
LEMMA ListedAdds ==
  ASSUME TypeOK, NEW type, NEW n, Record(type, n), flow' = flow,
         flow[n].type = type, n \notin RecordedNodes,
         \A i, j \in 1..Len(records) : records[i].node = records[j].node => i = j,
         \A i \in 1..Len(records) : records[i].type = flow[records[i].node].type
  PROVE  /\ \A i, j \in 1..Len(records') :
              records'[i].node = records'[j].node => i = j
         /\ \A i \in 1..Len(records') : records'[i].type = flow'[records'[i].node].type
         /\ RecordedNodes' = RecordedNodes \cup {n}
         /\ Len(records') = Len(records) + 1 /\ Len(records) \in Nat
         /\ records'[Len(records) + 1].node = n
         /\ \A i \in 1..Len(records) : records'[i] = records[i]
<1>. DEFINE r == [type |-> type, node |-> n]
<1>1. r.type = type /\ r.node = n /\ Len(records) \in Nat
  BY RecordsType
<1>. HIDE DEF r
<1>2. records' = Append(records, r)
  BY DEF Record, r
<1>3. /\ Len(records') = Len(records) + 1 /\ records'[Len(records) + 1] = r
      /\ \A i \in 1..Len(records) : records'[i] = records[i]
  BY <1>2 DEF TypeOK
<1>4. 1..Len(records') = (1..Len(records)) \cup {Len(records) + 1}
  BY <1>1, <1>3
<1>5. RecordedNodes' = RecordedNodes \cup {n}
  <2>1. RecordedNodes' = {records'[i].node : i \in 1..Len(records')}
    BY DEF RecordedNodes
  <2>. QED BY <1>1, <1>3, <1>4, <2>1 DEF RecordedNodes
<1>6. \A i \in 1..Len(records) : records[i].node # n
  BY DEF RecordedNodes
<1>7. \A i, j \in 1..Len(records') : records'[i].node = records'[j].node => i = j
  BY <1>1, <1>3, <1>4, <1>6
<1>8. \A i \in 1..Len(records') : records'[i].type = flow'[records'[i].node].type
  BY <1>1, <1>3, <1>4
<1>. QED BY <1>1, <1>3, <1>5, <1>7, <1>8

\* Nothing is recorded before the first node.
LEMMA ListedInit == Init => Listed
<1>. SUFFICES ASSUME Init PROVE Listed
  OBVIOUS
<1>1. TypeOK
  BY TypeInit
<1>2. pc = "decide" /\ next = 1 /\ records = <<>>
  BY DEF Init
<1>3. Passed("decide") = {}
  BY <1>1, <1>2, FlowType DEF Passed
<1>4. 1..Len(records) = {}
  BY <1>2
<1>5. RecordedNodes = {} /\ Used = {}
  BY <1>2, <1>3, <1>4 DEF RecordedNodes, Used
<1>. QED BY <1>2, <1>4, <1>5 DEF Listed

\* The node a loop passes was not passed before.
LEMMA PassedAdds ==
  ASSUME TypeOK, NEW loop, pc = loop, next \in Nodes,
         flow' = flow, pc' = pc, next' = next + 1
  PROVE  Passed(loop)' = Passed(loop) \cup {next} /\ next \notin Passed(loop)
<1>1. Nodes' = Nodes /\ Nodes \subseteq Nat /\ next \in Nat
  BY FlowType DEF Nodes
<1>2. \A n \in Nodes : n < next + 1 <=> n < next \/ n = next
  BY <1>1
<1>3. ~(next < next)
  BY <1>1
<1>. QED BY <1>1, <1>2, <1>3 DEF Passed

\* The fallback is the first active node of its type.
LEMMA FallbackType ==
  ASSUME TypeOK, Fallbacks # {}
  PROVE  /\ GetFallback \in Active("fallback") /\ flow[GetFallback].type = "fallback"
         /\ \A n \in Active("decision") \cup Active("boundary") : n # GetFallback
<1>1. GetFallback \in Active("fallback")
  BY FallbackChosen, NodeSets
<1>2. \A type : \A n \in Active(type) : flow[n].type = type
  BY DEF Active
<1>3. flow[GetFallback].type = "fallback"
  BY <1>1, <1>2
<1>4. \A n \in Active("decision") \cup Active("boundary") :
        flow[n].type \in {"decision", "boundary"}
  BY <1>2
<1>. QED BY <1>1, <1>3, <1>4

\* A decision node passed keeps Listed.
LEMMA ListedDecide ==
  ASSUME IInv, Listed, Decide, [Next]_vars
  PROVE  Listed'
<1>1. /\ TypeOK /\ pc = "decide" /\ pc' = "decide" /\ next' = next + 1
      /\ next \in Nodes /\ flow' = flow
  BY FlowType DEF Decide, IInv
<1>2. /\ Active("decision")' = Active("decision")
      /\ Passed("decide")' = Passed("decide") \cup {next} /\ next \notin Passed("decide")
  BY <1>1, PassedAdds, SameFlow
<1>3. Used = Active("decision") \cap Passed("decide")
      /\ Used' = Active("decision") \cap (Passed("decide") \cup {next})
  BY <1>1, <1>2 DEF Used
<1>4. CASE IsLive(next, "decision")
  <2>1. Record("decision", next) /\ flow[next].type = "decision" /\ next \notin RecordedNodes
    BY <1>1, <1>2, <1>3, <1>4 DEF Decide, IsLive, Listed
  <2>2. /\ \A i, j \in 1..Len(records') :
             records'[i].node = records'[j].node => i = j
        /\ \A i \in 1..Len(records') : records'[i].type = flow'[records'[i].node].type
        /\ RecordedNodes' = RecordedNodes \cup {next}
    BY <1>1, <2>1, ListedAdds DEF Listed
  <2>3. next \in Active("decision")
    BY <1>1, <1>4, NodeSets
  <2>4. RecordedNodes' = Used'
    BY <1>1, <1>3, <2>2, <2>3 DEF Listed
  <2>. QED BY <1>1, <2>2, <2>4 DEF Listed
<1>5. CASE ~IsLive(next, "decision")
  <2>1. records' = records /\ RecordedNodes' = RecordedNodes
    BY <1>5 DEF Decide, RecordedNodes
  <2>2. next \notin Active("decision")
    BY <1>1, <1>5, NodeSets
  <2>3. RecordedNodes' = Used'
    BY <1>1, <1>3, <2>1, <2>2 DEF Listed
  <2>. QED BY <1>1, <2>1, <2>3 DEF Listed
<1>. QED BY <1>4, <1>5

\* A boundary node passed keeps Listed.
LEMMA ListedBound ==
  ASSUME IInv, Listed, Bound, [Next]_vars
  PROVE  Listed'
<1>1. /\ TypeOK /\ pc = "bound" /\ pc' = "bound" /\ next' = next + 1
      /\ next \in Nodes /\ flow' = flow /\ matched' = matched
      /\ Nodes' = Nodes
  BY FlowType DEF Bound, IInv, GoOn, Nodes
<1>2. /\ \A type : Active(type)' = Active(type)
      /\ GetFallback' = GetFallback
      /\ Passed("bound")' = Passed("bound") \cup {next} /\ next \notin Passed("bound")
  <2>1. GetFallback' = GetFallback
    BY <1>1 DEF GetFallback, Fallbacks, IsLive
  <2>. QED BY <1>1, <2>1, PassedAdds, SameFlow
<1>3. Passed("decide") = Nodes /\ Passed("decide")' = Nodes
  BY <1>1 DEF Passed
<1>. DEFINE Rest == IF matched = <<>> THEN {GetFallback} ELSE {}
<1>4. /\ Used = (Active("decision") \cap Nodes)
                  \cup (Active("boundary") \cap Passed("bound")) \cup Rest
      /\ Used' = (Active("decision") \cap Nodes)
                  \cup (Active("boundary") \cap (Passed("bound") \cup {next})) \cup Rest
  BY <1>1, <1>2, <1>3 DEF Used
<1>5. IsLive(next, "boundary") => next \notin Active("decision") \cup Rest
  <2>1. matched = <<>> => Fallbacks # {}
    <3>1. matched = <<>> => Holds("decision") = {}
      BY <1>1, <1>3, RangeEmpty, NodeSets DEF IInv, Progress, Collected
    <3>2. Chosen # {}
      BY <1>1 DEF IInv, Progress
    <3>. QED BY <1>1, <3>1, <3>2, NodeSets DEF Chosen
  <2>2. IsLive(next, "boundary") => next \in Active("boundary") /\ next \notin Active("decision")
    BY <1>1, NodeSets DEF IsLive, Active
  <2>. QED BY <1>1, <2>1, <2>2, FallbackType
<1>. HIDE DEF Rest
<1>6. CASE IsLive(next, "boundary")
  <2>1. Record("boundary", next) /\ flow[next].type = "boundary" /\ next \notin RecordedNodes
    BY <1>1, <1>2, <1>4, <1>5, <1>6 DEF Bound, IsLive, Listed
  <2>2. /\ \A i, j \in 1..Len(records') :
             records'[i].node = records'[j].node => i = j
        /\ \A i \in 1..Len(records') : records'[i].type = flow'[records'[i].node].type
        /\ RecordedNodes' = RecordedNodes \cup {next}
        /\ Len(records') = Len(records) + 1 /\ Len(records) \in Nat
        /\ \A i \in 1..Len(records) : records'[i] = records[i]
    BY <1>1, <2>1, ListedAdds DEF Listed
  <2>3. next \in Active("boundary")
    BY <1>1, <1>6, NodeSets
  <2>4. RecordedNodes' = Used'
    BY <1>1, <1>4, <2>2, <2>3 DEF Listed
  <2>5. \A k : k \in 1..Len(records) => k \in 1..Len(records') /\ records'[k] = records[k]
    BY <2>2
  <2>. QED BY <1>1, <1>2, <2>2, <2>4, <2>5 DEF Listed
<1>7. CASE ~IsLive(next, "boundary")
  <2>1. records' = records /\ RecordedNodes' = RecordedNodes
    BY <1>7 DEF Bound, RecordedNodes
  <2>2. next \notin Active("boundary")
    BY <1>1, <1>7, NodeSets
  <2>3. RecordedNodes' = Used'
    BY <1>1, <1>4, <2>1, <2>2 DEF Listed
  <2>. QED BY <1>1, <1>2, <2>1, <2>3 DEF Listed
<1>. QED BY <1>6, <1>7

\* The selection keeps Listed, with a record of the fallback or without.
LEMMA ListedSelect ==
  ASSUME IInv, Listed, [Next]_vars, SelectMatch \/ SelectFallback
  PROVE  Listed'
<1>1. /\ TypeOK /\ DecideDone /\ pc = "decide" /\ next \notin DOMAIN flow
      /\ pc' = "bound" /\ next' = 1 /\ matched' = matched
  BY DEF SelectMatch, SelectFallback, DecideDone, IInv
<1>2. /\ \A type : Active(type)' = Active(type)
      /\ Nodes' = Nodes /\ flow' = flow /\ GetFallback' = GetFallback
  BY SameFlow DEF GetFallback, Fallbacks, IsLive
<1>3. Passed("decide") = Nodes /\ Passed("decide")' = Nodes /\ Passed("bound")' = {}
  <2>1. \A m \in Nodes : ~(m < 1)
    BY DEF Nodes
  <2>. QED BY <1>1, <1>2, <2>1, LoopDone DEF Passed
<1>4. /\ Used = Active("decision") /\ RecordedNodes = Active("decision")
      /\ Used' = Active("decision") \cup (IF matched = <<>> THEN {GetFallback} ELSE {})
  <2>1. Active("decision") \subseteq Nodes
    BY <1>1, NodeSets
  <2>. QED BY <1>1, <1>2, <1>3, <2>1 DEF Used, Listed
<1>5. CASE SelectMatch
  <2>1. records' = records /\ RecordedNodes' = RecordedNodes /\ matched # <<>>
    BY <1>5 DEF SelectMatch, RecordedNodes
  <2>. QED BY <1>1, <1>2, <1>4, <2>1 DEF Listed
<1>6. CASE SelectFallback
  <2>1. Record("fallback", GetFallback) /\ matched = <<>> /\ Fallbacks # {}
    BY <1>6 DEF SelectFallback
  <2>2. flow[GetFallback].type = "fallback" /\ GetFallback \notin RecordedNodes
    BY <1>1, <1>4, <2>1, FallbackType
  <2>3. /\ \A i, j \in 1..Len(records') :
             records'[i].node = records'[j].node => i = j
        /\ \A i \in 1..Len(records') : records'[i].type = flow'[records'[i].node].type
        /\ RecordedNodes' = RecordedNodes \cup {GetFallback}
        /\ Len(records') = Len(records) + 1 /\ Len(records) \in Nat
        /\ records'[Len(records) + 1].node = GetFallback
    BY <1>1, <1>2, <2>1, <2>2, ListedAdds DEF Listed
  <2>4. Cardinality(Active("decision")) = Len(records)
    <3>. DEFINE s == [i \in 1..Len(records) |-> records[i].node]
    <3>1. s \in Seq(RecordedNodes) /\ Len(s) = Len(records)
      BY <2>3 DEF RecordedNodes
    <3>2. \A i, j \in 1..Len(s) : s[i] = s[j] => i = j
      BY <3>1 DEF Listed
    <3>3. Range(s) = RecordedNodes
      BY DEF Range, RecordedNodes
    <3>. HIDE DEF s
    <3>. QED BY <1>4, <3>1, <3>2, <3>3, DistinctEntries
  <2>5. Len(records) + 1 \in 1..Len(records')
    BY <2>3
  <2>. QED BY <1>1, <1>2, <1>4, <2>1, <2>3, <2>4, <2>5 DEF Listed
<1>. QED BY <1>5, <1>6

\* Every step keeps Listed.
LEMMA ListedStep ==
  ASSUME IInv, Listed, [Next]_vars
  PROVE  Listed'
<1>1. /\ flow' = flow /\ Nodes' = Nodes /\ \A type : Active(type)' = Active(type)
      /\ GetFallback' = GetFallback
  BY SameFlow DEF GetFallback, Fallbacks, IsLive
<1>2. CASE Decide
  BY <1>2, ListedDecide
<1>3. CASE Bound
  BY <1>3, ListedBound
<1>4. CASE SelectMatch \/ SelectFallback
  BY <1>4, ListedSelect
<1>5. CASE NoFallback \/ Raise("decide", "decision") \/ Raise("bound", "boundary")
  BY <1>1, <1>5 DEF NoFallback, Raise, Listed
<1>6. CASE Apply
  <2>1. /\ pc = "bound" /\ pc' = "done" /\ next \notin DOMAIN flow
        /\ matched' = matched /\ records' = records /\ RecordedNodes' = RecordedNodes
    BY <1>6 DEF Apply, RecordedNodes
  <2>2. /\ Passed("decide") = Nodes /\ Passed("bound") = Nodes
        /\ Passed("decide")' = Nodes /\ Passed("bound")' = Nodes
    BY <1>1, <2>1, LoopDone DEF Passed, IInv
  <2>3. Used' = Used
    BY <1>1, <2>1, <2>2 DEF Used
  <2>. QED BY <1>1, <2>1, <2>3 DEF Listed
<1>7. CASE UNCHANGED vars
  <2>1. /\ pc' = pc /\ matched' = matched /\ records' = records
        /\ RecordedNodes' = RecordedNodes
        /\ \A loop : Passed(loop)' = Passed(loop)
    BY <1>1, <1>7 DEF vars, RecordedNodes, Passed
  <2>2. Used' = Used
    BY <1>1, <2>1 DEF Used
  <2>. QED BY <1>1, <2>1, <2>2 DEF Listed
<1>. QED BY <1>2, <1>3, <1>4, <1>5, <1>6, <1>7 DEF Next

\* Listed is an invariant.
LEMMA AlwaysListed == Spec => [](IInv /\ Listed)
<1>1. Init => Listed
  BY ListedInit
<1>2. IInv /\ Listed /\ [Next]_vars => Listed'
  BY ListedStep
<1>. QED BY <1>1, <1>2, Invariant, PTL DEF Spec

-----------------------------------------------------------------------------
(* The trace and its explanation.                                          *)

\* The nodes a trace can show.
NodeShown == [node : Nodes, type : NodeKind, matched : BOOLEAN]

\* The nodes of a trace: each used node once, and matched as its condition was.
LEMMA NodesShown ==
  ASSUME IInv, Listed, pc = "done"
  PROVE  /\ Len(records) \in Nat /\ DOMAIN records = 1..Len(records)
         /\ EvaluatedNodes \in Seq(NodeShown) /\ Len(EvaluatedNodes) = Len(records)
         /\ \A i \in 1..Len(records) :
              LET m == EvaluatedNodes[i] IN
              /\ m = [node |-> m.node, type |-> m.type, matched |-> m.matched]
              /\ m.node = records[i].node /\ m.type = records[i].type
              /\ m.node \in Nodes /\ m.type = flow[m.node].type
              /\ m.type \in NodeKind /\ m.matched \in BOOLEAN
              /\ m.matched <=> \/ m.type = "fallback"
                               \/ m.node \in Holds("decision") \cup Holds("boundary")
         /\ \A i, j \in 1..Len(records) :
              EvaluatedNodes[i].node = EvaluatedNodes[j].node => i = j
         /\ RecordedNodes =
              Active("decision") \cup Active("boundary")
                \cup (IF Holds("decision") = {} THEN {GetFallback} ELSE {})
<1>1. TypeOK /\ Len(records) \in Nat /\ DOMAIN records = 1..Len(records)
  BY RecordsType DEF IInv, TypeOK
<1>2. \A i \in 1..Len(records) :
        /\ records[i].node \in Nodes /\ records[i].type \in NodeKind
        /\ records[i].type = flow[records[i].node].type
  <2>. DEFINE Rec == [type : NodeKind, node : Nodes]
  <2>1. records \in Seq(Rec) /\ \A r \in Rec : r.type \in NodeKind /\ r.node \in Nodes
    BY <1>1 DEF TypeOK
  <2>. HIDE DEF Rec
  <2>2. \A i \in 1..Len(records) : records[i] \in Rec
    BY <1>1, <2>1
  <2>. QED BY <2>1, <2>2 DEF Listed
<1>3. Range(matched \o triggered) = Holds("decision") \cup Holds("boundary")
  BY <1>1, AllCollected, RangeConcat DEF TypeOK
<1>. DEFINE sel(i) == \/ records[i].type = "fallback"
                      \/ records[i].node \in Range(matched \o triggered)
            E == EvaluatedNodes
<1>4. E = [i \in 1..Len(records) |->
             [node |-> records[i].node, type |-> records[i].type, matched |-> sel(i)]]
  BY <1>1 DEF EvaluatedNodes
<1>5. \A i \in 1..Len(records) : sel(i) \in BOOLEAN
  OBVIOUS
<1>6. \A i \in 1..Len(records) :
        E[i] = [node |-> records[i].node, type |-> records[i].type, matched |-> sel(i)]
  BY <1>4
<1>. HIDE DEF sel, E
<1>7. \A i \in 1..Len(records) :
         /\ E[i].node = records[i].node /\ E[i].type = records[i].type
         /\ E[i].matched = sel(i) /\ E[i] \in NodeShown
         /\ E[i] = [node |-> E[i].node, type |-> E[i].type, matched |-> E[i].matched]
  <2>. SUFFICES ASSUME NEW i \in 1..Len(records)
                PROVE  /\ E[i].node = records[i].node /\ E[i].type = records[i].type
                       /\ E[i].matched = sel(i) /\ E[i] \in NodeShown
                       /\ E[i] = [node |-> E[i].node, type |-> E[i].type,
                                  matched |-> E[i].matched]
    OBVIOUS
  <2>1. /\ E[i].node = records[i].node /\ E[i].type = records[i].type
        /\ E[i].matched = sel(i)
    <3>1. \A a, b, c, r : r = [node |-> a, type |-> b, matched |-> c]
                             => r.node = a /\ r.type = b /\ r.matched = c
      OBVIOUS
    <3>2. E[i] = [node |-> records[i].node, type |-> records[i].type,
                  matched |-> sel(i)]
      BY <1>6
    <3>. QED BY <3>1, <3>2
  <2>2. E[i] = [node |-> E[i].node, type |-> E[i].type, matched |-> E[i].matched]
    BY <1>6, <2>1, Zenon
  <2>3. E[i].node \in Nodes /\ E[i].type \in NodeKind /\ E[i].matched \in BOOLEAN
    BY <1>2, <1>5, <2>1, Zenon
  <2>4. E[i] \in NodeShown
    BY <2>2, <2>3, Zenon DEF NodeShown
  <2>. QED BY <2>1, <2>2, <2>4, Zenon
<1>8. E \in Seq(NodeShown) /\ Len(E) = Len(records)
  <2>1. E = [i \in 1..Len(records) |-> E[i]]
    BY <1>4
  <2>2. \A i \in 1..Len(records) : E[i] \in NodeShown
    BY <1>7
  <2>. QED BY <1>1, <2>1, <2>2
<1>9. \A i \in 1..Len(records) :
        E[i].matched <=> \/ E[i].type = "fallback"
                         \/ E[i].node \in Holds("decision") \cup Holds("boundary")
  BY <1>3, <1>7 DEF sel
<1>10. \A i, j \in 1..Len(records) : E[i].node = E[j].node => i = j
  BY <1>7 DEF Listed
<1>11. RecordedNodes =
         Active("decision") \cup Active("boundary")
           \cup (IF Holds("decision") = {} THEN {GetFallback} ELSE {})
  <2>1. Passed("decide") = Nodes /\ Passed("bound") = Nodes
    BY DEF Passed
  <2>2. matched = <<>> <=> Holds("decision") = {}
    BY AllCollected
  <2>3. Active("decision") \subseteq Nodes /\ Active("boundary") \subseteq Nodes
    BY <1>1, NodeSets
  <2>. QED BY <2>1, <2>2, <2>3 DEF Listed, Used
<1>12. \A i \in 1..Len(records) : E[i].matched \in BOOLEAN
  BY <1>5, <1>7
<1>13. \A i \in 1..Len(records) :
         /\ E[i].node \in Nodes /\ E[i].type = flow[E[i].node].type
         /\ E[i].type \in NodeKind
  BY <1>2, <1>7
<1>. QED BY <1>1, <1>7, <1>8, <1>9, <1>10, <1>11, <1>12, <1>13 DEF E

\* How a boundary is listed in the results.
EffectShown(b) ==
  [boundary |-> b, triggered |-> b \in Holds("boundary"),
   severity |-> flow[b].severity, effect |-> flow[b].effect]

\* The results list the active boundaries, and no other node.
LEMMA EffectsShown ==
  ASSUME IInv, Listed, pc = "done"
  PROVE  /\ BoundaryResults \in Seq({EffectShown(b) : b \in Active("boundary")})
         /\ Range(BoundaryResults) = {EffectShown(b) : b \in Active("boundary")}
         /\ BoundaryResults = <<>> <=> Active("boundary") = {}
<1>. DEFINE Rec == [type : NodeKind, node : Nodes]
            I == {i \in 1..Len(records) : records[i].type = "boundary"}
            s == EntriesAt(records, I)
            Shown == {EffectShown(b) : b \in Active("boundary")}
<1>1. TypeOK /\ Len(records) \in Nat /\ DOMAIN records = 1..Len(records)
      /\ records \in Seq(Rec) /\ I \in SUBSET (1..Len(records))
  BY RecordsType DEF IInv, TypeOK
<1>. HIDE DEF Rec
<1>2. /\ s \in Seq(Rec) /\ Len(s) = Cardinality(I) /\ Cardinality(I) \in Nat
      /\ \A k \in 1..Cardinality(I) : Nth(I, k) \in I /\ s[k] = records[Nth(I, k)]
      /\ \A i \in I : \E k \in 1..Cardinality(I) : s[k] = records[i]
  BY <1>1, EntriesAtType
<1>3. I = {i \in DOMAIN records : records[i].type = "boundary"}
  BY <1>1
<1>4. BoundaryResults =
        [k \in DOMAIN s |->
           [boundary |-> s[k].node, triggered |-> s[k].node \in Range(triggered),
            severity |-> flow[s[k].node].severity, effect |-> flow[s[k].node].effect]]
  BY <1>3 DEF BoundaryResults
<1>5. DOMAIN s = 1..Cardinality(I) /\ Range(triggered) = Holds("boundary")
  BY <1>2, AllCollected
<1>6. {records[i].node : i \in I} = Active("boundary")
  <2>1. \A i \in 1..Len(records) :
          /\ EvaluatedNodes[i].node = records[i].node
          /\ EvaluatedNodes[i].type = records[i].type
          /\ records[i].node \in Nodes
          /\ records[i].type = flow[records[i].node].type
          /\ records[i].node \in RecordedNodes
    BY NodesShown DEF RecordedNodes
  <2>2. RecordedNodes =
          Active("decision") \cup Active("boundary")
            \cup (IF Holds("decision") = {} THEN {GetFallback} ELSE {})
    BY NodesShown
  <2>3. \A type : \A n \in Active(type) : flow[n].type = type
    BY DEF Active
  <2>4. Holds("decision") = {} => flow[GetFallback].type = "fallback"
    <3>1. Holds("decision") = {} => Fallbacks # {}
      BY <1>1, NodeSets DEF IInv, Progress, Chosen
    <3>. QED BY <1>1, <3>1, FallbackType
  <2>5. \A i \in I : records[i].node \in Active("boundary")
    <3>1. \A i \in I : flow[records[i].node].type = "boundary"
      BY <2>1
    <3>. QED BY <2>1, <2>2, <2>3, <2>4, <3>1
  <2>6. \A b \in Active("boundary") : \E i \in I : records[i].node = b
    <3>. SUFFICES ASSUME NEW b \in Active("boundary") PROVE \E i \in I : records[i].node = b
      OBVIOUS
    <3>1. PICK i \in 1..Len(records) : records[i].node = b
      BY <2>2 DEF RecordedNodes
    <3>2. records[i].type = "boundary"
      BY <2>1, <2>3, <3>1
    <3>. QED BY <3>1, <3>2
  <2>. QED BY <2>5, <2>6
<1>. HIDE DEF s, I
<1>7. DOMAIN BoundaryResults = 1..Cardinality(I)
      /\ \A k \in 1..Cardinality(I) : BoundaryResults[k] = EffectShown(s[k].node)
  BY <1>4, <1>5 DEF EffectShown
<1>8. \A k \in 1..Cardinality(I) : s[k].node \in Active("boundary")
  BY <1>2, <1>6
<1>9. \A b \in Active("boundary") : \E k \in 1..Cardinality(I) : s[k].node = b
  BY <1>2, <1>6
<1>. HIDE DEF Shown
<1>10. \A k \in 1..Cardinality(I) : BoundaryResults[k] \in Shown
  BY <1>7, <1>8 DEF Shown
<1>11. BoundaryResults \in Seq(Shown) /\ Len(BoundaryResults) = Cardinality(I)
  <2>1. BoundaryResults = [k \in 1..Cardinality(I) |-> BoundaryResults[k]]
    BY <1>4, <1>5
  <2>. QED BY <1>2, <1>10, <2>1
<1>12. Range(BoundaryResults) = Shown
  <2>1. \A x \in Shown : \E k \in 1..Cardinality(I) : BoundaryResults[k] = x
    BY <1>7, <1>9 DEF Shown
  <2>. QED BY <1>7, <1>10, <2>1 DEF Range
<1>13. BoundaryResults = <<>> <=> Active("boundary") = {}
  <2>1. Active("boundary") = {} <=> Shown = {}
    BY DEF Shown
  <2>. QED BY <1>11, <1>12, <2>1, RangeEmpty
<1>. QED BY <1>11, <1>12, <1>13 DEF Shown

\* The parts of the explanation of a trace.
LEMMA Explained ==
  ASSUME NEW e, e = Explain(CreateTrace),
         NEW hits, hits = {i \in DOMAIN EvaluatedNodes : EvaluatedNodes[i].matched}
  PROVE  /\ e.selected = result.selected /\ e.status = result.status
         /\ e.action = result.action /\ e.gate = Gate
         /\ e.effects = BoundaryResults
         /\ e.matched = EntriesAt(EvaluatedNodes, hits)
         /\ e.unmatched = EntriesAt(EvaluatedNodes, DOMAIN EvaluatedNodes \ hits)
<1>. DEFINE p == [status     |-> result.status,
                  outcome    |-> IF matched # <<>> THEN "pass" ELSE "fail",
                  selected   |-> result.selected,
                  action     |-> result.action,
                  boundaries |-> BoundaryResults,
                  gate       |-> Gate]
<1>1. /\ p.status = result.status /\ p.selected = result.selected
      /\ p.action = result.action /\ p.boundaries = BoundaryResults /\ p.gate = Gate
  OBVIOUS
<1>2. CreateTrace = [state |-> "completed", nodes |-> EvaluatedNodes, results |-> <<p>>]
  BY DEF CreateTrace
<1>. HIDE DEF p
<1>3. CreateTrace.nodes = EvaluatedNodes /\ CreateTrace.results[1] = p
  BY <1>2
<1>4. e = [selected  |-> p.selected,
           matched   |-> EntriesAt(EvaluatedNodes, hits),
           unmatched |-> EntriesAt(EvaluatedNodes, DOMAIN EvaluatedNodes \ hits),
           effects   |-> p.boundaries,
           gate      |-> p.gate,
           action    |-> p.action,
           status    |-> p.status]
  BY <1>3 DEF Explain
<1>. QED BY <1>1, <1>4

\* What the listing of a boundary says of it.
LEMMA EffectShownFields ==
  ASSUME NEW b
  PROVE  /\ EffectShown(b).boundary = b
         /\ EffectShown(b).triggered <=> b \in Holds("boundary")
         /\ EffectShown(b).severity = flow[b].severity
         /\ EffectShown(b).effect = flow[b].effect
<1>1. \A p, q, r, s, x : x = [boundary |-> p, triggered |-> q, severity |-> r, effect |-> s]
        => x.boundary = p /\ x.triggered = q /\ x.severity = r /\ x.effect = s
  OBVIOUS
<1>2. EffectShown(b) =
        [boundary |-> b, triggered |-> b \in Holds("boundary"),
         severity |-> flow[b].severity, effect |-> flow[b].effect]
  BY DEF EffectShown
<1>3. /\ EffectShown(b).boundary = b
      /\ EffectShown(b).triggered = (b \in Holds("boundary"))
      /\ EffectShown(b).severity = flow[b].severity
      /\ EffectShown(b).effect = flow[b].effect
  BY <1>1, <1>2
<1>. QED BY <1>3, Zenon

\* A reader of the listed effects finds the dominant boundary.
LEMMA TopEffect ==
  ASSUME IInv, Listed, pc = "done",
         NEW hits, hits = {BoundaryResults[i] : i \in
                             {j \in DOMAIN BoundaryResults : BoundaryResults[j].triggered}}
  PROVE  {h \in hits : \A g \in hits :
            \/ g.severity < h.severity
            \/ g.severity = h.severity /\ h.boundary <= g.boundary}
           = IF triggered = <<>> THEN {} ELSE {EffectShown(Dominant)}
<1>. DEFINE tops == {h \in hits : \A g \in hits :
                       \/ g.severity < h.severity
                       \/ g.severity = h.severity /\ h.boundary <= g.boundary}
<1>1. TypeOK /\ Range(triggered) = Holds("boundary")
      /\ (triggered = <<>> <=> Holds("boundary") = {})
  BY AllCollected DEF IInv
<1>2. /\ Holds("boundary") \subseteq Active("boundary")
      /\ \A b \in Active("boundary") : b \in Nat /\ flow[b].severity \in Nat
  BY <1>1, NodeSets, FlowType
<1>3. hits = {EffectShown(b) : b \in Holds("boundary")}
  <2>1. Range(BoundaryResults) = {EffectShown(b) : b \in Active("boundary")}
    BY EffectsShown
  <2>2. hits = {x \in Range(BoundaryResults) : x.triggered}
    BY DEF Range
  <2>3. \A b \in Active("boundary") : EffectShown(b).triggered <=> b \in Holds("boundary")
    BY EffectShownFields
  <2>. QED BY <1>2, <2>1, <2>2, <2>3, Zenon
<1>4. \A b, c : /\ EffectShown(b).severity = flow[b].severity
                /\ EffectShown(b).boundary = b
                /\ (EffectShown(b) = EffectShown(c) => b = c)
  BY EffectShownFields, Zenon
<1>. DEFINE over(b, c) == \/ flow[c].severity < flow[b].severity
                          \/ flow[c].severity = flow[b].severity /\ b <= c
<1>5. tops = {EffectShown(b) : b \in {c \in Holds("boundary") :
                                         \A d \in Holds("boundary") : over(c, d)}}
  <2>. DEFINE under(g, h) == \/ g.severity < h.severity
                             \/ g.severity = h.severity /\ h.boundary <= g.boundary
  <2>1. \A b, d : under(EffectShown(d), EffectShown(b)) <=> over(b, d)
    BY <1>4
  <2>2. tops = {h \in hits : \A g \in hits : under(g, h)}
    OBVIOUS
  <2>. HIDE DEF under, over
  <2>3. \A b \in Holds("boundary") :
          (\A g \in hits : under(g, EffectShown(b)))
            <=> (\A d \in Holds("boundary") : over(b, d))
    BY <1>3, <2>1
  <2>4. \A h : h \in tops <=> h \in hits /\ \A g \in hits : under(g, h)
    BY <2>2
  <2>5. \A h \in hits : \E b \in Holds("boundary") : h = EffectShown(b)
    BY <1>3
  <2>6. \A b \in Holds("boundary") : EffectShown(b) \in hits
    BY <1>3
  <2>. DEFINE W == {c \in Holds("boundary") : \A d \in Holds("boundary") : over(c, d)}
  <2>7. \A b : b \in W <=> b \in Holds("boundary") /\ \A g \in hits : under(g, EffectShown(b))
    BY <2>3
  <2>. HIDE DEF W
  <2>8. \A h \in tops : \E b \in W : h = EffectShown(b)
    BY <2>4, <2>5, <2>7
  <2>9. \A b \in W : EffectShown(b) \in tops
    BY <2>4, <2>6, <2>7
  <2>10. tops = {EffectShown(b) : b \in W}
    BY <2>8, <2>9
  <2>. QED BY <2>10 DEF W
<1>6. \A c \in Holds("boundary") :
        (\A d \in Holds("boundary") : over(c, d)) <=> Dominates(c)
  <2>. SUFFICES ASSUME NEW c \in Holds("boundary")
                PROVE  (\A d \in Holds("boundary") : over(c, d)) <=> Dominates(c)
    OBVIOUS
  <2>1. over(c, c)
    BY <1>2
  <2>2. \A d \in Holds("boundary") \ {c} :
          over(c, d) <=> \/ flow[d].severity < flow[c].severity
                         \/ flow[d].severity = flow[c].severity /\ c < d
    BY <1>2
  <2>. HIDE DEF over
  <2>. QED BY <2>1, <2>2, Zenon DEF Dominates
<1>. HIDE DEF over
<1>7. {c \in Holds("boundary") : \A d \in Holds("boundary") : over(c, d)}
        = {c \in Holds("boundary") : Dominates(c)}
  BY <1>6
<1>8. CASE triggered = <<>>
  BY <1>1, <1>5, <1>8
<1>9. CASE triggered # <<>>
  <2>1. {c \in Holds("boundary") : Dominates(c)} = {Dominant}
    BY <1>1, <1>9, DominantDominates
  <2>. QED BY <1>5, <1>7, <1>9, <2>1
<1>. QED BY <1>8, <1>9

\* The matched and the unmatched nodes of an explanation.
LEMMA ListsExplained ==
  ASSUME IInv, Listed, pc = "done", NEW e, e = Explain(CreateTrace)
  PROVE  /\ Range(e.matched) = {EvaluatedNodes[i] : i \in
              {j \in 1..Len(records) : EvaluatedNodes[j].matched}}
         /\ Range(e.unmatched) = {EvaluatedNodes[i] : i \in
              {j \in 1..Len(records) : ~EvaluatedNodes[j].matched}}
         /\ Len(e.matched) + Len(e.unmatched) = Len(records)
<1>. DEFINE N == 1..Len(records)
            hits == {i \in DOMAIN EvaluatedNodes : EvaluatedNodes[i].matched}
            rest == DOMAIN EvaluatedNodes \ hits
<1>1. Len(records) \in Nat /\ EvaluatedNodes \in Seq(NodeShown)
      /\ Len(EvaluatedNodes) = Len(records)
  BY NodesShown
<1>2. DOMAIN EvaluatedNodes = N /\ hits \in SUBSET N /\ rest \in SUBSET N
  BY <1>1
<1>3. e.matched = EntriesAt(EvaluatedNodes, hits)
      /\ e.unmatched = EntriesAt(EvaluatedNodes, rest)
  BY Explained
<1>4. rest = {i \in N : ~EvaluatedNodes[i].matched}
      /\ hits = {i \in N : EvaluatedNodes[i].matched}
  BY <1>2
<1>5. hits \cup rest = N /\ hits \cap rest = {}
  BY <1>2
<1>. HIDE DEF hits, rest
<1>6. /\ e.matched \in Seq(NodeShown) /\ Len(e.matched) = Cardinality(hits)
      /\ Range(e.matched) = {EvaluatedNodes[i] : i \in hits}
  BY <1>1, <1>2, <1>3, EntriesAtType
<1>7. /\ e.unmatched \in Seq(NodeShown) /\ Len(e.unmatched) = Cardinality(rest)
      /\ Range(e.unmatched) = {EvaluatedNodes[i] : i \in rest}
  BY <1>1, <1>2, <1>3, EntriesAtType
<1>8. Cardinality(hits) + Cardinality(rest) = Len(records)
  <2>1. IsFiniteSet(N) /\ Cardinality(N) = Len(records)
    <3>1. 1 \in Int /\ Len(records) \in Int
      BY <1>1
    <3>2. /\ IsFiniteSet(1..Len(records))
          /\ Cardinality(1..Len(records))
               = IF 1 > Len(records) THEN 0 ELSE Len(records) - 1 + 1
      BY <3>1, FS_Interval
    <3>. QED BY <1>1, <3>2
  <2>2. /\ IsFiniteSet(hits) /\ IsFiniteSet(rest)
        /\ Cardinality(hits) \in Nat /\ Cardinality(rest) \in Nat
    BY <1>2, <2>1, FS_Subset, FS_CardinalityType
  <2>3. Cardinality(hits \cup rest)
          = Cardinality(hits) + Cardinality(rest) - Cardinality(hits \cap rest)
    BY <2>2, FS_Union
  <2>4. Cardinality(hits \cap rest) = 0
    BY <1>5, FS_EmptySet
  <2>5. Cardinality(hits \cup rest) = Len(records) /\ Cardinality(hits \cap rest) = 0
    BY <1>5, <2>1, <2>4
  <2>. QED BY <1>1, <2>2, <2>3, <2>5
<1>. QED BY <1>4, <1>6, <1>7, <1>8

\* The node that was chosen, and what the dominant boundary made of it.
LEMMA ResultFields ==
  ASSUME IInv, pc = "done"
  PROVE  \E n \in Nodes :
    /\ n # NoNode
    /\ \/ n \in Holds("decision")
       \/ Holds("decision") = {} /\ Fallbacks # {} /\ n = GetFallback
    /\ triggered = <<>> =>
         result.status = Base /\ result.selected = n /\ result.action = n
    /\ triggered # <<>> =>
         LET e == flow[Dominant].effect IN
         /\ Dominant \in Holds("boundary") /\ Dominant # NoNode
         /\ result.status = IF e = "block" THEN "blocked"
                            ELSE IF e = "escalate" THEN "pending_human" ELSE Base
         /\ result.action = IF e = "block" THEN NoNode
                            ELSE IF e \in {"override", "redirect"} THEN Dominant ELSE n
         /\ result.selected =
              IF e \in {"override", "redirect", "escalate"} THEN Dominant ELSE n
<1>1. TypeOK /\ \A n \in Nodes : n # NoNode /\ n \in Nat
  BY FlowType DEF IInv, Nodes, NoNode
<1>2. PICK n \in Chosen :
        result = IF triggered = <<>> THEN Selected(n)
                 ELSE ApplyEffect(Dominant, Selected(n))
  BY DEF IInv, Progress
<1>3. Holds("decision") \subseteq Nodes /\ Active("fallback") \subseteq Nodes
      /\ Holds("boundary") \subseteq Nodes /\ Fallbacks = Active("fallback")
  BY <1>1, NodeSets
<1>4. n \in Nodes
  BY <1>3 DEF Chosen
<1>5. \/ n \in Holds("decision")
      \/ Holds("decision") = {} /\ Fallbacks # {} /\ n = GetFallback
  <2>1. CASE Holds("decision") # {}
    BY <2>1 DEF Chosen
  <2>2. CASE Holds("decision") = {}
    <3>1. n \in Fallbacks /\ \A m \in Fallbacks : n <= m
      BY <1>3, <2>2 DEF Chosen
    <3>2. GetFallback \in Fallbacks /\ \A m \in Fallbacks : GetFallback <= m
      BY <1>1, <3>1, FallbackChosen
    <3>3. n <= GetFallback /\ GetFallback <= n /\ n \in Nat /\ GetFallback \in Nat
      BY <1>1, <1>3, <3>1, <3>2
    <3>. QED BY <2>2, <3>1, <3>3
  <2>. QED BY <2>1, <2>2
<1>6. CASE triggered = <<>>
  <2>1. result = Selected(n)
    BY <1>2, <1>6
  <2>2. result.status = Base /\ result.selected = n /\ result.action = n
    BY <2>1 DEF Selected
  <2>. QED BY <1>1, <1>4, <1>5, <1>6, <2>2
<1>7. CASE triggered # <<>>
  <2>. DEFINE e == flow[Dominant].effect
  <2>1. Dominant \in Holds("boundary") /\ Dominant \in Nodes
    BY <1>1, <1>3, <1>7, DominantDominates, AllCollected
  <2>2. result = ApplyEffect(Dominant, Selected(n))
    BY <1>2, <1>7
  <2>3. /\ result.status = IF e = "block" THEN "blocked"
                            ELSE IF e = "escalate" THEN "pending_human" ELSE Base
        /\ result.action = IF e = "block" THEN NoNode
                            ELSE IF e \in {"override", "redirect"} THEN Dominant ELSE n
        /\ result.selected =
              IF e \in {"override", "redirect", "escalate"} THEN Dominant ELSE n
    <3>1. /\ result.status = CASE e = "block" -> "blocked"
                                [] e = "escalate" -> "pending_human"
                                [] OTHER -> Base
          /\ result.action = CASE e = "block" -> NoNode
                                [] e \in {"override", "redirect"} -> Dominant
                                [] OTHER -> n
          /\ result.selected =
                IF e \in {"override", "redirect", "escalate"} THEN Dominant ELSE n
      BY <1>1, <2>1, <2>2, EffectFields
    <3>2. e = "block" => e # "escalate" /\ e \notin {"override", "redirect"}
      OBVIOUS
    <3>3. e = "escalate" => e \notin {"override", "redirect"}
      OBVIOUS
    <3>. HIDE DEF e
    <3>. QED BY <3>1, <3>2, <3>3, Zenon
  <2>. QED BY <1>1, <1>4, <1>5, <1>7, <2>1, <2>3
<1>. QED BY <1>6, <1>7

\* What an explanation lists, node by node.
LEMMA NodesExplained ==
  ASSUME IInv, Listed, pc = "done", NEW e, e = Explain(CreateTrace)
  PROVE  /\ \A n \in RecordedNodes :
              \E m \in Range(e.matched) \cup Range(e.unmatched) :
                m.node = n /\ m.type = flow[n].type
         /\ \A m \in Range(e.matched) \cup Range(e.unmatched) :
              m.node \in RecordedNodes /\ m.type = flow[m.node].type
         /\ \A m \in Range(e.matched) :
              \/ m.type = "fallback"
              \/ m.node \in Holds("decision") \cup Holds("boundary")
         /\ \A m \in Range(e.unmatched) :
              /\ m.type # "fallback"
              /\ m.node \notin Holds("decision") \cup Holds("boundary")
<1>. DEFINE E == EvaluatedNodes
<1>1. \A i \in 1..Len(records) :
        /\ E[i].node = records[i].node /\ E[i].type = flow[E[i].node].type
        /\ E[i].matched \in BOOLEAN
        /\ E[i].matched <=> \/ E[i].type = "fallback"
                            \/ E[i].node \in Holds("decision") \cup Holds("boundary")
  BY NodesShown
<1>2. /\ Range(e.matched) = {E[i] : i \in {j \in 1..Len(records) : E[j].matched}}
      /\ Range(e.unmatched) = {E[i] : i \in {j \in 1..Len(records) : ~E[j].matched}}
  BY ListsExplained
<1>. HIDE DEF E
<1>3. RecordedNodes = {E[i].node : i \in 1..Len(records)}
  BY <1>1 DEF RecordedNodes
<1>4. Range(e.matched) \cup Range(e.unmatched) = {E[i] : i \in 1..Len(records)}
  BY <1>2
<1>5. \A n \in RecordedNodes :
        \E m \in Range(e.matched) \cup Range(e.unmatched) :
          m.node = n /\ m.type = flow[n].type
  <2>. SUFFICES ASSUME NEW i \in 1..Len(records)
                PROVE  \E m \in Range(e.matched) \cup Range(e.unmatched) :
                         m.node = E[i].node /\ m.type = flow[E[i].node].type
    BY <1>3
  <2>. QED BY <1>1, <1>4
<1>6. \A m \in Range(e.matched) \cup Range(e.unmatched) :
        m.node \in RecordedNodes /\ m.type = flow[m.node].type
  BY <1>1, <1>3, <1>4
<1>7. \A m \in Range(e.matched) :
        \/ m.type = "fallback"
        \/ m.node \in Holds("decision") \cup Holds("boundary")
  BY <1>1, <1>2, Zenon
<1>8. \A m \in Range(e.unmatched) :
        m.type # "fallback" /\ m.node \notin Holds("decision") \cup Holds("boundary")
  BY <1>1, <1>2, Zenon
<1>. QED BY <1>5, <1>6, <1>7, <1>8

\* From what an explanation lists a reader can derive the status, the selected
\* node and the gate, and it lists every node used, once (ExplanationBuilder).
LEMMA ExplanationHolds ==
  ASSUME IInv, Listed, pc = "done" PROVE ExplanationJustifiesStatus
<1>. DEFINE e     == Explain(CreateTrace)
            hits  == {e.effects[i] : i \in {j \in DOMAIN e.effects :
                                          e.effects[j].triggered}}
            tops  == {h \in hits : \A g \in hits :
                    \/ g.severity < h.severity
                    \/ g.severity = h.severity /\ h.boundary <= g.boundary}
            said  == IF \E m \in Range(e.matched) : m.type = "decision"
                     THEN "confirmed" ELSE "fallback"
            rules == {h \in tops : h.effect \in
                    {"block", "override", "redirect", "escalate"}}
            moves == {h \in rules : h.effect # "block"}
            listed == Range(e.matched) \cup Range(e.unmatched)
            D     == EffectShown(Dominant)
            ef    == flow[Dominant].effect
<1>1. /\ e.selected = result.selected /\ e.status = result.status
      /\ e.action = result.action /\ e.gate = Gate /\ e.effects = BoundaryResults
  BY Explained
<1>2. e = Explain(CreateTrace)
  OBVIOUS
<1>3. tops = IF triggered = <<>> THEN {} ELSE {D}
  <2>1. hits = {BoundaryResults[i] : i \in
                  {j \in DOMAIN BoundaryResults : BoundaryResults[j].triggered}}
    BY <1>1
  <2>2. tops = {h \in hits : \A g \in hits :
                    \/ g.severity < h.severity
                    \/ g.severity = h.severity /\ h.boundary <= g.boundary}
    OBVIOUS
  <2>. HIDE DEF hits, D, tops
  <2>3. tops = IF triggered = <<>> THEN {} ELSE {EffectShown(Dominant)}
    BY <2>1, <2>2, TopEffect
  <2>. QED BY <2>3 DEF D
<1>4. Len(e.matched) + Len(e.unmatched) = Len(records)
  BY ListsExplained
<1>5. /\ \A k \in RecordedNodes :
             \E m \in listed : m.node = k /\ m.type = flow[k].type
      /\ \A m \in listed : m.node \in RecordedNodes /\ m.type = flow[m.node].type
      /\ \A m \in Range(e.matched) :
             \/ m.type = "fallback"
             \/ m.node \in Holds("decision") \cup Holds("boundary")
      /\ \A m \in Range(e.unmatched) :
             /\ m.type # "fallback"
             /\ m.node \notin Holds("decision") \cup Holds("boundary")
  BY NodesExplained
<1>. HIDE DEF e, D, tops
<1>6. D.boundary = Dominant /\ D.effect = ef
  BY EffectShownFields DEF D
<1>7. PICK n \in Nodes :
    /\ n # NoNode
    /\ \/ n \in Holds("decision")
       \/ Holds("decision") = {} /\ Fallbacks # {} /\ n = GetFallback
    /\ triggered = <<>> =>
         result.status = Base /\ result.selected = n /\ result.action = n
    /\ triggered # <<>> =>
         /\ Dominant \in Holds("boundary") /\ Dominant # NoNode
         /\ result.status = IF ef = "block" THEN "blocked"
                            ELSE IF ef = "escalate" THEN "pending_human" ELSE Base
         /\ result.action = IF ef = "block" THEN NoNode
                            ELSE IF ef \in {"override", "redirect"} THEN Dominant ELSE n
         /\ result.selected =
              IF ef \in {"override", "redirect", "escalate"} THEN Dominant ELSE n
  BY ResultFields
<1>8. /\ TypeOK
      /\ \A k \in Active("decision") : flow[k].type = "decision"
      /\ \A k \in Active("boundary") : flow[k].type = "boundary"
      /\ Holds("decision") \subseteq Active("decision")
      /\ Holds("boundary") \subseteq Active("boundary")
      /\ (Fallbacks # {} => flow[GetFallback].type = "fallback")
      /\ RecordedNodes =
           Active("decision") \cup Active("boundary")
             \cup (IF Holds("decision") = {} THEN {GetFallback} ELSE {})
  BY NodesShown, FallbackType DEF IInv, Active, Holds
<1>9. said = Base
  <2>1. ASSUME NEW k \in Holds("decision")
        PROVE  \E m \in Range(e.matched) : m.type = "decision"
    <3>1. PICK m \in Range(e.matched) \cup Range(e.unmatched) :
            m.node = k /\ m.type = "decision"
      BY <1>8, <1>5
    <3>2. m \notin Range(e.unmatched)
      BY <3>1, <1>5
    <3>. QED BY <3>1, <3>2
  <2>2. ASSUME NEW m \in Range(e.matched), m.type = "decision"
        PROVE  Holds("decision") # {}
    <3>1. m.node \in Holds("decision") \cup Holds("boundary") /\ flow[m.node].type = "decision"
      BY <2>2, <1>5
    <3>. QED BY <1>8, <3>1
  <2>. QED BY <2>1, <2>2 DEF Base
<1>10. /\ (\E h \in rules : h.effect = "block") <=> triggered # <<>> /\ ef = "block"
       /\ (\E h \in rules : h.effect = "escalate") <=> triggered # <<>> /\ ef = "escalate"
       /\ moves = IF triggered # <<>> /\ ef \in {"override", "redirect", "escalate"}
                  THEN {D} ELSE {}
  BY <1>3, <1>6
<1>11. e.status = IF \E h \in rules : h.effect = "block" THEN "blocked"
                  ELSE IF \E h \in rules : h.effect = "escalate"
                  THEN "pending_human" ELSE said
  BY <1>1, <1>7, <1>9, <1>10
<1>12. IF moves # {} THEN \A h \in moves : e.selected = h.boundary
       ELSE \E m \in Range(e.matched) :
              m.node = e.selected /\ m.type \in {"decision", "fallback"}
  <2>1. CASE moves # {}
    BY <1>1, <1>6, <1>7, <1>10, <2>1
  <2>2. CASE moves = {}
    <3>1. e.selected = n
      BY <1>1, <1>7, <1>10, <2>2
    <3>2. n \in RecordedNodes /\ flow[n].type \in {"decision", "fallback"}
          /\ (flow[n].type = "decision" => n \in Holds("decision"))
      BY <1>7, <1>8
    <3>3. PICK m \in Range(e.matched) \cup Range(e.unmatched) :
            m.node = n /\ m.type = flow[n].type
      BY <3>2, <1>5
    <3>4. m \notin Range(e.unmatched)
      BY <3>2, <3>3, <1>5
    <3>. QED BY <2>2, <3>1, <3>2, <3>3, <3>4
  <2>. QED BY <2>1, <2>2
<1>13. e.action = NoNode <=> e.status = "blocked"
  <2>1. Base # "blocked"
    BY DEF Base
  <2>. QED BY <1>1, <1>7, <2>1
<1>14. e.gate # NoGate <=> e.status = "pending_human"
  BY <1>1 DEF Gate, NoGate
<1>15. \A h \in Range(e.effects) :
         \E m \in Range(IF h.triggered THEN e.matched ELSE e.unmatched) :
           m.node = h.boundary
  <2>1. Range(e.effects) = {EffectShown(b) : b \in Active("boundary")}
    BY <1>1, EffectsShown
  <2>2. ASSUME NEW b \in Active("boundary")
        PROVE  \E m \in Range(IF EffectShown(b).triggered THEN e.matched ELSE e.unmatched) :
                 m.node = EffectShown(b).boundary
    <3>1. PICK m \in Range(e.matched) \cup Range(e.unmatched) :
            m.node = b /\ m.type = flow[b].type
      BY <1>8, <1>5
    <3>2. m \in Range(e.matched) <=> b \in Holds("boundary")
      <4>1. b \notin Holds("decision") /\ m.type # "fallback"
        BY <1>8, <3>1
      <4>2. m \in Range(e.matched) => m.node \in Holds("decision") \cup Holds("boundary")
        BY <4>1, <1>5
      <4>3. m \in Range(e.unmatched) => m.node \notin Holds("boundary")
        BY <1>5
      <4>. QED BY <3>1, <4>1, <4>2, <4>3
    <3>3. EffectShown(b).boundary = b /\ (EffectShown(b).triggered <=> b \in Holds("boundary"))
      BY EffectShownFields
    <3>4. CASE b \in Holds("boundary")
      BY <3>1, <3>2, <3>3, <3>4
    <3>5. CASE b \notin Holds("boundary")
      BY <3>1, <3>2, <3>3, <3>5
    <3>. QED BY <3>4, <3>5
  <2>. QED BY <2>1, <2>2
<1>16. {m.node : m \in listed} = RecordedNodes
  BY <1>5
<1>17. {m.node : m \in listed} =
         Active("decision") \cup Active("boundary")
           \cup (IF said = "fallback" THEN {GetFallback} ELSE {})
  <2>1. said = "fallback" <=> Holds("decision") = {}
    BY <1>9 DEF Base
  <2>. QED BY <1>8, <1>16, <2>1
<1>18. Len(e.matched) + Len(e.unmatched) = Cardinality({m.node : m \in listed})
  <2>. DEFINE s == [i \in 1..Len(records) |-> records[i].node]
  <2>1. Len(records) \in Nat /\ s \in Seq(RecordedNodes) /\ Len(s) = Len(records)
    BY NodesShown DEF RecordedNodes
  <2>2. \A i, j \in 1..Len(s) : s[i] = s[j] => i = j
    BY <2>1 DEF Listed
  <2>3. Range(s) = RecordedNodes
    BY DEF Range, RecordedNodes
  <2>. HIDE DEF s
  <2>4. Cardinality(RecordedNodes) = Len(records)
    BY <2>1, <2>2, <2>3, DistinctEntries
  <2>. QED BY <1>16, <2>4, <1>4
<1>. QED
  BY <1>11, <1>12, <1>13, <1>14, <1>15, <1>17, <1>18
     DEF ExplanationJustifiesStatus, e, tops

\* The explanation GET /decision/{id}/explain gives is evidence for the decision,
\* however many nodes and boundaries the flow has: its status, the selected node
\* and the gate follow from the conditions and effects it lists, and it lists
\* every node the evaluation used, once.
THEOREM ExplanationIsEvidence == Spec => []ExplanationJustifiesStatus
<1>1. IInv /\ Listed => ExplanationJustifiesStatus
  <2>1. pc # "done" => ExplanationJustifiesStatus
    BY DEF ExplanationJustifiesStatus
  <2>. QED BY <2>1, ExplanationHolds
<1>. QED BY <1>1, AlwaysListed, PTL

-----------------------------------------------------------------------------
(* The rebuilt trace.                                                      *)

\* The events of the decision, that of a node, and what the last of them says.
Events == EventsOf(CreateTrace)

NodeEntry(i) == Entry(NodeStep[EvaluatedNodes[i].type], EvaluatedNodes[i])

OutcomePayload ==
  [status   |-> result.status,
   outcome  |-> IF matched # <<>> THEN "pass" ELSE "fail",
   selected |-> result.selected]

Told ==
  {Entry("signal", [signal |-> "the signal"]), Entry("human", [gate |-> Gate]),
   Entry("human", [gate |-> "approve"]), Entry("outcome", OutcomePayload)}
    \cup {NodeEntry(i) : i \in 1..Len(records)}

\* What the primary result of the trace says.
LEMMA TraceFields ==
  ASSUME NEW p, p = CreateTrace.results[1]
  PROVE  /\ CreateTrace.nodes = EvaluatedNodes /\ CreateTrace.state = "completed"
         /\ CreateTrace.results # <<>>
         /\ p.status = result.status /\ p.selected = result.selected
         /\ p.outcome = IF matched # <<>> THEN "pass" ELSE "fail"
         /\ p.action = result.action /\ p.boundaries = BoundaryResults
         /\ p.gate = Gate
<1>. DEFINE q == [status     |-> result.status,
                  outcome    |-> IF matched # <<>> THEN "pass" ELSE "fail",
                  selected   |-> result.selected,
                  action     |-> result.action,
                  boundaries |-> BoundaryResults,
                  gate       |-> Gate]
<1>1. /\ q.status = result.status /\ q.selected = result.selected
      /\ q.outcome = IF matched # <<>> THEN "pass" ELSE "fail"
      /\ q.action = result.action /\ q.boundaries = BoundaryResults /\ q.gate = Gate
  OBVIOUS
<1>2. CreateTrace = [state |-> "completed", nodes |-> EvaluatedNodes, results |-> <<q>>]
  BY DEF CreateTrace
<1>. HIDE DEF q
<1>3. /\ CreateTrace.nodes = EvaluatedNodes /\ CreateTrace.state = "completed"
      /\ CreateTrace.results = <<q>>
  BY <1>2
<1>4. CreateTrace.results # <<>> /\ p = q
  BY <1>3
<1>. QED BY <1>1, <1>3, <1>4

\* The events of a decision: the signal, the nodes in the order of their records,
\* possibly a gate, and the outcome at the end.
LEMMA EventsShown ==
  ASSUME IInv, Listed, pc = "done"
  PROVE  /\ Len(records) \in Nat /\ Events \in Seq(Told) /\ Len(Events) \in Nat
         /\ Len(Events) > Len(records) + 1
         /\ Events[1] = Entry("signal", [signal |-> "the signal"])
         /\ \A i \in 1..Len(records) : Events[i + 1] = NodeEntry(i)
         /\ \A i \in (Len(records) + 2)..(Len(Events) - 1) :
              Events[i] = Entry("human", [gate |-> Gate])
         /\ Events[Len(Events)] = Entry("outcome", OutcomePayload)
<1>. DEFINE N == Len(records)
<1>1. /\ N \in Nat /\ DOMAIN EvaluatedNodes = 1..N
  BY NodesShown
<1>2. \A i \in 1..N : NodeEntry(i) \in Told
  BY DEF Told
<1>. HIDE DEF N
<1>. DEFINE p == CreateTrace.results[1]
            S == <<Entry("signal", [signal |-> "the signal"])>>
            D == [i \in 1..N |-> NodeEntry(i)]
            H == IF Gate = NoGate THEN <<>> ELSE <<Entry("human", [gate |-> Gate])>>
            O == <<Entry("outcome", OutcomePayload)>>
<1>3. /\ CreateTrace.nodes = EvaluatedNodes
      /\ p.status = result.status /\ p.selected = result.selected
      /\ p.outcome = IF matched # <<>> THEN "pass" ELSE "fail"
      /\ p.gate = Gate
  BY TraceFields
<1>4. Events = S \o D \o H \o O
  <2>. HIDE DEF p
  <2>1. [status |-> p.status, outcome |-> p.outcome, selected |-> p.selected]
          = OutcomePayload
    BY <1>3 DEF OutcomePayload
  <2>2. [i \in DOMAIN CreateTrace.nodes |->
           Entry(NodeStep[CreateTrace.nodes[i].type], CreateTrace.nodes[i])] = D
    BY <1>1, <1>3 DEF NodeEntry
  <2>3. (IF p.gate = NoGate THEN <<>> ELSE <<Entry("human", [gate |-> p.gate])>>) = H
    BY <1>3
  <2>4. Events =
          S \o [i \in DOMAIN CreateTrace.nodes |->
                  Entry(NodeStep[CreateTrace.nodes[i].type], CreateTrace.nodes[i])]
            \o (IF p.gate = NoGate THEN <<>> ELSE <<Entry("human", [gate |-> p.gate])>>)
            \o <<Entry("outcome", [status |-> p.status, outcome |-> p.outcome,
                                   selected |-> p.selected])>>
    BY DEF Events, EventsOf, p
  <2>. HIDE DEF S, D, H, O
  <2>. QED BY <2>1, <2>2, <2>3, <2>4 DEF O
<1>5. S \in Seq(Told) /\ Len(S) = 1 /\ O \in Seq(Told) /\ Len(O) = 1
  <2>1. /\ Entry("signal", [signal |-> "the signal"]) \in Told
        /\ Entry("outcome", OutcomePayload) \in Told
    BY DEF Told
  <2>. QED BY <2>1, OneEntry
<1>6. /\ S[1] = Entry("signal", [signal |-> "the signal"])
      /\ O[1] = Entry("outcome", OutcomePayload)
  OBVIOUS
<1>7. D \in Seq(Told) /\ Len(D) = N
  BY <1>2, <1>1
<1>8. \A i \in 1..N : D[i] = NodeEntry(i)
  OBVIOUS
<1>9. /\ H \in Seq(Told) /\ Len(H) \in {0, 1}
      /\ (Len(H) = 1 => H[1] = Entry("human", [gate |-> Gate]))
  <2>1. Entry("human", [gate |-> Gate]) \in Told
    BY DEF Told
  <2>2. <<>> \in Seq(Told) /\ Len(<<>>) = 0
    OBVIOUS
  <2>. QED BY <2>1, <2>2, OneEntry
<1>. DEFINE A == S \o D
            B == A \o H
            h == Len(H)
            M == N + 2 + h
<1>. HIDE DEF S, D, H, O
<1>10. /\ A \in Seq(Told) /\ Len(A) = 1 + N
       /\ A[1] = S[1] /\ \A i \in 1..N : A[1 + i] = D[i]
  <2>1. /\ A \in Seq(Told) /\ Len(A) = Len(S) + Len(D)
        /\ \A i \in 1..Len(S) : A[i] = S[i]
        /\ \A i \in 1..Len(D) : A[Len(S) + i] = D[i]
    <3>1. S \in Seq(Told) /\ D \in Seq(Told)
      BY <1>5, <1>7
    <3>2. /\ S \o D \in Seq(Told) /\ Len(S \o D) = Len(S) + Len(D)
          /\ \A i \in 1..Len(S) : (S \o D)[i] = S[i]
          /\ \A i \in 1..Len(D) : (S \o D)[Len(S) + i] = D[i]
      BY <3>1, Concat
    <3>. QED BY <3>2
  <2>. HIDE DEF A
  <2>2. 1 \in 1..Len(S) /\ Len(S) = 1 /\ Len(D) = N
    BY <1>5, <1>7
  <2>. QED BY <1>7, <2>1, <2>2
<1>. HIDE DEF A
<1>11. /\ B \in Seq(Told) /\ Len(B) = 1 + N + h
       /\ \A i \in 1..(1 + N) : B[i] = A[i]
       /\ \A i \in 1..h : B[1 + N + i] = H[i]
  BY <1>9, <1>10, Concat
<1>. HIDE DEF B
<1>12. /\ Events \in Seq(Told) /\ Len(Events) = 1 + N + h + 1
       /\ \A i \in 1..(1 + N + h) : Events[i] = B[i]
       /\ \A i \in 1..1 : Events[1 + N + h + i] = O[i]
  <2>1. Events = B \o O
    BY <1>4 DEF A, B
  <2>2. /\ Events \in Seq(Told) /\ Len(Events) = Len(B) + Len(O)
        /\ \A i \in 1..Len(B) : Events[i] = B[i]
        /\ \A i \in 1..Len(O) : Events[Len(B) + i] = O[i]
    <3>. HIDE DEF h
    <3>1. B \in Seq(Told) /\ O \in Seq(Told)
      BY <1>5, <1>11
    <3>2. /\ B \o O \in Seq(Told) /\ Len(B \o O) = Len(B) + Len(O)
          /\ \A i \in 1..Len(B) : (B \o O)[i] = B[i]
          /\ \A i \in 1..Len(O) : (B \o O)[Len(B) + i] = O[i]
      BY <3>1, Concat
    <3>. QED BY <2>1, <3>2
  <2>3. Len(B) = 1 + N + h /\ Len(O) = 1
    BY <1>5, <1>11
  <2>. HIDE DEF h
  <2>. QED BY <2>2, <2>3
<1>13. h \in {0, 1} /\ Len(Events) = M
  <2>1. 1 + N + h + 1 = N + 2 + h
    BY <1>1, <1>9
  <2>. QED BY <1>9, <1>12, <2>1
<1>. HIDE DEF h
<1>14. /\ M \in Nat /\ M > N + 1
       /\ 1 \in 1..(1 + N) /\ 1 \in 1..(1 + N + h)
       /\ \A i \in 1..N : i + 1 = 1 + i /\ 1 + i \in 1..(1 + N) /\ 1 + i \in 1..(1 + N + h)
       /\ 1 \in 1..1 /\ 1 + N + h + 1 = M
       /\ \A i \in (N + 2)..(M - 1) :
            /\ h = 1 /\ i \in 1..(1 + N + h)
            /\ 1 \in 1..h /\ i = 1 + N + 1
  <2>1. CASE h = 0
    BY <1>1, <2>1
  <2>2. CASE h = 1
    BY <1>1, <2>2
  <2>. QED BY <1>13, <2>1, <2>2
<1>. HIDE DEF M
<1>15. Events[1] = Entry("signal", [signal |-> "the signal"])
  <2>1. Events[1] = B[1] /\ B[1] = A[1] /\ A[1] = S[1]
    BY <1>10, <1>11, <1>12, <1>14
  <2>. QED BY <1>6, <2>1
<1>16. \A i \in 1..N : Events[i + 1] = NodeEntry(i)
  <2>. SUFFICES ASSUME NEW i \in 1..N PROVE Events[i + 1] = NodeEntry(i)
    OBVIOUS
  <2>1. i + 1 = 1 + i /\ 1 + i \in 1..(1 + N) /\ 1 + i \in 1..(1 + N + h)
    BY <1>14
  <2>2. Events[1 + i] = B[1 + i] /\ B[1 + i] = A[1 + i] /\ A[1 + i] = D[i]
    BY <1>10, <1>11, <1>12, <2>1
  <2>. QED BY <1>8, <2>1, <2>2
<1>17. \A i \in (N + 2)..(M - 1) : Events[i] = Entry("human", [gate |-> Gate])
  <2>. SUFFICES ASSUME NEW i \in (N + 2)..(M - 1)
                PROVE  Events[i] = Entry("human", [gate |-> Gate])
    OBVIOUS
  <2>1. h = 1 /\ i \in 1..(1 + N + h) /\ 1 \in 1..h /\ i = 1 + N + 1
    BY <1>14
  <2>2. Events[i] = B[i] /\ B[1 + N + 1] = H[1]
    BY <1>11, <1>12, <2>1
  <2>. QED BY <1>9, <2>1, <2>2 DEF h
<1>18. Events[M] = Entry("outcome", OutcomePayload)
  <2>1. Events[1 + N + h + 1] = O[1]
    BY <1>12, <1>14
  <2>. QED BY <1>6, <1>14, <2>1
<1>. QED BY <1>1, <1>12, <1>13, <1>14, <1>15, <1>16, <1>17, <1>18 DEF N

\* Which events are read as nodes, and which as outcomes.
LEMMA EventSteps ==
  ASSUME IInv, Listed, pc = "done"
  PROVE  /\ \A i \in 1..Len(Events) :
              Events[i].step \in {"decision", "boundary"}
                <=> i - 1 \in 1..Len(records) /\ EvaluatedNodes[i - 1].type # "fallback"
         /\ \A i \in 1..Len(Events) :
              Events[i].step = "outcome"
                <=> \/ i = Len(Events)
                    \/ i - 1 \in 1..Len(records) /\ EvaluatedNodes[i - 1].type = "fallback"
         /\ \A i \in 1..Len(records) : Events[i + 1].payload = EvaluatedNodes[i]
         /\ Events[Len(Events)].payload = OutcomePayload
<1>. DEFINE N == Len(records)
<1>1. /\ N \in Nat /\ Len(Events) \in Nat /\ Len(Events) > N + 1
      /\ Events[1] = Entry("signal", [signal |-> "the signal"])
      /\ \A i \in 1..N : Events[i + 1] = NodeEntry(i)
      /\ \A i \in (N + 2)..(Len(Events) - 1) :
           Events[i] = Entry("human", [gate |-> Gate])
      /\ Events[Len(Events)] = Entry("outcome", OutcomePayload)
  BY EventsShown
<1>2. \A i \in 1..N : EvaluatedNodes[i].type \in {"decision", "boundary", "fallback"}
  BY NodesShown DEF NodeKind
<1>. HIDE DEF N
<1>3. \A s, x : Entry(s, x).step = s /\ Entry(s, x).payload = x
  BY DEF Entry
<1>4. /\ NodeStep["decision"] = "decision" /\ NodeStep["boundary"] = "boundary"
      /\ NodeStep["fallback"] = "outcome"
  BY DEF NodeStep
<1>5. \A i \in 1..N :
        /\ Events[i + 1].step = NodeStep[EvaluatedNodes[i].type]
        /\ Events[i + 1].payload = EvaluatedNodes[i]
  <2>1. \A i : /\ NodeEntry(i).step = NodeStep[EvaluatedNodes[i].type]
               /\ NodeEntry(i).payload = EvaluatedNodes[i]
    BY <1>3, Zenon DEF NodeEntry
  <2>. QED BY <1>1, <2>1, Zenon
<1>6. \A i \in 1..N :
        /\ Events[i + 1].step \in {"decision", "boundary"}
             <=> EvaluatedNodes[i].type # "fallback"
        /\ Events[i + 1].step = "outcome" <=> EvaluatedNodes[i].type = "fallback"
  BY <1>2, <1>4, <1>5
<1>7. /\ Events[1].step = "signal"
      /\ \A i \in (N + 2)..(Len(Events) - 1) : Events[i].step = "human"
      /\ Events[Len(Events)].step = "outcome"
      /\ Events[Len(Events)].payload = OutcomePayload
  <2>1. Events[1].step = "signal"
    BY <1>1, <1>3
  <2>2. /\ Events[Len(Events)].step = "outcome"
        /\ Events[Len(Events)].payload = OutcomePayload
    <3>. DEFINE o == Events[Len(Events)]
    <3>1. o = Entry("outcome", OutcomePayload)
      BY <1>1
    <3>. HIDE DEF o
    <3>2. o.step = "outcome" /\ o.payload = OutcomePayload
      BY <1>3, <3>1
    <3>. QED BY <3>2 DEF o
  <2>3. ASSUME NEW i \in (N + 2)..(Len(Events) - 1)
        PROVE  Events[i].step = "human"
    <3>1. Events[i] = Entry("human", [gate |-> Gate])
      BY <1>1
    <3>. QED BY <1>3, <3>1
  <2>. QED BY <2>1, <2>2, <2>3
<1>8. \A i \in 1..Len(Events) :
        \/ i = 1 /\ i - 1 \notin 1..N /\ i # Len(Events)
        \/ i - 1 \in 1..N /\ i = (i - 1) + 1 /\ i # Len(Events)
        \/ i \in (N + 2)..(Len(Events) - 1) /\ i - 1 \notin 1..N /\ i # Len(Events)
        \/ i = Len(Events) /\ i - 1 \notin 1..N
  <2>. DEFINE M == Len(Events)
  <2>1. N \in Nat /\ M \in Nat /\ M > N + 1
    BY <1>1
  <2>. HIDE DEF M
  <2>2. \A i \in 1..M :
          \/ i = 1 /\ i - 1 \notin 1..N /\ i # M
          \/ i - 1 \in 1..N /\ i = (i - 1) + 1 /\ i # M
          \/ i \in (N + 2)..(M - 1) /\ i - 1 \notin 1..N /\ i # M
          \/ i = M /\ i - 1 \notin 1..N
    BY <2>1
  <2>. QED BY <2>2 DEF M
<1>9. ASSUME NEW i \in 1..Len(Events)
      PROVE  /\ Events[i].step \in {"decision", "boundary"}
                  <=> i - 1 \in 1..N /\ EvaluatedNodes[i - 1].type # "fallback"
             /\ Events[i].step = "outcome"
                  <=> \/ i = Len(Events)
                      \/ i - 1 \in 1..N /\ EvaluatedNodes[i - 1].type = "fallback"
  <2>1. CASE i = 1 /\ i - 1 \notin 1..N /\ i # Len(Events)
    BY <1>7, <2>1
  <2>2. CASE i - 1 \in 1..N /\ i = (i - 1) + 1 /\ i # Len(Events)
    <3>. DEFINE j == i - 1
    <3>. HIDE DEF j
    <3>1. j \in 1..N /\ i = j + 1
      BY <2>2 DEF j
    <3>. QED BY <1>6, <2>2, <3>1 DEF j
  <2>3. CASE i \in (N + 2)..(Len(Events) - 1) /\ i - 1 \notin 1..N /\ i # Len(Events)
    BY <1>7, <2>3
  <2>4. CASE i = Len(Events) /\ i - 1 \notin 1..N
    BY <1>7, <2>4
  <2>. QED BY <1>8, <2>1, <2>2, <2>3, <2>4
<1>. QED BY <1>5, <1>7, <1>9 DEF N

\* Where the first l events are read as nodes, and where as outcomes.
NodePositions(l) ==
  {i \in 1..l : i - 1 \in 1..Len(records) /\ EvaluatedNodes[i - 1].type # "fallback"}

OutcomePositions(l, m) ==
  {i \in 1..l : \/ i = m
                \/ i - 1 \in 1..Len(records) /\ EvaluatedNodes[i - 1].type = "fallback"}

\* The events up to a cut, or all of them with a resolution after them.
Retold(s) ==
  \A i \in 1..Len(s) : \/ i \in 1..Len(Events) /\ s[i] = Events[i]
                       \/ i > Len(Events) /\ s[i].step = "human"

\* The trace that is rebuilt from the events of a decision.
LEMMA Rebuilt ==
  ASSUME IInv, Listed, pc = "done",
         NEW s \in Seq(Told), Retold(s)
  PROVE  LET t == ProjectTrace(s)
             I == NodePositions(Len(s))
         IN
         /\ I \in SUBSET (1..Len(s)) /\ Cardinality(I) \in Nat
         /\ \A k \in 1..Cardinality(I) : Nth(I, k) \in I
         /\ \A i \in I : \E k \in 1..Cardinality(I) : Nth(I, k) = i
         /\ t.nodes \in Seq(NodeShown) /\ Len(t.nodes) = Cardinality(I)
         /\ \A k \in 1..Cardinality(I) : t.nodes[k] = EvaluatedNodes[Nth(I, k) - 1]
         /\ Outcomes(s) = OutcomePositions(Len(s), Len(Events))
         /\ t.state = IF Outcomes(s) # {} THEN "completed" ELSE "evaluating"
         /\ t.results = IF Outcomes(s) # {}
                        THEN <<BuildResult(OutcomeEvent(s).payload)>> ELSE <<>>
<1>. DEFINE N == Len(records)
            M == Len(Events)
            L == Len(s)
            t == ProjectTrace(s)
            I == NodePositions(L)
<1>1. t = ProjectTrace(s) /\ I = NodePositions(L)
  OBVIOUS
<1>. HIDE DEF t, I
<1>2. /\ \A i \in 1..M :
           Events[i].step \in {"decision", "boundary"}
             <=> i - 1 \in 1..N /\ EvaluatedNodes[i - 1].type # "fallback"
      /\ \A i \in 1..M :
           Events[i].step = "outcome"
             <=> \/ i = M
                 \/ i - 1 \in 1..N /\ EvaluatedNodes[i - 1].type = "fallback"
      /\ \A i \in 1..N : Events[i + 1].payload = EvaluatedNodes[i]
  BY EventSteps
<1>3. N \in Nat /\ M \in Nat /\ M > N + 1 /\ L \in Nat /\ DOMAIN s = 1..L
  <2>1. N \in Nat /\ M \in Nat /\ M > N + 1
    BY EventsShown
  <2>. QED BY <2>1
<1>4. EvaluatedNodes \in Seq(NodeShown) /\ Len(EvaluatedNodes) = N
  BY NodesShown
<1>5. \A i \in 1..L :
        /\ s[i].step \in {"decision", "boundary"} <=> i \in I
        /\ s[i].step = "outcome" <=> i \in OutcomePositions(L, M)
  <2>. SUFFICES ASSUME NEW i \in 1..L
                PROVE  /\ s[i].step \in {"decision", "boundary"} <=> i \in I
                       /\ s[i].step = "outcome" <=> i \in OutcomePositions(L, M)
    OBVIOUS
  <2>1. CASE i \in 1..M /\ s[i] = Events[i]
    <3>1. s[i].step \in {"decision", "boundary"} <=> i \in I
      BY <1>1, <1>2, <2>1 DEF NodePositions
    <3>2. s[i].step = "outcome" <=> i \in OutcomePositions(L, M)
      BY <1>2, <2>1 DEF OutcomePositions
    <3>. QED BY <3>1, <3>2
  <2>2. CASE i > M /\ s[i].step = "human"
    <3>1. i # M /\ i - 1 \notin 1..N
      BY <1>3, <2>2
    <3>. QED BY <1>1, <2>2, <3>1 DEF NodePositions, OutcomePositions
  <2>. QED BY <2>1, <2>2 DEF Retold
<1>6. I \in SUBSET (1..L) /\ OutcomePositions(L, M) \in SUBSET (1..L)
  BY <1>1 DEF NodePositions, OutcomePositions
<1>7. /\ {i \in DOMAIN s : s[i].step \in {"decision", "boundary"}} = I
      /\ Outcomes(s) = OutcomePositions(L, M)
  BY <1>3, <1>5, <1>6 DEF Outcomes
<1>. DEFINE n == EntriesAt(s, I)
<1>8. /\ Cardinality(I) \in Nat /\ Len(n) = Cardinality(I) /\ DOMAIN n = 1..Cardinality(I)
      /\ \A k \in 1..Cardinality(I) : Nth(I, k) \in I /\ n[k] = s[Nth(I, k)]
  <2>1. I \in SUBSET (1..Len(s))
    BY <1>6
  <2>. HIDE DEF n
  <2>2. /\ n \in Seq(Told) /\ Len(n) = Cardinality(I) /\ Cardinality(I) \in Nat
        /\ \A k \in 1..Cardinality(I) : Nth(I, k) \in I /\ n[k] = s[Nth(I, k)]
    BY <2>1, EntriesAtType DEF n
  <2>. QED BY <2>2
<1>9. \A i \in I : \E k \in 1..Cardinality(I) : Nth(I, k) = i
  BY <1>3, <1>6, NthType
<1>10. /\ t.nodes = [k \in DOMAIN n |-> n[k].payload]
       /\ t.state = IF Outcomes(s) # {} THEN "completed" ELSE "evaluating"
       /\ t.results = IF Outcomes(s) # {}
                      THEN <<BuildResult(OutcomeEvent(s).payload)>> ELSE <<>>
  <2>. DEFINE r == IF Outcomes(s) # {}
                   THEN <<BuildResult(OutcomeEvent(s).payload)>> ELSE <<>>
              m == [k \in DOMAIN n |-> n[k].payload]
              a == IF Outcomes(s) # {} THEN "completed" ELSE "evaluating"
  <2>1. t = [state |-> a, nodes |-> m, results |-> r]
    BY <1>1, <1>7 DEF ProjectTrace
  <2>. HIDE DEF a, m, r
  <2>2. t.state = a /\ t.nodes = m /\ t.results = r
    BY <2>1
  <2>. QED BY <2>2 DEF a, m, r
<1>. HIDE DEF n
<1>11. \A i \in I : /\ i - 1 \in 1..N /\ s[i].payload = EvaluatedNodes[i - 1]
                    /\ EvaluatedNodes[i - 1] \in NodeShown
  <2>. SUFFICES ASSUME NEW i \in I
                PROVE  /\ i - 1 \in 1..N /\ s[i].payload = EvaluatedNodes[i - 1]
                       /\ EvaluatedNodes[i - 1] \in NodeShown
    OBVIOUS
  <2>1. i \in 1..L /\ i - 1 \in 1..N
    BY <1>1 DEF NodePositions
  <2>2. i \in 1..M /\ s[i] = Events[i] /\ (i - 1) + 1 = i
    <3>1. ~(i > M) /\ (i - 1) + 1 = i
      BY <1>3, <2>1
    <3>. QED BY <2>1, <3>1 DEF Retold
  <2>3. Events[(i - 1) + 1].payload = EvaluatedNodes[i - 1]
    BY <1>2, <2>1
  <2>. QED BY <1>4, <2>1, <2>2, <2>3
<1>12. \A k \in 1..Cardinality(I) :
         /\ t.nodes[k] = EvaluatedNodes[Nth(I, k) - 1]
         /\ t.nodes[k] \in NodeShown
  BY <1>8, <1>10, <1>11
<1>13. t.nodes \in Seq(NodeShown) /\ Len(t.nodes) = Cardinality(I)
  <2>1. t.nodes = [k \in 1..Cardinality(I) |-> t.nodes[k]]
    BY <1>8, <1>10
  <2>. QED BY <1>8, <1>12, <2>1
<1>. QED BY <1>6, <1>7, <1>8, <1>9, <1>10, <1>12, <1>13 DEF t, I

\* What the whole ledger says of the outcome.
LEMMA LastOutcome ==
  ASSUME IInv, Listed, pc = "done",
         NEW s \in Seq(Told), Retold(s), Len(s) >= Len(Events),
         NEW r, r = BuildResult(OutcomeEvent(s).payload)
  PROVE  /\ Outcomes(s) # {}
         /\ r = [status |-> result.status,
                 outcome |-> IF matched # <<>> THEN "pass" ELSE "fail",
                 selected |-> result.selected, action |-> NoNode,
                 boundaries |-> <<>>, gate |-> NoGate]
<1>. DEFINE N == Len(records)
            M == Len(Events)
<1>1. /\ N \in Nat /\ M \in Nat /\ M > N + 1
      /\ Events[M].payload = OutcomePayload /\ Len(s) \in Nat
  <2>1. N \in Nat /\ M \in Nat /\ M > N + 1
    BY EventsShown
  <2>2. Events[M].payload = OutcomePayload
    BY EventSteps
  <2>. QED BY <2>1, <2>2
<1>2. Outcomes(s) = OutcomePositions(Len(s), M)
  BY Rebuilt
<1>3. M \in Outcomes(s) /\ \A i \in Outcomes(s) : i \in Nat /\ i <= M
  BY <1>1, <1>2 DEF OutcomePositions
<1>4. (CHOOSE i \in Outcomes(s) : \A j \in Outcomes(s) : j <= i) = M
  <2>1. \A i \in Outcomes(s) : (\A j \in Outcomes(s) : j <= i) => i = M
    BY <1>1, <1>3
  <2>. QED BY <1>3, <2>1
<1>5. OutcomeEvent(s) = Events[M]
  <2>1. M \in 1..Len(s) /\ ~(M > M)
    BY <1>1
  <2>2. s[M] = Events[M]
    BY <2>1 DEF Retold
  <2>. QED BY <1>4, <2>2 DEF OutcomeEvent
<1>. DEFINE o == OutcomePayload
<1>6. /\ "status" \in DOMAIN o /\ "outcome" \in DOMAIN o /\ "selected" \in DOMAIN o
      /\ o["status"] = result.status /\ o["selected"] = result.selected
      /\ o["outcome"] = IF matched # <<>> THEN "pass" ELSE "fail"
  BY DEF OutcomePayload
<1>. HIDE DEF o
<1>7. r = BuildResult(o)
  BY <1>1, <1>5 DEF o
<1>. QED BY <1>3, <1>6, <1>7 DEF BuildResult, Get

\* The node map of a trace that shows some of the used nodes says of each of them
\* whether it matched.
LEMMA NodeMapShown ==
  ASSUME IInv, Listed, pc = "done",
         NEW t, t.nodes \in Seq(NodeShown), NEW J \in SUBSET (1..Len(records)),
         Range(t.nodes) = {EvaluatedNodes[j] : j \in J}
  PROVE  /\ DOMAIN NodeMap(t) = {EvaluatedNodes[j].node : j \in J}
         /\ \A j \in J : NodeMap(t)[EvaluatedNodes[j].node] = EvaluatedNodes[j].matched
<1>. DEFINE E == EvaluatedNodes
            s == t.nodes
            shown(n) == \E i \in DOMAIN s : s[i].node = n /\ s[i].matched
<1>1. /\ \A i, j \in 1..Len(records) : E[i].node = E[j].node => i = j
      /\ \A i \in 1..Len(records) : E[i].matched \in BOOLEAN
  BY NodesShown
<1>2. NodeMap(t) = [n \in {s[i].node : i \in DOMAIN s} |-> shown(n)]
  BY DEF NodeMap
<1>. HIDE DEF E
<1>3. Range(s) = {s[i] : i \in DOMAIN s}
  BY DEF Range
<1>4. /\ \A i \in DOMAIN s : \E j \in J : s[i] = E[j]
      /\ \A j \in J : \E i \in DOMAIN s : s[i] = E[j]
  BY <1>3 DEF E
<1>. HIDE DEF s
<1>5. {s[i].node : i \in DOMAIN s} = {E[j].node : j \in J}
  BY <1>4
<1>6. ASSUME NEW j \in J
      PROVE  shown(E[j].node) <=> E[j].matched
  <2>1. ASSUME NEW i \in DOMAIN s, s[i].node = E[j].node, s[i].matched
        PROVE  E[j].matched
    <3>1. PICK k \in J : s[i] = E[k]
      BY <1>4
    <3>2. k = j
      BY <1>1, <2>1, <3>1
    <3>. QED BY <2>1, <3>1, <3>2
  <2>2. ASSUME E[j].matched
        PROVE  \E i \in DOMAIN s : s[i].node = E[j].node /\ s[i].matched
    <3>1. PICK i \in DOMAIN s : s[i] = E[j]
      BY <1>4
    <3>. QED BY <2>2, <3>1
  <2>. QED BY <2>1, <2>2
<1>7. \A n : shown(n) \in BOOLEAN
  OBVIOUS
<1>. HIDE DEF shown
<1>8. ASSUME NEW j \in J
      PROVE  NodeMap(t)[E[j].node] = E[j].matched
  <2>1. E[j].node \in {s[i].node : i \in DOMAIN s}
    BY <1>5
  <2>2. NodeMap(t)[E[j].node] = shown(E[j].node)
    BY <1>2, <2>1
  <2>3. E[j].matched \in BOOLEAN /\ shown(E[j].node) \in BOOLEAN
    BY <1>1, <1>7
  <2>4. shown(E[j].node) = E[j].matched
    BY <1>6, <2>3, Zenon
  <2>. QED BY <2>2, <2>4, Zenon
<1>. QED BY <1>2, <1>5, <1>8 DEF E

\* The paths of the fields the events leave out.
LEMMA LostPaths ==
  ASSUME NEW a \in BOOLEAN, NEW b \in BOOLEAN, NEW c \in BOOLEAN, NEW d \in BOOLEAN
  PROVE  Paths([status |-> FALSE, outcome |-> FALSE, selected |-> FALSE,
                action |-> a, count |-> b, triggered_ids |-> c, gate |-> d,
                gate_status |-> FALSE, state |-> FALSE])
           = Paths([action |-> a, count |-> b, triggered_ids |-> c, gate |-> d])
<1>. DEFINE x == [status |-> FALSE, outcome |-> FALSE, selected |-> FALSE,
                  action |-> a, count |-> b, triggered_ids |-> c, gate |-> d,
                  gate_status |-> FALSE, state |-> FALSE]
            y == [action |-> a, count |-> b, triggered_ids |-> c, gate |-> d]
<1>1. /\ DOMAIN x = {"status", "outcome", "selected", "action", "count",
                     "triggered_ids", "gate", "gate_status", "state"}
      /\ DOMAIN y = {"action", "count", "triggered_ids", "gate"}
  OBVIOUS
<1>2. /\ x["status"] = FALSE /\ x["outcome"] = FALSE /\ x["selected"] = FALSE
      /\ x["gate_status"] = FALSE /\ x["state"] = FALSE
      /\ x["action"] = a /\ x["count"] = b /\ x["triggered_ids"] = c /\ x["gate"] = d
      /\ y["action"] = a /\ y["count"] = b /\ y["triggered_ids"] = c /\ y["gate"] = d
  OBVIOUS
<1>. HIDE DEF x, y
<1>3. \A f : (f \in DOMAIN x /\ x[f]) <=> (f \in DOMAIN y /\ y[f])
  BY <1>1, <1>2
<1>4. {f \in DOMAIN x : x[f]} = {f \in DOMAIN y : y[f]}
  BY <1>3
<1>5. Paths(x) = Paths(y)
  BY <1>4 DEF Paths
<1>. QED BY <1>5 DEF x, y

\* The boundaries of the stored trace.
LEMMA StoredBoundaries ==
  ASSUME IInv, Listed, pc = "done",
         NEW p, p.boundaries = BoundaryResults, NEW q, q.boundaries = <<>>
  PROVE  /\ (Len(p.boundaries) # Len(q.boundaries)) <=> BoundaryResults # <<>>
         /\ (TriggeredIds(p) # TriggeredIds(q)) <=> triggered # <<>>
<1>1. /\ BoundaryResults \in Seq({EffectShown(b) : b \in Active("boundary")})
      /\ Range(BoundaryResults) = {EffectShown(b) : b \in Active("boundary")}
  BY EffectsShown
<1>2. (Len(p.boundaries) # Len(q.boundaries)) <=> BoundaryResults # <<>>
  BY <1>1
<1>3. TriggeredIds(q) = {}
  BY DEF TriggeredIds
<1>4. TriggeredIds(p) = {h.boundary : h \in {g \in Range(BoundaryResults) : g.triggered}}
  BY DEF TriggeredIds, Range
<1>5. triggered = <<>> <=> Holds("boundary") = {}
  BY AllCollected
<1>6. Holds("boundary") \subseteq Active("boundary")
  BY DEF Holds, Active
<1>7. {g \in Range(BoundaryResults) : g.triggered} = {} <=> Holds("boundary") = {}
  BY <1>1, <1>6, EffectShownFields
<1>. QED BY <1>2, <1>3, <1>4, <1>5, <1>7

\* The one record of a fallback comes right after those of the decision nodes.
LEMMA FallbackRecord ==
  ASSUME IInv, Listed, pc = "done",
         NEW f, f = Cardinality(Active("decision")) + 1
  PROVE  /\ \A j \in 1..Len(records) :
              EvaluatedNodes[j].type = "fallback" <=> matched = <<>> /\ j = f
         /\ matched = <<>> => f \in 1..Len(records) /\ EvaluatedNodes[f].node = GetFallback
<1>1. /\ \A i \in 1..Len(records) :
           /\ EvaluatedNodes[i].node = records[i].node
           /\ EvaluatedNodes[i].type = flow[EvaluatedNodes[i].node].type
      /\ \A i, j \in 1..Len(records) :
           EvaluatedNodes[i].node = EvaluatedNodes[j].node => i = j
      /\ RecordedNodes =
           Active("decision") \cup Active("boundary")
             \cup (IF Holds("decision") = {} THEN {GetFallback} ELSE {})
  BY NodesShown
<1>2. matched = <<>> <=> Holds("decision") = {}
  BY AllCollected
<1>3. matched = <<>> => f \in 1..Len(records) /\ EvaluatedNodes[f].node = GetFallback
  BY <1>1 DEF Listed
<1>4. matched = <<>> => flow[GetFallback].type = "fallback"
  <2>1. matched = <<>> => Fallbacks # {}
    BY <1>2, NodeSets DEF IInv, Progress, Chosen
  <2>. QED BY <2>1, FallbackType DEF IInv
<1>5. ASSUME NEW j \in 1..Len(records), EvaluatedNodes[j].type = "fallback"
      PROVE  matched = <<>> /\ j = f
  <2>1. EvaluatedNodes[j].node \in RecordedNodes
    BY <1>1 DEF RecordedNodes
  <2>2. EvaluatedNodes[j].node \notin Active("decision") \cup Active("boundary")
    BY <1>1, <1>5 DEF Active
  <2>. QED BY <1>1, <1>2, <1>3, <2>1, <2>2
<1>6. ASSUME NEW j \in 1..Len(records), matched = <<>>, j = f
      PROVE  EvaluatedNodes[j].type = "fallback"
  BY <1>1, <1>3, <1>4, <1>6
<1>. QED BY <1>3, <1>5, <1>6

\* What the events leave out of the stored trace.
Lost ==
  Paths([action        |-> result.action # NoNode,
         count         |-> BoundaryResults # <<>>,
         triggered_ids |-> triggered # <<>>,
         gate          |-> Gate # NoGate])
    \cup (IF matched = <<>> THEN {<<"present", GetFallback>>} ELSE {})

\* The nodes of a trace rebuilt from the whole ledger.
LEMMA WholeNodes ==
  ASSUME IInv, Listed, pc = "done",
         NEW s \in Seq(Told), Retold(s), Len(s) >= Len(Events),
         NEW t, t = ProjectTrace(s),
         NEW J, J = {j \in 1..Len(records) : EvaluatedNodes[j].type # "fallback"}
  PROVE  /\ t.nodes \in Seq(NodeShown)
         /\ Range(t.nodes) = {EvaluatedNodes[j] : j \in J}
<1>. DEFINE I == NodePositions(Len(s))
            E == EvaluatedNodes
<1>1. /\ I \in SUBSET (1..Len(s)) /\ Cardinality(I) \in Nat
      /\ \A k \in 1..Cardinality(I) : Nth(I, k) \in I
      /\ \A i \in I : \E k \in 1..Cardinality(I) : Nth(I, k) = i
      /\ t.nodes \in Seq(NodeShown) /\ Len(t.nodes) = Cardinality(I)
      /\ \A k \in 1..Cardinality(I) : t.nodes[k] = E[Nth(I, k) - 1]
  BY Rebuilt
<1>2. /\ \A i \in I : i - 1 \in J
      /\ \A j \in J : j + 1 \in I /\ (j + 1) - 1 = j
  <2>1. /\ Len(records) \in Nat /\ Len(Events) \in Nat /\ Len(Events) > Len(records) + 1
    BY EventsShown
  <2>2. Len(s) \in Nat
    OBVIOUS
  <2>3. \A j \in 1..Len(records) : j + 1 \in 1..Len(s) /\ (j + 1) - 1 = j
    BY <2>1, <2>2
  <2>. QED BY <2>3 DEF NodePositions
<1>. HIDE DEF I, E
<1>3. Range(t.nodes) = {t.nodes[k] : k \in 1..Cardinality(I)}
  BY <1>1 DEF Range
<1>4. \A k \in 1..Cardinality(I) : \E j \in J : t.nodes[k] = E[j]
  BY <1>1, <1>2
<1>5. \A j \in J : \E k \in 1..Cardinality(I) : t.nodes[k] = E[j]
  <2>. SUFFICES ASSUME NEW j \in J PROVE \E k \in 1..Cardinality(I) : t.nodes[k] = E[j]
    OBVIOUS
  <2>1. PICK k \in 1..Cardinality(I) : Nth(I, k) = j + 1
    BY <1>1, <1>2
  <2>2. t.nodes[k] = E[(j + 1) - 1]
    BY <1>1, <2>1
  <2>. QED BY <1>2, <2>2
<1>6. Range(t.nodes) = {E[j] : j \in J}
  <2>. DEFINE Y == {E[j] : j \in J}
  <2>1. \A y : y \in Y <=> \E j \in J : y = E[j]
    OBVIOUS
  <2>. HIDE DEF Y
  <2>2. \A x \in Range(t.nodes) : x \in Y
    BY <1>3, <1>4, <2>1
  <2>3. \A y \in Y : y \in Range(t.nodes)
    BY <1>3, <1>5, <2>1
  <2>. QED BY <2>2, <2>3 DEF Y
<1>. QED BY <1>1, <1>6 DEF E

\* Rebuilt from the whole ledger, the trace lacks what the events leave out.
LEMMA DiffsShown ==
  ASSUME IInv, Listed, pc = "done",
         NEW s \in Seq(Told), Retold(s), Len(s) >= Len(Events)
  PROVE  TraceDiffs(CreateTrace, ProjectTrace(s)) = Lost
<1>. DEFINE u  == CreateTrace
            t  == ProjectTrace(s)
            N  == Len(records)
            E  == EvaluatedNodes
            J  == {j \in 1..N : E[j].type # "fallback"}
            b  == Primary(u)
            q  == Primary(t)
            bn == NodeMap(u)
            tn == NodeMap(t)
            both == DOMAIN bn \cap DOMAIN tn
            d1 == b.status # q.status
            d2 == b.outcome # q.outcome
            d3 == b.selected # q.selected
            d4 == b.action # q.action
            d5 == Len(b.boundaries) # Len(q.boundaries)
            d6 == TriggeredIds(b) # TriggeredIds(q)
            d7 == (b.gate = NoGate) # (q.gate = NoGate)
            d8 == NoGate \notin {b.gate, q.gate} /\ b.gate # q.gate
            d9 == u.state # t.state
            differs == [status |-> d1, outcome |-> d2, selected |-> d3,
                        action |-> d4, count |-> d5, triggered_ids |-> d6, gate |-> d7,
                        gate_status |-> d8, state |-> d9]
            present == {<<"present", n>> : n \in (DOMAIN bn \cup DOMAIN tn) \ both}
            other   == {<<"matched", n>> : n \in {m \in both : bn[m] # tn[m]}}
<1>1. TraceDiffs(CreateTrace, ProjectTrace(s)) = Paths(differs) \cup present \cup other
  BY DEF TraceDiffs
<1>. HIDE DEF u, t
<1>2. /\ u.nodes = EvaluatedNodes /\ u.state = "completed"
      /\ b.status = result.status /\ b.selected = result.selected
      /\ b.outcome = IF matched # <<>> THEN "pass" ELSE "fail"
      /\ b.action = result.action /\ b.boundaries = BoundaryResults
      /\ b.gate = Gate
  BY TraceFields DEF u, Primary
<1>3. /\ t.state = "completed"
      /\ q = [status |-> result.status,
              outcome |-> IF matched # <<>> THEN "pass" ELSE "fail",
              selected |-> result.selected, action |-> NoNode,
              boundaries |-> <<>>, gate |-> NoGate]
  <2>1. /\ Outcomes(s) # {}
        /\ BuildResult(OutcomeEvent(s).payload) =
             [status |-> result.status,
              outcome |-> IF matched # <<>> THEN "pass" ELSE "fail",
              selected |-> result.selected, action |-> NoNode,
              boundaries |-> <<>>, gate |-> NoGate]
    BY LastOutcome
  <2>2. t.state = "completed" /\ t.results = <<BuildResult(OutcomeEvent(s).payload)>>
    BY <2>1, Rebuilt DEF t
  <2>3. t.results # <<>> /\ t.results[1] = BuildResult(OutcomeEvent(s).payload)
    BY <2>2
  <2>. QED BY <2>1, <2>2, <2>3 DEF Primary
<1>4. /\ q.status = result.status /\ q.selected = result.selected
      /\ q.outcome = IF matched # <<>> THEN "pass" ELSE "fail"
      /\ q.action = NoNode /\ q.boundaries = <<>> /\ q.gate = NoGate
  BY <1>3
<1>. HIDE DEF b, q
<1>5. Paths(differs) = Paths([action        |-> result.action # NoNode,
                              count         |-> BoundaryResults # <<>>,
                              triggered_ids |-> triggered # <<>>,
                              gate          |-> Gate # NoGate])
  <2>. DEFINE e4 == result.action # NoNode
              e5 == BoundaryResults # <<>>
              e6 == triggered # <<>>
              e7 == Gate # NoGate
  <2>1. d1 = FALSE /\ d2 = FALSE /\ d3 = FALSE /\ d8 = FALSE /\ d9 = FALSE
    BY <1>2, <1>3, <1>4
  <2>2. d4 = e4
    BY <1>2, <1>4
  <2>3. d5 = e5 /\ d6 = e6
    BY <1>2, <1>4, StoredBoundaries
  <2>4. d7 = e7
    BY <1>2, <1>4
  <2>5. e4 \in BOOLEAN /\ e5 \in BOOLEAN /\ e6 \in BOOLEAN /\ e7 \in BOOLEAN
    OBVIOUS
  <2>. HIDE DEF d1, d2, d3, d4, d5, d6, d7, d8, d9, e4, e5, e6, e7
  <2>6. differs = [status |-> FALSE, outcome |-> FALSE, selected |-> FALSE,
                   action |-> e4, count |-> e5, triggered_ids |-> e6, gate |-> e7,
                   gate_status |-> FALSE, state |-> FALSE]
    BY <2>1, <2>2, <2>3, <2>4, Zenon
  <2>7. Paths(differs) = Paths([action |-> e4, count |-> e5,
                                triggered_ids |-> e6, gate |-> e7])
    BY <2>5, <2>6, LostPaths
  <2>. QED BY <2>7 DEF e4, e5, e6, e7
<1>6. /\ DOMAIN bn = {E[j].node : j \in 1..N}
      /\ \A j \in 1..N : bn[E[j].node] = E[j].matched
  <2>1. E \in Seq(NodeShown) /\ Len(E) = N /\ DOMAIN E = 1..N
    BY NodesShown
  <2>2. u.nodes \in Seq(NodeShown) /\ Range(u.nodes) = {E[j] : j \in 1..N}
    BY <1>2, <2>1 DEF Range
  <2>. QED BY <2>2, NodeMapShown
<1>7. /\ DOMAIN tn = {E[j].node : j \in J}
      /\ \A j \in J : tn[E[j].node] = E[j].matched
  <2>1. t.nodes \in Seq(NodeShown) /\ Range(t.nodes) = {E[j] : j \in J}
    BY WholeNodes DEF t
  <2>2. J \in SUBSET (1..N)
    OBVIOUS
  <2>. QED BY <2>1, <2>2, NodeMapShown
<1>8. /\ \A j \in 1..N : j \in J <=> E[j].type # "fallback"
      /\ \A i, j \in 1..N : E[i].node = E[j].node => i = j
  BY NodesShown
<1>9. \E f : /\ \A j \in 1..N : E[j].type = "fallback" <=> matched = <<>> /\ j = f
             /\ matched = <<>> => f \in 1..N /\ E[f].node = GetFallback
  BY FallbackRecord
<1>. HIDE DEF J, E, N, bn, tn
<1>10. J \subseteq 1..N
  BY DEF J
<1>11. both = DOMAIN tn /\ DOMAIN bn \cup DOMAIN tn = DOMAIN bn
  BY <1>6, <1>7, <1>10
<1>12. other = {}
  <2>1. \A n \in both : bn[n] = tn[n]
    BY <1>6, <1>7, <1>10, <1>11
  <2>. QED BY <2>1
<1>13. DOMAIN bn \ DOMAIN tn = IF matched = <<>> THEN {GetFallback} ELSE {}
  <2>1. \A j \in 1..N : E[j].node \in DOMAIN tn <=> j \in J
    BY <1>7, <1>8, <1>10
  <2>2. \A n : n \in DOMAIN bn \ DOMAIN tn
                 <=> \E j \in 1..N : n = E[j].node /\ E[j].type = "fallback"
    BY <1>6, <1>8, <2>1
  <2>. QED BY <1>9, <2>2
<1>14. present = IF matched = <<>> THEN {<<"present", GetFallback>>} ELSE {}
  BY <1>11, <1>13
<1>. QED BY <1>1, <1>5, <1>12, <1>14 DEF Lost

\* Rebuilt from a ledger cut short, the trace shows the nodes up to the cut, and is
\* completed only by the record of a fallback.
LEMMA CutShown ==
  ASSUME IInv, Listed, pc = "done", NEW n \in 1..(Len(Events) - 1),
         NEW cut, cut = ProjectTrace(SubSeq(Events, 1, n)),
         NEW full, full = ProjectTrace(Events)
  PROVE  /\ cut.nodes = SubSeq(full.nodes, 1, Len(cut.nodes))
         /\ cut.state = "completed" <=>
              matched = <<>> /\ n > 1 + Cardinality(Active("decision"))
         /\ cut.state = "completed" => cut.results[1].status = "confirmed"
<1>. DEFINE s == SubSeq(Events, 1, n)
            M == Len(Events)
            N == Len(records)
            E == EvaluatedNodes
            I == NodePositions(M)
            J == NodePositions(n)
            c == Cardinality(Active("decision"))
            f == c + 1
<1>1. /\ N \in Nat /\ M \in Nat /\ M > N + 1 /\ Events \in Seq(Told)
  BY EventsShown
<1>2. /\ s \in Seq(Told) /\ Len(s) = n /\ \A i \in 1..n : s[i] = Events[i]
      /\ n \in Nat /\ n < M /\ n \in 0..M /\ \A i \in 1..n : i \in 1..M
  BY <1>1
<1>3. s = SubSeq(Events, 1, n)
  OBVIOUS
<1>. HIDE DEF s
<1>4. Retold(s) /\ Retold(Events)
  BY <1>2 DEF Retold
<1>5. /\ J \in SUBSET (1..n) /\ Cardinality(J) \in Nat
      /\ \A k \in 1..Cardinality(J) : Nth(J, k) \in J
      /\ cut.nodes \in Seq(NodeShown) /\ Len(cut.nodes) = Cardinality(J)
      /\ \A k \in 1..Cardinality(J) : cut.nodes[k] = E[Nth(J, k) - 1]
      /\ Outcomes(s) = OutcomePositions(n, M)
      /\ cut.state = IF Outcomes(s) # {} THEN "completed" ELSE "evaluating"
      /\ cut.results = IF Outcomes(s) # {}
                       THEN <<BuildResult(OutcomeEvent(s).payload)>> ELSE <<>>
  BY <1>2, <1>3, <1>4, Rebuilt
<1>6. /\ I \in SUBSET (1..M) /\ Cardinality(I) \in Nat
      /\ full.nodes \in Seq(NodeShown) /\ Len(full.nodes) = Cardinality(I)
      /\ \A k \in 1..Cardinality(I) : full.nodes[k] = E[Nth(I, k) - 1]
  BY <1>1, <1>4, Rebuilt
<1>7. cut.nodes = SubSeq(full.nodes, 1, Len(cut.nodes))
  <2>1. J = {i \in I : i <= n}
    BY <1>2 DEF NodePositions
  <2>. HIDE DEF I, J, E
  <2>2. /\ Cardinality(J) <= Cardinality(I)
        /\ \A k \in 1..Cardinality(J) : Nth(J, k) = Nth(I, k)
    <3>1. M \in Nat /\ I \in SUBSET (1..M) /\ n \in 0..M
      BY <1>1, <1>2, <1>6
    <3>. HIDE DEF M
    <3>. QED BY <2>1, <3>1, EntriesAtPrefix
  <2>3. \A k \in 1..Cardinality(J) : k \in 1..Cardinality(I)
    BY <1>5, <1>6, <2>2
  <2>4. \A k \in 1..Cardinality(J) : cut.nodes[k] = full.nodes[k]
    BY <1>5, <1>6, <2>2, <2>3
  <2>5. SubSeq(full.nodes, 1, Cardinality(J)) = [k \in 1..Cardinality(J) |-> full.nodes[k]]
    BY <1>5, <1>6
  <2>6. cut.nodes = [k \in 1..Cardinality(J) |-> cut.nodes[k]]
    BY <1>5
  <2>7. [k \in 1..Cardinality(J) |-> cut.nodes[k]]
          = [k \in 1..Cardinality(J) |-> full.nodes[k]]
    BY <2>4
  <2>. QED BY <1>5, <2>5, <2>6, <2>7
<1>8. c \in Nat
  <2>1. IsFiniteSet(Nodes) /\ Active("decision") \subseteq Nodes
    BY FlowType, FS_Interval, NodeSets DEF IInv, Nodes
  <2>. QED BY <2>1, FS_Subset, FS_CardinalityType
<1>9. /\ \A j \in 1..N : E[j].type = "fallback" <=> matched = <<>> /\ j = f
      /\ matched = <<>> => f \in 1..N
  BY FallbackRecord
<1>. HIDE DEF E, N, M, I, J, c
<1>10. \A i \in 1..n : i \in Outcomes(s) <=> matched = <<>> /\ i = f + 1
  <2>. SUFFICES ASSUME NEW i \in 1..n
                PROVE  i \in Outcomes(s) <=> matched = <<>> /\ i = f + 1
    OBVIOUS
  <2>1. i \in Outcomes(s) <=> i - 1 \in 1..N /\ E[i - 1].type = "fallback"
    <3>1. i # M
      BY <1>1, <1>2
    <3>. QED BY <1>5, <3>1 DEF OutcomePositions, N, E
  <2>2. i = f + 1 <=> i - 1 = f
    BY <1>8
  <2>. QED BY <1>9, <2>1, <2>2
<1>11. \A i \in Outcomes(s) : i \in 1..n
  BY <1>5 DEF OutcomePositions
<1>12. matched = <<>> => (f + 1 \in 1..n <=> n > 1 + c)
  BY <1>1, <1>2, <1>8
<1>13. Outcomes(s) # {} <=> matched = <<>> /\ n > 1 + c
  BY <1>10, <1>11, <1>12
<1>14. ASSUME Outcomes(s) # {}
       PROVE  cut.results[1].status = "confirmed"
  <2>1. /\ Outcomes(s) = {f + 1} /\ matched = <<>> /\ f + 1 \in 1..n
        /\ f \in 1..N /\ (f + 1) - 1 = f
    BY <1>8, <1>9, <1>10, <1>11, <1>12, <1>13, <1>14
  <2>2. (CHOOSE i \in Outcomes(s) : \A j \in Outcomes(s) : j <= i) = f + 1
    BY <1>2, <2>1
  <2>3. OutcomeEvent(s) = Events[f + 1]
    BY <1>2, <2>1, <2>2 DEF OutcomeEvent
  <2>4. OutcomeEvent(s).payload = E[f]
    BY <2>1, <2>3, EventSteps DEF E, N
  <2>. DEFINE m == E[f]
  <2>5. m = [node |-> m.node, type |-> m.type, matched |-> m.matched]
    BY <2>1, NodesShown DEF E, N
  <2>. HIDE DEF m
  <2>6. "status" \notin DOMAIN m
    BY <2>5
  <2>7. Get(m, "status", "confirmed") = "confirmed"
    BY <2>6 DEF Get
  <2>8. BuildResult(m).status = "confirmed"
    BY <2>7 DEF BuildResult
  <2>9. cut.results[1] = BuildResult(m)
    BY <1>5, <1>14, <2>4 DEF m
  <2>. QED BY <2>8, <2>9
<1>. QED BY <1>5, <1>7, <1>13, <1>14 DEF c

\* The stored trace against the rebuilt ones.
LEMMA ProjectionHolds ==
  ASSUME IInv, Listed, pc = "done"
  PROVE  ProjectionNeverMisreports
<1>. DEFINE stored == CreateTrace
            r      == stored.results[1]
            lost   == Paths([action        |-> r.action # NoNode,
                             count         |-> r.boundaries # <<>>,
                             triggered_ids |-> triggered # <<>>,
                             gate          |-> r.gate # NoGate])
                        \cup (IF matched = <<>> THEN {<<"present", GetFallback>>}
                              ELSE {})
<1>1. r.action = result.action /\ r.boundaries = BoundaryResults /\ r.gate = Gate
  BY TraceFields
<1>2. lost = Lost
  <2>. HIDE DEF r
  <2>. QED BY <1>1, Zenon DEF Lost
<1>3. Events \in Seq(Told) /\ Len(Events) \in Nat
  BY EventsShown
<1>4. ASSUME NEW later \in {<<>>, <<Resolution("approve")>>}
      PROVE  TraceDiffs(stored, ProjectTrace(Events \o later)) = Lost
  <2>1. /\ later \in Seq(Told) /\ \A i \in 1..Len(later) : later[i].step = "human"
    <3>1. Resolution("approve") \in Told
      BY DEF Resolution, Told
    <3>2. Resolution("approve").step = "human"
      BY DEF Resolution, Entry
    <3>. DEFINE x == Resolution("approve")
    <3>. HIDE DEF x
    <3>3. later \in {<<>>, <<x>>} /\ x \in Told /\ x.step = "human"
      BY <3>1, <3>2 DEF x
    <3>4. CASE later = <<>>
      BY <3>4
    <3>5. CASE later = <<x>>
      <4>1. <<x>> \in Seq(Told) /\ Len(<<x>>) = 1 /\ <<x>>[1] = x
        BY <3>3, OneEntry
      <4>. QED BY <3>3, <3>5, <4>1
    <3>. QED BY <3>3, <3>4, <3>5
  <2>. DEFINE s == Events \o later
  <2>2. /\ s \in Seq(Told) /\ Len(later) \in Nat /\ Len(s) = Len(Events) + Len(later)
        /\ \A i \in 1..Len(Events) : s[i] = Events[i]
        /\ \A i \in 1..Len(later) : s[Len(Events) + i] = later[i]
    BY <1>3, <2>1, Concat
  <2>. HIDE DEF s
  <2>3. ASSUME NEW i \in 1..Len(s), i \notin 1..Len(Events)
        PROVE  i > Len(Events) /\ s[i].step = "human"
    <3>. DEFINE k == i - Len(Events)
    <3>1. i > Len(Events) /\ k \in 1..Len(later) /\ i = Len(Events) + k
      BY <1>3, <2>2, <2>3
    <3>. HIDE DEF k
    <3>2. s[Len(Events) + k] = later[k]
      BY <2>2, <3>1
    <3>. QED BY <2>1, <3>1, <3>2
  <2>4. Retold(s)
    BY <2>2, <2>3 DEF Retold
  <2>5. Len(s) >= Len(Events)
    BY <1>3, <2>2
  <2>6. TraceDiffs(stored, ProjectTrace(s)) = Lost
    BY <2>2, <2>4, <2>5, DiffsShown
  <2>. QED BY <2>6 DEF s
<1>5. ASSUME NEW n \in 1..(Len(Events) - 1)
      PROVE  LET cut  == ProjectTrace(SubSeq(Events, 1, n))
                 full == ProjectTrace(Events)
             IN  /\ cut.nodes = SubSeq(full.nodes, 1, Len(cut.nodes))
                 /\ cut.state = "completed" <=>
                      matched = <<>> /\ n > 1 + Cardinality(Active("decision"))
                 /\ cut.state = "completed" =>
                      cut.results[1].status = "confirmed"
  BY CutShown
<1>6. Events = EventsOf(stored)
  BY DEF Events
<1>7. pc = "done" =>
        /\ \A later \in {<<>>, <<Resolution("approve")>>} :
             TraceDiffs(stored, ProjectTrace(Events \o later)) = lost
        /\ \A n \in 1..(Len(Events) - 1) :
             LET cut  == ProjectTrace(SubSeq(Events, 1, n))
                 full == ProjectTrace(Events)
             IN  /\ cut.nodes = SubSeq(full.nodes, 1, Len(cut.nodes))
                 /\ cut.state = "completed" <=>
                      matched = <<>> /\ n > 1 + Cardinality(Active("decision"))
                 /\ cut.state = "completed" =>
                      cut.results[1].status = "confirmed"
  <2>. HIDE DEF lost, stored
  <2>. QED BY <1>2, <1>4, <1>5
<1>. HIDE DEF Events
<1>. QED BY <1>6, <1>7, Zenon DEF ProjectionNeverMisreports

\* Whatever the flow, the trace LedgerProjector rebuilds from the whole ledger, with
\* or without a resolution after it, differs from the stored one in what the events
\* leave out and in nothing else; rebuilt from a ledger cut short it shows the nodes
\* up to the cut, and is completed only by the event of a fallback node.
THEOREM ProjectionIsFaithful == Spec => []ProjectionNeverMisreports
<1>1. IInv /\ Listed => ProjectionNeverMisreports
  <2>1. pc # "done" => ProjectionNeverMisreports
    BY DEF ProjectionNeverMisreports
  <2>. QED BY <2>1, ProjectionHolds
<1>. QED BY <1>1, AlwaysListed, PTL

=============================================================================
