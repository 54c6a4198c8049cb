------------------------ MODULE FlowValidationProofs ------------------------
(***************************************************************************)
(* Proofs about FlowValidation: the verdict on a flow is exact, whichever  *)
(* flow it is and in whatever order the two searches take its edges.       *)
(***************************************************************************)
EXTENDS FlowValidation, RangeLemmas,
        SequenceTheorems, TLAPS

TypeOK ==
  /\ flow \in Flows
  /\ pc \in {"shape", "reach", "cycles", "contracts", "accepted", "rejected"}
  /\ why \in {"none", "shape", "orphan", "cycle", "contract"}
  /\ queue \subseteq Node /\ reachable \subseteq Node
  /\ visited \subseteq Node
  /\ stack \in Seq(Node)
  /\ todo \in [Node -> SUBSET Node]

-----------------------------------------------------------------------------
(* The inductive invariant.                                                *)

\* The rules of AcceptedIffValid that need a definition.
ShapeKept ==
  /\ flow.unique /\ flow.entry \in flow.nodes
  /\ EdgesKnown /\ Cardinality(flow.fallback) = 1

Orphans ==
  {n \in flow.nodes \ flow.fallback :
     \E S \in SUBSET Node : flow.entry \in S /\ Closed(S) /\ n \notin S}

\* What is found or queued is in every closed set around the entry, and only a
\* queued node can have a successor that was not found.
ReachExact ==
  /\ pc = "shape" => reachable = {}
  /\ pc = "reach" =>
       /\ flow.entry \in reachable \cup queue
       /\ \A n \in reachable : Successors(n) \subseteq reachable \cup queue
       /\ \A S \in SUBSET Node :
            flow.entry \in S /\ Closed(S) => reachable \cup queue \subseteq S

\* The nodes whose call of dfs has returned.
Searched == visited \ InStack

\* The call stack is a path of distinct nodes, and what a call no longer has to
\* look at was searched or is being searched by the call above it.
StackIsPath ==
  /\ InStack \subseteq visited /\ visited \subseteq flow.nodes
  /\ \A i, j \in 1..Len(stack) : stack[i] = stack[j] => i = j
  /\ \A i \in 1..Len(stack) :
       /\ i < Len(stack) => stack[i + 1] \in Successors(stack[i])
       /\ todo[stack[i]] \subseteq Successors(stack[i])
       /\ \A m \in Successors(stack[i]) \ todo[stack[i]] :
            m \in Searched \/ (i < Len(stack) /\ m = stack[i + 1])

\* No edge leaves the searched nodes, and no cycle is among them.
SearchedIsAcyclic ==
  /\ Closed(Searched)
  /\ \A S \in SUBSET Searched :
       S # {} => \E n \in S : Successors(n) \cap S = {}

\* A check that was passed found its rule kept; the one that failed did not.
VerdictSoFar ==
  /\ pc \in {"reach", "cycles", "contracts", "accepted"} => ShapeKept
  /\ pc \in {"cycles", "contracts", "accepted"} => Orphans = {}
  /\ pc \in {"contracts", "accepted"} => flow.allowCycles \/ Acyclic
  /\ pc = "cycles" => ~flow.allowCycles
  /\ pc = "accepted" => flow.contracts
  /\ pc = "rejected" =>
       \/ why = "shape" /\ ~ShapeKept
       \/ why = "orphan" /\ Orphans # {}
       \/ why = "cycle" /\ ~flow.allowCycles /\ ~Acyclic
       \/ why = "contract" /\ ~flow.contracts

IInv ==
  /\ TypeOK /\ ReachExact /\ StackIsPath /\ SearchedIsAcyclic /\ VerdictSoFar

-----------------------------------------------------------------------------
(* Types.                                                                  *)

\* What the checks read of a flow is of its type.
LEMMA FlowType ==
  ASSUME TypeOK
  PROVE  /\ flow.nodes \subseteq Node /\ flow.entry \in Node
         /\ flow.allowCycles \in BOOLEAN /\ flow.contracts \in BOOLEAN
         /\ \A n : Successors(n) \subseteq Node
BY FlowsAssumption DEF TypeOK, Flow, Successors

\* The innermost call of dfs, when there is one.
LEMMA TopType ==
  ASSUME TypeOK, stack # <<>>
  PROVE  /\ Len(stack) \in Nat \ {0} /\ Len(stack) \in 1..Len(stack)
         /\ Top = stack[Len(stack)] /\ Top \in Node /\ Top \in InStack
BY DEF TypeOK, Top, InStack, Range

\* A call of dfs puts its node on top of the stack.
LEMMA CallType ==
  ASSUME TypeOK, NEW n \in Node, Call(n)
  PROVE  /\ visited' \subseteq Node /\ visited' = visited \cup {n}
         /\ stack' \in Seq(Node) /\ Len(stack) \in Nat
         /\ Len(stack') = Len(stack) + 1 /\ stack'[Len(stack) + 1] = n
         /\ \A i \in 1..Len(stack) : stack'[i] = stack[i]
         /\ InStack' = InStack \cup {n}
<1>1. stack' = Append(stack, n) /\ stack \in Seq(Node)
  BY DEF TypeOK, Call
<1>2. InStack' = InStack \cup {n}
  BY <1>1, RangeAppend DEF InStack
<1>. QED BY <1>1, <1>2 DEF TypeOK, Call

\* A return takes the top off the stack.
LEMMA ReturnType ==
  ASSUME TypeOK, stack # <<>>, stack' = SubSeq(stack, 1, Len(stack) - 1)
  PROVE  /\ stack' \in Seq(Node) /\ Len(stack') = Len(stack) - 1
         /\ \A i \in 1..Len(stack') : stack'[i] = stack[i]
         /\ InStack' = {stack[i] : i \in 1..Len(stack) - 1}
<1>1. Len(stack) \in Nat \ {0} /\ stack \in Seq(Node)
  BY TopType DEF TypeOK
<1>2. /\ stack' \in Seq(Node) /\ Len(stack') = Len(stack) - 1
      /\ \A i \in 1..Len(stack') : stack'[i] = stack[i]
  <2>1. /\ \A i \in 1..Len(stack) - 1 : stack[i] \in Node
        /\ Len(stack) - 1 \in Int /\ 1 \in Int
    BY <1>1
  <2>2. /\ stack' \in Seq(Node)
        /\ Len(stack') = IF 1 <= Len(stack) - 1 THEN Len(stack) - 1 - 1 + 1 ELSE 0
        /\ \A i \in 1..(Len(stack) - 1 - 1 + 1) : stack'[i] = stack[1 + i - 1]
    BY ONLY <2>1, SubSeqProperties, stack' = SubSeq(stack, 1, Len(stack) - 1)
  <2>3. Len(stack) - 1 - 1 + 1 = Len(stack) - 1 /\ Len(stack) - 1 \in Nat
    BY <1>1
  <2>4. Len(stack') = Len(stack) - 1
    BY <2>2, <2>3
  <2>5. \A i \in 1..Len(stack') : 1 + i - 1 = i
    BY <2>3, <2>4
  <2>. QED BY <2>2, <2>3, <2>4, <2>5
<1>3. DOMAIN stack' = 1..Len(stack) - 1
  BY <1>1, <1>2
<1>. QED BY <1>2, <1>3 DEF InStack, Range

\* TypeOK holds at first.
LEMMA TypeInit == Init => TypeOK
BY DEF Init, TypeOK

\* Every step keeps TypeOK.
LEMMA TypeStep == TypeOK /\ [Next]_vars => TypeOK'
<1>. SUFFICES ASSUME TypeOK, [Next]_vars PROVE TypeOK'
  OBVIOUS
<1>1. CASE CheckShape
  BY <1>1, FlowType DEF TypeOK, CheckShape, Pass, Reject, dfsVars
<1>2. CASE CheckOrphans
  BY <1>2 DEF TypeOK, CheckOrphans, Pass, Reject, dfsVars, searchVars
<1>3. CASE CheckContracts
  BY <1>3 DEF TypeOK, CheckContracts, Pass, Reject, dfsVars, searchVars
<1>4. CASE \E n \in Node : Visit(n)
  BY <1>4, FlowType DEF TypeOK, Visit, NewNeighbours, dfsVars
<1>5. CASE \E n \in Node : StartSearch(n)
  BY <1>5, FlowType, CallType DEF TypeOK, StartSearch, searchVars
<1>6. ASSUME NEW m \in Node, Descend(m) PROVE TypeOK'
  <2>1. todo' \in [Node -> SUBSET Node]
    BY <1>6, FlowType, TopType DEF TypeOK, Descend
  <2>. QED BY <1>6, <2>1, CallType DEF TypeOK, Descend, searchVars
<1>7. CASE \E m \in Node : FindCycle(m)
  BY <1>7 DEF TypeOK, FindCycle, Reject, dfsVars, searchVars
<1>8. ASSUME NEW m \in Node, Skip(m) PROVE TypeOK'
  BY <1>8, TopType DEF TypeOK, Skip, searchVars
<1>9. CASE Return
  BY <1>9, ReturnType DEF TypeOK, Return, searchVars
<1>10. CASE NoCycle
  BY <1>10 DEF TypeOK, NoCycle, Pass, dfsVars, searchVars
<1>11. CASE UNCHANGED vars
  BY <1>11 DEF TypeOK, vars, dfsVars, searchVars
<1>. QED BY <1>1, <1>2, <1>3, <1>4, <1>5, <1>6, <1>7, <1>8, <1>9, <1>10, <1>11
         DEF Next

\* The flow being validated and its graph do not change.
LEMMA SameFlow ==
  ASSUME [Next]_vars
  PROVE  /\ flow' = flow /\ EdgesKnown' = EdgesKnown
         /\ ShapeKept' = ShapeKept /\ Acyclic' = Acyclic
         /\ Orphans' = Orphans
         /\ \A n : Successors(n)' = Successors(n)
         /\ \A S : Closed(S)' = Closed(S)
<1>1. flow' = flow
  BY DEF Next, vars, CheckShape, CheckOrphans, CheckContracts, Visit,
     StartSearch, Descend, FindCycle, Skip, Return, NoCycle
<1>. QED BY <1>1 DEF EdgesKnown, ShapeKept, Acyclic, Orphans, Successors, Closed

-----------------------------------------------------------------------------
(* The breadth-first search.                                               *)

\* The breadth-first search stays exact, one successor or node at a time.
LEMMA ReachStep ==
  ASSUME IInv, [Next]_vars
  PROVE  ReachExact'
<1>1. flow' = flow /\ (\A n : Successors(n)' = Successors(n))
      /\ (\A S : Closed(S)' = Closed(S))
  BY SameFlow
<1>2. CASE CheckShape
  BY <1>1, <1>2 DEF IInv, ReachExact, CheckShape, Pass, Reject, dfsVars
<1>3. ASSUME NEW n \in Node, Visit(n) PROVE ReachExact'
  <2>1. /\ pc = "reach" /\ pc' = "reach" /\ n \in queue
        /\ reachable' = reachable \cup {n}
        /\ queue' = (queue \ {n}) \cup (Successors(n) \ (reachable \cup {n}))
    BY <1>3 DEF Visit, NewNeighbours
  <2>2. /\ flow.entry \in reachable \cup queue
        /\ \A k \in reachable : Successors(k) \subseteq reachable \cup queue
        /\ \A S \in SUBSET Node :
             flow.entry \in S /\ Closed(S) => reachable \cup queue \subseteq S
    BY <2>1 DEF IInv, ReachExact
  <2>3. reachable' \cup queue' = reachable \cup queue \cup Successors(n)
    BY <2>1
  <2>4. \A S \in SUBSET Node :
          flow.entry \in S /\ Closed(S) => reachable' \cup queue' \subseteq S
    BY <2>1, <2>2, <2>3 DEF Closed
  <2>5. \A k \in reachable' : Successors(k) \subseteq reachable' \cup queue'
    BY <2>1, <2>2, <2>3
  <2>. QED BY <1>1, <2>1, <2>2, <2>3, <2>4, <2>5 DEF ReachExact
<1>4. CASE CheckOrphans
  BY <1>4 DEF CheckOrphans, Pass, Reject, ReachExact
<1>5. CASE UNCHANGED <<pc, searchVars>>
  BY <1>1, <1>5 DEF IInv, ReachExact, searchVars
<1>6. CASE CheckContracts
  BY <1>6 DEF CheckContracts, Pass, Reject, ReachExact
<1>7. CASE \E m \in Node : FindCycle(m)
  BY <1>7 DEF FindCycle, Pass, Reject, ReachExact
<1>8. CASE NoCycle
  BY <1>8 DEF NoCycle, Pass, Reject, ReachExact
<1>9. CASE \E n \in Node : StartSearch(n) \/ Descend(n) \/ Skip(n)
  BY <1>5, <1>9 DEF StartSearch, Descend, Skip
<1>10. CASE Return
  BY <1>5, <1>10 DEF Return
<1>. QED BY <1>2, <1>3, <1>4, <1>5, <1>6, <1>7, <1>8, <1>9, <1>10
         DEF Next, vars

\* A search that is over has found exactly the nodes of every closed set around
\* the entry; so the orphans are the nodes it has not found.
LEMMA OrphansAreUnreached ==
  ASSUME IInv, pc = "reach", queue = {}
  PROVE  Orphans = {} <=> flow.nodes \subseteq reachable \cup flow.fallback
<1>1. /\ flow.entry \in reachable /\ Closed(reachable)
      /\ reachable \in SUBSET Node
      /\ \A S \in SUBSET Node : flow.entry \in S /\ Closed(S) => reachable \subseteq S
  BY DEF IInv, TypeOK, ReachExact, Closed
<1>2. Orphans = (flow.nodes \ flow.fallback) \ reachable
  BY <1>1 DEF Orphans
<1>. QED BY <1>2

-----------------------------------------------------------------------------
(* The depth-first search.                                                 *)

\* A call neither searches a node nor forgets one.
LEMMA CallSearches ==
  ASSUME IInv, NEW n \in Node \ visited, Call(n)
  PROVE  Searched' = Searched /\ InStack' = InStack \cup {n} /\ n \notin InStack
<1>1. visited' = visited \cup {n} /\ InStack' = InStack \cup {n}
  BY CallType DEF IInv
<1>2. n \notin InStack
  BY DEF IInv, StackIsPath
<1>. QED BY <1>1, <1>2 DEF Searched

\* A return moves the top of the stack to the searched nodes.
LEMMA ReturnSearches ==
  ASSUME IInv, Return
  PROVE  /\ InStack' = InStack \ {Top} /\ Searched' = Searched \cup {Top}
         /\ Successors(Top) \subseteq Searched
<1>1. /\ stack # <<>> /\ todo[Top] = {} /\ visited' = visited
      /\ stack' = SubSeq(stack, 1, Len(stack) - 1)
  BY DEF Return
<1>2. /\ Len(stack) \in Nat \ {0} /\ Len(stack) \in 1..Len(stack)
      /\ Top = stack[Len(stack)] /\ Top \in InStack
  BY <1>1, TopType DEF IInv
<1>3. InStack' = {stack[i] : i \in 1..Len(stack) - 1}
  BY <1>1, ReturnType DEF IInv
<1>4. InStack = {stack[i] : i \in 1..Len(stack)}
  BY <1>2 DEF IInv, TypeOK, InStack, Range
<1>5. \A i, j \in 1..Len(stack) : stack[i] = stack[j] => i = j
  BY DEF IInv, StackIsPath
<1>6. InStack' = InStack \ {Top}
  <2>1. \A i \in 1..Len(stack) - 1 : i \in 1..Len(stack) /\ i # Len(stack)
    BY <1>2
  <2>2. \A i \in 1..Len(stack) : i = Len(stack) \/ i \in 1..Len(stack) - 1
    BY <1>2
  <2>3. \A i \in 1..Len(stack) - 1 : stack[i] # Top
    BY <1>2, <1>5, <2>1
  <2>4. InStack' \subseteq InStack \ {Top}
    BY <1>3, <1>4, <2>1, <2>3
  <2>5. InStack \ {Top} \subseteq InStack'
    BY <1>2, <1>3, <1>4, <2>2
  <2>. QED BY <2>4, <2>5
<1>7. Searched' = Searched \cup {Top}
  BY <1>1, <1>2, <1>6 DEF Searched, IInv, StackIsPath
<1>8. Successors(Top) \subseteq Searched
  BY <1>1, <1>2 DEF IInv, StackIsPath
<1>. QED BY <1>6, <1>7, <1>8

\* The depth-first search enters a node that no path is open from.
LEMMA PathStart ==
  ASSUME IInv, NEW n \in Node, StartSearch(n), flow' = flow,
         \A k : Successors(k)' = Successors(k)
  PROVE  StackIsPath'
<1>1. /\ stack = <<>> /\ n \in flow.nodes \ visited /\ Call(n)
      /\ todo' = [todo EXCEPT ![n] = Successors(n)]
  BY DEF StartSearch
<1>2. /\ visited' = visited \cup {n} /\ InStack' = InStack \cup {n}
      /\ Len(stack) = 0 /\ Len(stack') = Len(stack) + 1
      /\ stack'[Len(stack) + 1] = n
  BY <1>1, CallType DEF IInv
<1>3. Len(stack') = 1 /\ stack'[1] = n /\ 1..Len(stack') = {1}
  BY <1>2
<1>4. todo'[n] = Successors(n)
  BY <1>1 DEF IInv, TypeOK
<1>5. InStack' \subseteq visited' /\ visited' \subseteq flow.nodes
  BY <1>1, <1>2 DEF IInv, StackIsPath
<1>. QED BY <1>3, <1>4, <1>5 DEF StackIsPath

\* Entering a successor not visited before makes the path one longer.
LEMMA PathDescend ==
  ASSUME IInv, NEW m \in Node, Descend(m), flow' = flow,
         \A k : Successors(k)' = Successors(k)
  PROVE  StackIsPath'
<1>. DEFINE len == Len(stack)
<1>1. /\ pc = "cycles" /\ stack # <<>> /\ m \in todo[Top] \ visited /\ Call(m)
      /\ todo' = [todo EXCEPT ![Top] = @ \ {m}, ![m] = Successors(m)]
  BY DEF Descend
<1>2. /\ len \in Nat \ {0} /\ len \in 1..len
      /\ Top = stack[len] /\ Top \in Node /\ Top \in InStack
  BY <1>1, TopType DEF IInv
<1>3. /\ visited' = visited \cup {m} /\ InStack' = InStack \cup {m}
      /\ Len(stack') = len + 1 /\ stack'[len + 1] = m
      /\ \A i \in 1..len : stack'[i] = stack[i]
  BY <1>1, CallType DEF IInv
<1>4. Searched' = Searched /\ m \notin InStack
  BY <1>1, CallSearches
<1>5. /\ InStack \subseteq visited /\ visited \subseteq flow.nodes
      /\ \A i, j \in 1..len : stack[i] = stack[j] => i = j
      /\ \A i \in 1..len :
           /\ i < len => stack[i + 1] \in Successors(stack[i])
           /\ todo[stack[i]] \subseteq Successors(stack[i])
           /\ \A k \in Successors(stack[i]) \ todo[stack[i]] :
                k \in Searched \/ (i < len /\ k = stack[i + 1])
  BY DEF IInv, StackIsPath
<1>6. \A i \in 1..len : stack[i] \in InStack /\ stack[i] \in Node
  BY DEF IInv, TypeOK, InStack, Range
<1>. HIDE DEF len
<1>7. m \in Successors(Top) /\ m \in flow.nodes
  <2>1. m \in Successors(Top)
    BY <1>1, <1>2, <1>5
  <2>2. EdgesKnown
    BY <1>1 DEF IInv, VerdictSoFar, ShapeKept
  <2>. QED BY <2>1, <2>2 DEF EdgesKnown, Successors
<1>8. /\ todo'[Top] = todo[Top] \ {m} /\ todo'[m] = Successors(m)
      /\ \A n \in Node \ {Top, m} : todo'[n] = todo[n]
  BY <1>1, <1>2, <1>4 DEF IInv, TypeOK
<1>9. InStack' \subseteq visited' /\ visited' \subseteq flow'.nodes
  BY <1>3, <1>5, <1>7
<1>10. 1..Len(stack') = (1..len) \cup {len + 1} /\ len + 1 \notin 1..len
  BY <1>2, <1>3
<1>11. \A i, j \in 1..Len(stack') : stack'[i] = stack'[j] => i = j
  BY <1>3, <1>4, <1>5, <1>6, <1>10
<1>12. ASSUME NEW i \in 1..len, i # len
       PROVE  /\ stack'[i + 1] \in Successors(stack'[i])
              /\ todo'[stack'[i]] \subseteq Successors(stack'[i])
              /\ \A k \in Successors(stack'[i]) \ todo'[stack'[i]] :
                   k \in Searched' \/ k = stack'[i + 1]
  <2>1. i < len /\ i + 1 \in 1..len /\ stack'[i] = stack[i] /\ stack'[i + 1] = stack[i + 1]
    BY <1>2, <1>3, <1>12
  <2>2. todo'[stack[i]] = todo[stack[i]]
    BY <1>2, <1>4, <1>5, <1>6, <1>8, <1>12
  <2>. QED BY <1>4, <1>5, <2>1, <2>2
<1>13. /\ stack'[len + 1] \in Successors(stack'[len])
       /\ todo'[stack'[len]] \subseteq Successors(stack'[len])
       /\ \A k \in Successors(stack'[len]) \ todo'[stack'[len]] :
            k \in Searched' \/ k = stack'[len + 1]
  <2>1. stack'[len] = Top /\ stack'[len + 1] = m
    BY <1>2, <1>3
  <2>2. todo[Top] \subseteq Successors(Top)
        /\ Successors(Top) \ todo[Top] \subseteq Searched
    BY <1>2, <1>5
  <2>. QED BY <1>4, <1>7, <1>8, <2>1, <2>2
<1>14. todo'[stack'[len + 1]] = Successors(stack'[len + 1])
  BY <1>3, <1>8
<1>15. ASSUME NEW i \in 1..Len(stack')
       PROVE  /\ i < Len(stack') => stack'[i + 1] \in Successors(stack'[i])
              /\ todo'[stack'[i]] \subseteq Successors(stack'[i])
              /\ \A k \in Successors(stack'[i]) \ todo'[stack'[i]] :
                   k \in Searched' \/ (i < Len(stack') /\ k = stack'[i + 1])
  <2>1. CASE i \in 1..len /\ i # len
    <3>1. i < Len(stack')
      BY <1>2, <1>3, <2>1
    <3>. QED BY <1>12, <2>1, <3>1
  <2>2. CASE i = len
    <3>1. i < Len(stack')
      BY <1>2, <1>3, <2>2
    <3>. QED BY <1>13, <2>2, <3>1
  <2>3. CASE i = len + 1
    <3>1. ~(i < Len(stack'))
      BY <1>2, <1>3, <2>3
    <3>. QED BY <1>14, <2>3, <3>1
  <2>. QED BY <1>10, <2>1, <2>2, <2>3
<1>. QED BY <1>9, <1>11, <1>15 DEF StackIsPath

\* Passing over a finished successor leaves the path as it is.
LEMMA PathSkip ==
  ASSUME IInv, NEW m \in Node, Skip(m), flow' = flow,
         \A k : Successors(k)' = Successors(k)
  PROVE  StackIsPath'
<1>1. /\ stack # <<>> /\ m \in todo[Top] \cap visited /\ m \notin InStack
      /\ todo' = [todo EXCEPT ![Top] = @ \ {m}]
      /\ visited' = visited /\ stack' = stack /\ InStack' = InStack
      /\ Searched' = Searched
  BY DEF Skip, ClosesCycle, InStack, Searched
<1>2. m \in Searched
  BY <1>1 DEF Searched
<1>3. Top \in Node
  BY <1>1, TopType DEF IInv
<1>4. /\ todo'[Top] = todo[Top] \ {m}
      /\ \A n \in Node \ {Top} : todo'[n] = todo[n]
  BY <1>1, <1>3 DEF IInv, TypeOK
<1>5. \A i \in 1..Len(stack) : stack[i] \in Node
  BY DEF IInv, TypeOK
<1>6. ASSUME NEW i \in 1..Len(stack)
      PROVE  /\ todo'[stack[i]] \subseteq Successors(stack[i])
             /\ \A k \in Successors(stack[i]) \ todo'[stack[i]] :
                  k \in Searched \/ (i < Len(stack) /\ k = stack[i + 1])
  BY <1>2, <1>4, <1>5 DEF IInv, StackIsPath
<1>. QED BY <1>1, <1>6 DEF IInv, StackIsPath

\* Leaving a node whose successors are all done finishes it.
LEMMA PathReturn ==
  ASSUME IInv, Return, flow' = flow, \A k : Successors(k)' = Successors(k)
  PROVE  StackIsPath'
<1>. DEFINE len == Len(stack)
<1>1. /\ stack # <<>> /\ visited' = visited /\ todo' = todo
      /\ stack' = SubSeq(stack, 1, Len(stack) - 1)
  BY DEF Return
<1>2. /\ len \in Nat \ {0} /\ len \in 1..len /\ Top = stack[len]
  BY <1>1, TopType DEF IInv
<1>3. Len(stack') = len - 1 /\ \A i \in 1..Len(stack') : stack'[i] = stack[i]
  BY <1>1, ReturnType DEF IInv
<1>4. InStack' = InStack \ {Top} /\ Searched' = Searched \cup {Top}
  BY ReturnSearches
<1>5. /\ InStack \subseteq visited /\ visited \subseteq flow.nodes
      /\ \A i, j \in 1..len : stack[i] = stack[j] => i = j
      /\ \A i \in 1..len :
           /\ i < len => stack[i + 1] \in Successors(stack[i])
           /\ todo[stack[i]] \subseteq Successors(stack[i])
           /\ \A k \in Successors(stack[i]) \ todo[stack[i]] :
                k \in Searched \/ (i < len /\ k = stack[i + 1])
  BY DEF IInv, StackIsPath
<1>. HIDE DEF len
<1>6. \A i \in 1..len - 1 : i \in 1..len /\ i < len
  BY <1>2
<1>7. \A i \in 1..len - 1 : (i = len - 1 /\ i + 1 = len) \/ (i < len - 1 /\ i + 1 \in 1..len - 1)
  BY <1>2
<1>8. ASSUME NEW i \in 1..len - 1
      PROVE  /\ i < len - 1 => stack'[i + 1] \in Successors(stack'[i])
             /\ todo[stack'[i]] \subseteq Successors(stack'[i])
             /\ \A k \in Successors(stack'[i]) \ todo[stack'[i]] :
                  k \in Searched' \/ (i < len - 1 /\ k = stack'[i + 1])
  <2>1. stack'[i] = stack[i] /\ i \in 1..len /\ i < len
    BY <1>3, <1>6
  <2>2. CASE i = len - 1 /\ i + 1 = len
    <3>1. ~(i < len - 1) /\ stack[i + 1] = Top
      BY <1>2, <2>2
    <3>. QED BY <1>4, <1>5, <2>1, <3>1
  <2>3. CASE i < len - 1 /\ i + 1 \in 1..len - 1
    <3>1. stack'[i + 1] = stack[i + 1]
      BY <1>3, <2>3
    <3>. QED BY <1>4, <1>5, <2>1, <2>3, <3>1
  <2>. QED BY <1>7, <2>2, <2>3
<1>9. \A i, j \in 1..len - 1 : stack'[i] = stack'[j] => i = j
  BY <1>3, <1>5, <1>6
<1>10. InStack' \subseteq visited' /\ visited' \subseteq flow'.nodes
  BY <1>1, <1>4, <1>5
<1>11. ASSUME NEW i \in 1..Len(stack')
       PROVE  /\ i < Len(stack') => stack'[i + 1] \in Successors(stack'[i])
              /\ todo'[stack'[i]] \subseteq Successors(stack'[i])
              /\ \A k \in Successors(stack'[i]) \ todo'[stack'[i]] :
                   k \in Searched' \/ (i < Len(stack') /\ k = stack'[i + 1])
  BY <1>1, <1>3, <1>8
<1>12. \A i, j \in 1..Len(stack') : stack'[i] = stack'[j] => i = j
  BY <1>3, <1>9
<1>. QED BY <1>10, <1>11, <1>12 DEF StackIsPath

\* Every step keeps StackIsPath.
LEMMA PathStep ==
  ASSUME IInv, [Next]_vars
  PROVE  StackIsPath'
<1>1. flow' = flow /\ \A n : Successors(n)' = Successors(n)
  BY SameFlow
<1>2. CASE UNCHANGED dfsVars
  <2>1. InStack' = InStack /\ Searched' = Searched
    BY <1>2 DEF dfsVars, InStack, Searched
  <2>. QED BY <1>1, <1>2, <2>1 DEF IInv, StackIsPath, dfsVars
<1>3. CASE \E n \in Node : StartSearch(n)
  BY <1>1, <1>3, PathStart
<1>4. CASE \E n \in Node : Descend(n)
  BY <1>1, <1>4, PathDescend
<1>5. CASE \E n \in Node : Skip(n)
  BY <1>1, <1>5, PathSkip
<1>6. CASE Return
  BY <1>1, <1>6, PathReturn
<1>7. CASE \/ CheckShape \/ CheckOrphans \/ CheckContracts \/ NoCycle
           \/ \E n \in Node : Visit(n) \/ FindCycle(n)
  BY <1>2, <1>7 DEF CheckShape, CheckOrphans, CheckContracts, NoCycle, Visit,
     FindCycle
<1>. QED BY <1>2, <1>3, <1>4, <1>5, <1>6, <1>7 DEF Next, vars

\* A node all of whose successors were searched closes no cycle with them.
LEMMA SearchedReturn ==
  ASSUME IInv, Return, flow' = flow, \A k : Successors(k)' = Successors(k)
  PROVE  SearchedIsAcyclic'
<1>1. Searched' = Searched \cup {Top} /\ Successors(Top) \subseteq Searched
  BY ReturnSearches
<1>2. Top \notin Searched
  BY TopType DEF IInv, Return, Searched
<1>3. /\ \A n \in Searched : Successors(n) \subseteq Searched
      /\ \A S \in SUBSET Searched :
           S # {} => \E n \in S : Successors(n) \cap S = {}
  BY DEF IInv, SearchedIsAcyclic, Closed
<1>4. ASSUME NEW S \in SUBSET (Searched \cup {Top}), S # {}
      PROVE  \E n \in S : Successors(n) \cap S = {}
  <2>1. CASE S \cap Searched = {}
    BY <1>1, <1>4, <2>1
  <2>2. CASE S \cap Searched # {}
    <3>1. PICK n \in S \cap Searched : Successors(n) \cap (S \cap Searched) = {}
      BY <1>3, <2>2
    <3>2. Successors(n) \cap S = {}
      BY <1>3, <3>1
    <3>. QED BY <3>1, <3>2
  <2>. QED BY <2>1, <2>2
<1>5. \A n \in Searched \cup {Top} : Successors(n) \subseteq Searched \cup {Top}
  BY <1>1, <1>3
<1>. QED BY <1>1, <1>4, <1>5 DEF SearchedIsAcyclic, Closed

\* Every step keeps SearchedIsAcyclic.
LEMMA SearchedStep ==
  ASSUME IInv, [Next]_vars
  PROVE  SearchedIsAcyclic'
<1>1. flow' = flow /\ \A n : Successors(n)' = Successors(n)
  BY SameFlow
<1>2. CASE Searched' = Searched
  BY <1>1, <1>2 DEF IInv, SearchedIsAcyclic, Closed
<1>3. CASE \E n \in Node : StartSearch(n) \/ Descend(n)
  <2>1. PICK n \in Node : StartSearch(n) \/ Descend(n)
    BY <1>3
  <2>2. n \notin visited /\ Call(n)
    BY <2>1 DEF StartSearch, Descend
  <2>. QED BY <1>2, <2>2, CallSearches
<1>4. CASE Return
  BY <1>1, <1>4, SearchedReturn
<1>5. CASE UNCHANGED <<visited, stack>>
  BY <1>2, <1>5 DEF Searched, InStack
<1>6. CASE \/ CheckShape \/ CheckOrphans \/ CheckContracts \/ NoCycle
           \/ \E n \in Node : Visit(n) \/ FindCycle(n) \/ Skip(n)
  BY <1>5, <1>6 DEF CheckShape, CheckOrphans, CheckContracts, NoCycle, Visit,
     FindCycle, Skip, dfsVars
<1>. QED BY <1>3, <1>4, <1>5, <1>6 DEF Next, vars, dfsVars

-----------------------------------------------------------------------------
(* The verdict.                                                            *)

\* The calls from the one for a neighbour on the stack upwards are a set of
\* nodes each of which has a successor in the set.
LEMMA CycleFound ==
  ASSUME IInv, NEW m \in Node, FindCycle(m)
  PROVE  ~Acyclic
<1>. DEFINE len == Len(stack)
<1>1. stack # <<>> /\ m \in todo[Top] /\ m \in InStack
  BY DEF FindCycle, ClosesCycle
<1>2. /\ len \in Nat \ {0} /\ len \in 1..len /\ Top = stack[len]
  BY <1>1, TopType DEF IInv
<1>3. PICK j \in 1..len : stack[j] = m
  BY <1>1 DEF IInv, TypeOK, InStack, Range
<1>4. /\ \A i \in 1..len : stack[i] \in flow.nodes
      /\ \A i \in 1..len : i < len => stack[i + 1] \in Successors(stack[i])
      /\ m \in Successors(stack[len])
  BY <1>1, <1>2 DEF IInv, TypeOK, StackIsPath, InStack, Range
<1>. HIDE DEF len
<1>. DEFINE S == {stack[i] : i \in j..len}
<1>5. \A i \in j..len : i \in 1..len /\ (i = len \/ (i < len /\ i + 1 \in j..len))
  BY <1>2
<1>6. j \in j..len
  BY <1>2
<1>7. S \in SUBSET flow.nodes /\ S # {}
  BY <1>4, <1>5, <1>6
<1>8. ASSUME NEW i \in j..len PROVE Successors(stack[i]) \cap S # {}
  <2>1. CASE i = len
    <3>1. m \in S
      BY <1>3, <1>6
    <3>. QED BY <1>4, <2>1, <3>1
  <2>2. CASE i < len /\ i + 1 \in j..len
    BY <1>4, <1>5, <2>2
  <2>. QED BY <1>5, <2>1, <2>2
<1>9. \A n \in S : Successors(n) \cap S # {}
  BY <1>8
<1>. HIDE DEF S
<1>. QED BY <1>7, <1>9 DEF Acyclic

\* Every step keeps VerdictSoFar.
LEMMA VerdictStep ==
  ASSUME IInv, [Next]_vars
  PROVE  VerdictSoFar'
<1>1. /\ flow' = flow /\ ShapeKept' = ShapeKept /\ Acyclic' = Acyclic
      /\ Orphans' = Orphans
  BY SameFlow
<1>2. CASE CheckShape
  BY <1>1, <1>2 DEF CheckShape, Pass, Reject, VerdictSoFar, ShapeKept, OneFallback
<1>3. CASE CheckOrphans
  <2>1. pc = "reach" /\ queue = {}
    BY <1>3 DEF CheckOrphans
  <2>2. Orphans = {} <=> flow.nodes \subseteq reachable \cup flow.fallback
    BY <2>1, OrphansAreUnreached
  <2>3. ShapeKept /\ flow.allowCycles \in BOOLEAN
    BY <2>1, FlowType DEF IInv, VerdictSoFar
  <2>4. CASE flow.nodes \subseteq reachable \cup flow.fallback
    BY <1>1, <1>3, <2>2, <2>3, <2>4 DEF CheckOrphans, Pass, VerdictSoFar
  <2>5. CASE ~(flow.nodes \subseteq reachable \cup flow.fallback)
    BY <1>1, <1>3, <2>2, <2>5 DEF CheckOrphans, Reject, VerdictSoFar
  <2>. QED BY <2>4, <2>5
<1>4. CASE CheckContracts
  <2>1. CASE flow.contracts
    BY <1>1, <1>4, <2>1 DEF CheckContracts, Pass, IInv, VerdictSoFar
  <2>2. CASE ~flow.contracts
    BY <1>1, <1>4, <2>2 DEF CheckContracts, Reject, VerdictSoFar
  <2>. QED BY <2>1, <2>2
<1>5. CASE \E m \in Node : FindCycle(m)
  <2>1. ~Acyclic
    BY <1>5, CycleFound
  <2>2. pc = "cycles" /\ ~flow.allowCycles /\ pc' = "rejected" /\ why' = "cycle"
    BY <1>5 DEF FindCycle, Reject, IInv, VerdictSoFar
  <2>. QED BY <1>1, <2>1, <2>2 DEF VerdictSoFar
<1>6. CASE NoCycle
  <2>1. pc = "cycles" /\ flow.nodes \subseteq visited /\ stack = <<>>
        /\ pc' = "contracts"
    BY <1>6 DEF NoCycle, Pass
  <2>2. Searched = visited
    BY <2>1, RangeEmpty DEF Searched, InStack
  <2>3. Acyclic
    BY <2>1, <2>2 DEF Acyclic, IInv, SearchedIsAcyclic
  <2>. QED BY <1>1, <2>1, <2>3 DEF VerdictSoFar, IInv
<1>7. CASE UNCHANGED <<pc, why>>
  BY <1>1, <1>7 DEF IInv, VerdictSoFar
<1>8. CASE Return \/ \E n \in Node : Visit(n) \/ StartSearch(n) \/ Descend(n) \/ Skip(n)
  BY <1>7, <1>8 DEF Return, Visit, StartSearch, Descend, Skip
<1>. QED BY <1>2, <1>3, <1>4, <1>5, <1>6, <1>7, <1>8 DEF Next, vars

-----------------------------------------------------------------------------
(* The theorem.                                                            *)

\* IInv holds at first.
LEMMA InvariantInit == Init => IInv
<1>. SUFFICES ASSUME Init PROVE IInv
  OBVIOUS
<1>1. TypeOK
  BY TypeInit
<1>2. InStack = {} /\ Searched = {} /\ Len(stack) = 0 /\ stack = <<>>
  BY RangeEmpty DEF Init, InStack, Searched
<1>3. 1..Len(stack) = {}
  BY <1>2
<1>4. StackIsPath
  BY <1>2, <1>3 DEF Init, StackIsPath
<1>5. SearchedIsAcyclic
  BY <1>2 DEF SearchedIsAcyclic, Closed
<1>6. ReachExact /\ VerdictSoFar
  BY DEF Init, ReachExact, VerdictSoFar
<1>. QED BY <1>1, <1>4, <1>5, <1>6 DEF IInv

\* IInv is inductive.
LEMMA InvariantStep == IInv /\ [Next]_vars => IInv'
BY TypeStep, ReachStep, PathStep, SearchedStep, VerdictStep DEF IInv

\* A verdict reached under IInv is the right one.
LEMMA InvariantGivesVerdict == IInv => AcceptedIffValid
<1>. DEFINE keeps == [shape    |-> ShapeKept,
                      orphan   |-> Orphans = {},
                      cycle    |-> flow.allowCycles \/ Acyclic,
                      contract |-> flow.contracts]
<1>1. AcceptedIffValid <=> /\ pc = "accepted" => \A rule \in DOMAIN keeps : keeps[rule]
                           /\ pc = "rejected" => ~keeps[why]
  BY Zenon DEF AcceptedIffValid, ShapeKept, Orphans
<1>2. /\ DOMAIN keeps = {"shape", "orphan", "cycle", "contract"}
      /\ keeps["shape"] = ShapeKept
      /\ keeps["orphan"] = (Orphans = {})
      /\ keeps["cycle"] = (flow.allowCycles \/ Acyclic)
      /\ keeps["contract"] = flow.contracts
  OBVIOUS
<1>. HIDE DEF keeps
<1>3. ASSUME IInv, pc = "accepted" PROVE \A rule \in DOMAIN keeps : keeps[rule]
  <2>1. ShapeKept /\ Orphans = {} /\ (flow.allowCycles \/ Acyclic) /\ flow.contracts
    BY <1>3 DEF IInv, VerdictSoFar
  <2>. QED BY <1>2, <2>1
<1>4. ASSUME IInv, pc = "rejected" PROVE ~keeps[why]
  <2>1. \/ why = "shape" /\ ~ShapeKept
        \/ why = "orphan" /\ Orphans # {}
        \/ why = "cycle" /\ ~flow.allowCycles /\ ~Acyclic
        \/ why = "contract" /\ ~flow.contracts
    BY <1>4 DEF IInv, VerdictSoFar
  <2>. QED BY <1>2, <2>1, Zenon
<1>. QED BY <1>1, <1>3, <1>4

\* Every flow the registry serves keeps every rule, and every flow it refuses
\* breaks the rule it is refused for: for every graph, and for every order in
\* which FlowValidator's two searches may take its edges.
THEOREM VerdictIsExact == Spec => []AcceptedIffValid
<1>1. Spec => []IInv
  BY InvariantInit, InvariantStep, PTL DEF Spec
<1>. QED BY <1>1, InvariantGivesVerdict, PTL

=============================================================================
