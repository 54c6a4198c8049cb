---------------------------- MODULE FlowValidation --------------------------
(***************************************************************************)
(* FlowValidator.validate: the checks a flow file passes at startup, with  *)
(* the two graph searches step by step: the breadth-first search behind    *)
(* the orphan check and the recursive depth-first search behind the cycle  *)
(* check, whose call stack is a sequence here.                             *)
(*                                                                         *)
(* The order in which edges are listed only decides in which order the     *)
(* searches take the neighbours of a node, so any order is allowed.        *)
(***************************************************************************)
EXTENDS Naturals, Sequences, FiniteSets, Functions

CONSTANTS
  Node,     \* node ids, those that edges mention by mistake included
  Flows     \* the flows that are validated

Flow == [
  nodes       : SUBSET Node,
  unique      : BOOLEAN,                \* no two nodes share an id
  entry       : Node,                   \* entry_node_id
  edges       : SUBSET (Node \X Node),
  fallback    : SUBSET Node,            \* nodes of type fallback
  active      : SUBSET Node,            \* nodes with is_active
  contracts   : BOOLEAN,                \* every inline contract is valid
  allowCycles : BOOLEAN]                \* metadata.allow_cycles is true

ASSUME FlowsAssumption ==
  /\ Flows \subseteq Flow
  /\ \A f \in Flows : f.fallback \subseteq f.nodes /\ f.active \subseteq f.nodes

VARIABLES
  flow,       \* the flow being validated
  pc,         \* the check in progress, or the verdict
  why,        \* the check that failed
  queue,      \* _find_reachable: nodes waiting to be taken
  reachable,  \* _find_reachable: nodes found
  visited,    \* _has_cycle: nodes on which dfs was called
  stack,      \* _has_cycle: the calls of dfs that have not returned
  todo        \* _has_cycle: neighbours each call has still to look at

searchVars == <<queue, reachable>>
dfsVars    == <<visited, stack, todo>>
vars       == <<flow, pc, why, searchVars, dfsVars>>

Successors(n) == {m \in Node : <<n, m>> \in flow.edges}

InStack == Range(stack)

Top == stack[Len(stack)]

Init ==
  /\ flow \in Flows
  /\ pc = "shape" /\ why = "none"
  /\ queue = {} /\ reachable = {}
  /\ visited = {} /\ stack = <<>> /\ todo = [n \in Node |-> {}]

Reject(check) == pc' = "rejected" /\ why' = check

Pass(next) == pc' = next /\ why' = why

-----------------------------------------------------------------------------
(* The checks on the lists of nodes and edges.                             *)

EdgesKnown == flow.edges \subseteq flow.nodes \X flow.nodes

\* Every node of type fallback counts, an inactive one too.
OneFallback == Cardinality(flow.fallback) = 1

CheckShape ==
  /\ pc = "shape"
  /\ IF flow.nodes # {} /\ flow.unique /\ flow.entry \in flow.nodes
          /\ EdgesKnown /\ OneFallback
     THEN Pass("reach") /\ queue' = {flow.entry}
     ELSE Reject("shape") /\ queue' = queue
  /\ UNCHANGED <<flow, reachable, dfsVars>>

-----------------------------------------------------------------------------
(* _find_reachable and the orphan check.                                   *)

\* Mutant: a neighbour is queued whether or not it was found before.
NewNeighboursAll(n) == Successors(n)

NewNeighbours(n) == Successors(n) \ (reachable \cup {n})

Visit(n) ==
  /\ pc = "reach" /\ n \in queue
  /\ reachable' = reachable \cup {n}
  /\ queue' = (queue \ {n}) \cup NewNeighbours(n)
  /\ UNCHANGED <<flow, pc, why, dfsVars>>

CheckOrphans ==
  /\ pc = "reach" /\ queue = {}
  /\ IF flow.nodes \subseteq reachable \cup flow.fallback
     THEN Pass(IF flow.allowCycles THEN "contracts" ELSE "cycles")
     ELSE Reject("orphan")
  /\ UNCHANGED <<flow, searchVars, dfsVars>>

-----------------------------------------------------------------------------
(* _has_cycle: for each node not visited, call dfs.                        *)

Call(n) ==
  /\ visited' = visited \cup {n}
  /\ stack' = Append(stack, n)

\* The loop over flow.nodes calls dfs on a node no earlier call has visited.
StartSearch(n) ==
  /\ pc = "cycles" /\ stack = <<>> /\ n \in flow.nodes \ visited
  /\ Call(n)
  /\ todo' = [todo EXCEPT ![n] = Successors(n)]
  /\ UNCHANGED <<flow, pc, why, searchVars>>

\* dfs calls itself on a neighbour that was not visited.
Descend(m) ==
  /\ pc = "cycles" /\ stack # <<>> /\ m \in todo[Top] \ visited
  /\ Call(m)
  /\ todo' = [todo EXCEPT ![Top] = @ \ {m}, ![m] = Successors(m)]
  /\ UNCHANGED <<flow, pc, why, searchVars>>

\* Mutant: any node seen before closes a cycle.
ClosesCycleVisited(m) == m \in visited

ClosesCycle(m) == m \in InStack

\* A neighbour on the stack closes a cycle, and every call returns True.
FindCycle(m) ==
  /\ pc = "cycles" /\ stack # <<>> /\ m \in todo[Top] \cap visited
  /\ ClosesCycle(m)
  /\ Reject("cycle")
  /\ UNCHANGED <<flow, searchVars, dfsVars>>

\* A visited neighbour that is not on the stack was searched before.
Skip(m) ==
  /\ pc = "cycles" /\ stack # <<>> /\ m \in todo[Top] \cap visited
  /\ ~ClosesCycle(m)
  /\ todo' = [todo EXCEPT ![Top] = @ \ {m}]
  /\ UNCHANGED <<flow, pc, why, searchVars, visited, stack>>

\* All neighbours are done: dfs returns False and leaves the stack.
Return ==
  /\ pc = "cycles" /\ stack # <<>> /\ todo[Top] = {}
  /\ stack' = SubSeq(stack, 1, Len(stack) - 1)
  /\ UNCHANGED <<flow, pc, why, searchVars, visited, todo>>

NoCycle ==
  /\ pc = "cycles" /\ stack = <<>> /\ flow.nodes \subseteq visited
  /\ Pass("contracts")
  /\ UNCHANGED <<flow, searchVars, dfsVars>>

-----------------------------------------------------------------------------

\* _check_contract_nodes, the last check of the registry's validator.
CheckContracts ==
  /\ pc = "contracts"
  /\ IF flow.contracts THEN Pass("accepted") ELSE Reject("contract")
  /\ UNCHANGED <<flow, searchVars, dfsVars>>

Next ==
  \/ CheckShape \/ CheckOrphans \/ CheckContracts
  \/ \E n \in Node :
       Visit(n) \/ StartSearch(n) \/ Descend(n) \/ FindCycle(n) \/ Skip(n)
  \/ Return \/ NoCycle

Spec == Init /\ [][Next]_vars

\* validate() is an ordinary call: it runs until it returns or raises.
FairSpec == Spec /\ WF_vars(Next)

-----------------------------------------------------------------------------
(* Reference definitions.                                                  *)

\* A set no edge leaves.
Closed(S) == \A n \in S : Successors(n) \subseteq S

\* In every non-empty set of nodes some node has no successor in the set: a
\* finite graph has this property exactly when it has no directed cycle.
Acyclic ==
  \A S \in SUBSET flow.nodes :
    S # {} => \E n \in S : Successors(n) \cap S = {}

-----------------------------------------------------------------------------
(* Properties.                                                             *)

\* A flow the registry serves keeps every rule at once, and a flow is refused
\* for a rule it breaks: both searches are exact whatever the order of the edges
\* and whichever nodes were visited before, and no check masks another.
AcceptedIffValid ==
  LET orphans == {n \in flow.nodes \ flow.fallback :
                    \E S \in SUBSET Node :
                      flow.entry \in S /\ Closed(S) /\ n \notin S}
      shape   == /\ flow.unique /\ flow.entry \in flow.nodes
                 /\ EdgesKnown /\ Cardinality(flow.fallback) = 1
      keeps   == [shape    |-> shape,
                  orphan   |-> orphans = {},
                  cycle    |-> flow.allowCycles \/ Acyclic,
                  contract |-> flow.contracts]
  IN  /\ pc = "accepted" => \A rule \in DOMAIN keeps : keeps[rule]
      /\ pc = "rejected" => ~keeps[why]

\* Every validation ends: cycles the flow is allowed to have trap neither
\* search.
ValidationEnds == <>(pc \in {"accepted", "rejected"})

-----------------------------------------------------------------------------
(* A claim of the documentation that the code does not keep.               *)

\* runtime-policy.md:137: every flow contains exactly one active fallback
\* node, and the runtime validates this at load time.
AcceptedHasActiveFallback ==
  pc = "accepted" => flow.fallback \cap flow.active # {}

=============================================================================
