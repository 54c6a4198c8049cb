--------------------------- MODULE MCFlowValidation -------------------------
(***************************************************************************)
(* Instantiates FlowValidation for TLC.                                    *)
(***************************************************************************)
EXTENDS FlowValidation

CONSTANTS a, b, c, x

\* Flows over three nodes of which a is the entry and c the only fallback,
\* with any edges between them: all graphs up to renaming.
Graphs ==
  {[nodes |-> {a, b, c}, unique |-> TRUE, entry |-> a, edges |-> e,
    fallback |-> {c}, active |-> {a, b, c}, contracts |-> TRUE,
    allowCycles |-> cyc] :
      e \in SUBSET ({a, b, c} \X {a, b, c}), cyc \in BOOLEAN}

\* Malformed flows: x is a node id that may be missing, a fallback that may be
\* missing, doubled or inactive, ids that clash, contracts that do not parse.
Malformed ==
  {f \in [nodes : {{a, b}, {a, b, x}}, unique : BOOLEAN, entry : {a, x},
          edges : SUBSET {<<a, b>>, <<b, a>>, <<a, x>>},
          fallback : {{}, {b}, {a, b}}, active : {{a}, {a, b}},
          contracts : BOOLEAN, allowCycles : BOOLEAN] :
     f.active \subseteq f.nodes}

\* Four nodes: chains, diamonds and cycles longer than the three above.
Wide ==
  {[nodes |-> {a, b, c, x}, unique |-> TRUE, entry |-> a, edges |-> e,
    fallback |-> {x}, active |-> {a, b, c, x}, contracts |-> TRUE,
    allowCycles |-> FALSE] :
      e \in {e \in SUBSET ({a, b, c, x} \X {a, b, c, x}) :
               /\ {<<a, b>>, <<b, c>>} \subseteq e
               /\ \A n \in {a, b, c, x} : <<n, n>> \notin e}}

AllFlows == Graphs \cup Malformed \cup Wide

\* The reference definition of a cycle used by the properties agrees with the
\* usual one: no node of a three-node graph reaches itself.
ASSUME AcyclicIsUsual ==
  \A E \in SUBSET ({a, b, c} \X {a, b, c}) :
    LET N == {a, b, c}
        succ(S) == {m \in N : \E n \in S : <<n, m>> \in E}
        from(n) == LET r1 == succ({n})
                       r2 == r1 \cup succ(r1)
                   IN  r2 \cup succ(r2)
    IN  (\A S \in SUBSET N : S # {} => \E n \in S : succ({n}) \cap S = {})
          <=> \A n \in N : n \notin from(n)

=============================================================================
