--------------------------- MODULE ConditionProofs --------------------------
(***************************************************************************)
(* Proofs about ConditionLanguage for conditions of any shape and size.    *)
(***************************************************************************)
EXTENDS ConditionLanguage, RangeLemmas

\* What holds of a tree as soon as it holds of its subtrees, holds of all trees.
LEMMA TreeInduction ==
  ASSUME NEW S,
         \A e \in Trees : (\A i \in DOMAIN e.args : e.args[i] \in S) => e \in S
  PROVE  Trees \subseteq S
<1>. SUFFICES ASSUME NEW bad \in Trees, bad \notin S
              PROVE  FALSE
  OBVIOUS
<1>. DEFINE N == {Height[e] : e \in Trees \ S}
<1>1. N \subseteq Nat /\ N # {}
  BY TreesAssumption
<1>2. PICK n \in N : \A m \in N : n <= m
  BY <1>1, LeastNat
<1>3. PICK e \in Trees \ S : Height[e] = n
  BY <1>2
<1>4. ASSUME NEW i \in DOMAIN e.args
      PROVE  e.args[i] \in S
  <2>1. e.args[i] \in Trees /\ Height[e.args[i]] < Height[e]
    BY TreesAssumption
  <2>2. CASE e.args[i] \notin S
    <3>1. Height[e.args[i]] \in N
      BY <2>1, <2>2
    <3>2. n <= Height[e.args[i]]
      BY <1>2, <3>1
    <3>3. n \in Nat /\ Height[e.args[i]] \in Nat
      BY <1>1, <3>1
    <3>. QED BY <2>1, <1>3, <3>2, <3>3
  <2>. QED BY <2>2
<1>. QED BY <1>3, <1>4


\* What f says of the subtrees of a tree.
OfParts(f, e) == [i \in DOMAIN e.args |-> f[e.args[i]]]

\* What a definition computes of a tree from what it computes of the subtrees,
\* it computes of every tree: H gives the value of each tree for each choice of
\* values of its subtrees.
Computes(H, R) ==
  \A e \in Trees : \A v \in [DOMAIN e.args -> R] : H[e][v] \in R

Computed(f, H, R) ==
  /\ f \in [Trees -> R]
  /\ \A e \in Trees : f[e] = H[e][OfParts(f, e)]

LEMMA TreeRecursion ==
  ASSUME NEW R, NEW H, Computes(H, R)
  PROVE  \E f : Computed(f, H, R)
<1>. USE DEF OfParts, Computes
<1>. DEFINE Below(n) == {e \in Trees : Height[e] < n}
            Solves(f, n) == /\ f \in [Below(n) -> R]
                            /\ \A e \in Below(n) : f[e] = H[e][OfParts(f, e)]
<1>1. \A e \in Trees : /\ Height[e] \in Nat
                       /\ \A i \in DOMAIN e.args : /\ e.args[i] \in Trees
                                                   /\ Height[e.args[i]] \in Nat
                                                   /\ Height[e.args[i]] < Height[e]
  BY TreesAssumption
<1>2. ASSUME NEW n \in Nat, NEW e \in Below(n)
      PROVE  \A i \in DOMAIN e.args : e.args[i] \in Below(n)
  BY <1>1
<1>3. ASSUME NEW n \in Nat, NEW f, Solves(f, n)
      PROVE  \E g : Solves(g, n + 1)
  <2>. DEFINE g == [e \in Below(n + 1) |-> H[e][OfParts(f, e)]]
  <2>1. ASSUME NEW e \in Below(n + 1)
        PROVE  /\ \A i \in DOMAIN e.args : e.args[i] \in Below(n)
               /\ OfParts(f, e) \in [DOMAIN e.args -> R]
    <3>1. \A i \in DOMAIN e.args : e.args[i] \in Below(n)
      BY <1>1
    <3>. QED BY <3>1, <1>3
  <2>2. \A e \in Below(n) : e \in Below(n + 1) /\ g[e] = f[e]
    BY <1>1, <1>3
  <2>3. g \in [Below(n + 1) -> R]
    BY <2>1
  <2>4. ASSUME NEW e \in Below(n + 1)
        PROVE  g[e] = H[e][OfParts(g, e)]
    <3>1. OfParts(g, e) = OfParts(f, e)
      BY <2>1, <2>2
    <3>. QED BY <3>1
  <2>. QED BY <2>3, <2>4
<1>4. \E f : Solves(f, 0)
  <2>. DEFINE none == [e \in Below(0) |-> 0]
  <2>1. Below(0) = {}
    BY <1>1
  <2>2. Solves(none, 0)
    BY <2>1
  <2>. QED BY <2>2
<1>. HIDE DEF Solves
<1>5. \A n \in Nat : \E f : Solves(f, n)
  <2>. DEFINE T == {n \in Nat : ~ \E f : Solves(f, n)}
  <2>1. SUFFICES ASSUME T # {} PROVE FALSE
    OBVIOUS
  <2>2. PICK n \in T : \A m \in T : n <= m
    BY <2>1, LeastNat
  <2>3. n \in Nat /\ n # 0
    BY <1>4
  <2>4. n - 1 \in Nat /\ n - 1 \notin T /\ (n - 1) + 1 = n
    BY <2>2, <2>3
  <2>. QED BY <1>3, <2>4
<1>6. ASSUME NEW n \in Nat, NEW m \in Nat, NEW f, NEW g, Solves(f, n), Solves(g, m)
      PROVE  \A e \in Below(n) \cap Below(m) : f[e] = g[e]
  <2>. DEFINE S == {e \in Trees : e \in Below(n) \cap Below(m) => f[e] = g[e]}
  <2>1. ASSUME NEW e \in Trees, \A i \in DOMAIN e.args : e.args[i] \in S
        PROVE  e \in S
    <3>1. SUFFICES ASSUME e \in Below(n) \cap Below(m) PROVE f[e] = g[e]
      OBVIOUS
    <3>2. \A i \in DOMAIN e.args : f[e.args[i]] = g[e.args[i]]
      BY <2>1, <3>1, <1>2
    <3>3. OfParts(f, e) = OfParts(g, e)
      BY <3>2
    <3>. QED BY <1>6, <3>1, <3>3 DEF Solves
  <2>2. Trees \subseteq S
    <3>. HIDE DEF S
    <3>. QED BY <2>1, TreeInduction
  <2>. QED BY <2>2
<1>. DEFINE F(n) == CHOOSE f : Solves(f, n)
            h == [e \in Trees |-> F(Height[e] + 1)[e]]
<1>7. \A n \in Nat : Solves(F(n), n)
  BY <1>5
<1>. HIDE DEF F
<1>8. ASSUME NEW e \in Trees
      PROVE  h[e] \in R /\ h[e] = H[e][OfParts(h, e)]
  <2>. DEFINE n == Height[e] + 1
  <2>1. n \in Nat /\ e \in Below(n)
    BY <1>1
  <2>2. F(n)[e] \in R /\ F(n)[e] = H[e][OfParts(F(n), e)]
    BY <2>1, <1>7 DEF Solves
  <2>3. ASSUME NEW i \in DOMAIN e.args
        PROVE  h[e.args[i]] = F(n)[e.args[i]]
    <3>. DEFINE t == e.args[i]
                k == Height[t] + 1
    <3>1. t \in Trees /\ k \in Nat /\ t \in Below(k) /\ t \in Below(n)
      BY <1>1
    <3>2. F(k)[t] = F(n)[t]
      BY <1>6, <1>7, <2>1, <3>1
    <3>. QED BY <3>1, <3>2
  <2>4. OfParts(h, e) = OfParts(F(n), e)
    BY <2>3
  <2>. QED BY <2>2, <2>4
<1>. HIDE DEF h
<1>9. Computed(h, H, R)
  <2>1. h \in [Trees -> R]
    BY <1>8 DEF h
  <2>. QED BY <2>1, <1>8 DEF Computed
<1>. QED BY <1>9

\* The checker accepts a tree if it accepts its root and its subtrees.
LEMMA SafeEquation ==
  ASSUME NEW e \in Trees
  PROVE  Safe(e) <=> NodeAllowed(e) /\ \A i \in DOMAIN e.args : Safe(e.args[i])
<1>. DEFINE B == BOOLEAN
            H == [t \in Trees |-> [v \in [DOMAIN t.args -> B] |->
                   NodeAllowed(t) /\ \A i \in DOMAIN t.args : v[i]]]
            Fix(f) == f = [t \in Trees |->
                            NodeAllowed(t) /\ \A i \in Children(t) : f[t.args[i]]]
            safe == CHOOSE f : Fix(f)
<1>1. Computes(H, B)
  BY DEF NodeAllowed, Computes
<1>2. PICK f : Computed(f, H, B)
  <2>. HIDE DEF H, B
  <2>. QED BY <1>1, TreeRecursion
<1>3. ASSUME NEW t \in Trees
      PROVE  f[t] = (NodeAllowed(t) /\ \A i \in Children(t) : f[t.args[i]])
  <2>. DEFINE v == OfParts(f, t)
  <2>1. v \in [DOMAIN t.args -> B] /\ \A i \in DOMAIN t.args : v[i] = f[t.args[i]]
    BY <1>2, TreesAssumption DEF OfParts, Computed
  <2>2. f[t] = H[t][v]
    BY <1>2 DEF Computed
  <2>3. H[t][v] = (NodeAllowed(t) /\ \A i \in DOMAIN t.args : v[i])
    BY <2>1
  <2>. HIDE DEF H, v
  <2>. QED BY <2>1, <2>2, <2>3 DEF Children
<1>. HIDE DEF H, B
<1>4. Fix(f)
  <2>1. f = [t \in Trees |-> f[t]]
    BY <1>2 DEF Computed
  <2>. DEFINE g == [t \in Trees |->
                     NodeAllowed(t) /\ \A i \in Children(t) : f[t.args[i]]]
  <2>2. f = g
    BY <1>3, <2>1
  <2>. QED BY <2>2, Zenon
<1>5. Fix(safe)
  BY <1>4
<1>6. \A t : Safe(t) = safe[t]
  BY DEF Safe
<1>. HIDE DEF safe
<1>7. safe[e] = (NodeAllowed(e) /\ \A i \in Children(e) : safe[e.args[i]])
  BY <1>5
<1>. QED BY <1>6, <1>7 DEF Children

-----------------------------------------------------------------------------
(* The evaluator.                                                          *)

Bools    == {Bool(TRUE), Bool(FALSE)}
Outcomes == Values \cup {Missing, Raised}

LEMMA BoolType ==
  /\ \A b : Bool(b) \in Bools
  /\ Bools \subseteq Values /\ Raised \notin Values
  /\ Raised \notin Bools /\ Missing \notin Bools
  /\ Bool(TRUE) # Bool(FALSE) /\ Missing # Raised
  /\ Truth(Bool(TRUE)) = TRUE /\ Truth(Bool(FALSE)) = FALSE
<1>1. \A v, x, y : v = <<x, y>> => v[1] = x /\ v[2] = y
  OBVIOUS
<1>2. Bool(TRUE) = <<"bool", 1>> /\ Bool(FALSE) = <<"bool", 0>>
  BY DEF Bool
<1>3. /\ Bool(TRUE)[1] = "bool" /\ Bool(FALSE)[1] = "bool"
      /\ Bool(TRUE)[2] = 1 /\ Bool(FALSE)[2] = 0
      /\ Raised[1] = "raised" /\ Missing[1] = "missing"
  <2>1. Raised = <<"raised", 0>> /\ Missing = <<"missing", 0>>
    BY DEF Raised, Missing
  <2>. QED BY <1>1, <1>2, <2>1, Zenon
<1>4. /\ Raised \notin Bools /\ Missing \notin Bools /\ Missing # Raised
  <2>1. "bool" # "raised" /\ "bool" # "missing" /\ "missing" # "raised"
    OBVIOUS
  <2>. QED BY <1>3, <2>1, Zenon DEF Bools
<1>5. Bool(TRUE) # Bool(FALSE)
  <2>1. 1 # 0
    OBVIOUS
  <2>. QED BY <1>3, <2>1, Zenon
<1>6. \A b : Bool(b) \in Bools
  BY DEF Bool, Bools
<1>7. Bools \subseteq Values /\ Raised \notin Values
  BY ValuesAssumption DEF Bools
<1>8. \A v : v[1] = "bool" => Truth(v) = (v[2] # 0)
  BY Zenon DEF Truth
<1>9. Truth(Bool(TRUE)) = TRUE /\ Truth(Bool(FALSE)) = FALSE
  <2>1. (1 # 0) = TRUE /\ (0 # 0) = FALSE
    OBVIOUS
  <2>. QED BY <1>3, <1>8, <2>1, Zenon
<1>. QED BY <1>4, <1>5, <1>6, <1>7, <1>9, Zenon

\* The outcome of a loop that ends at the first outcome that differs.
LEMMA FirstOtherExists ==
  ASSUME NEW n \in Nat, NEW o, DOMAIN o = 1..n, NEW goOn
  PROVE  \/ FirstOther(o, goOn) = goOn /\ \A i \in 1..n : o[i] = goOn
         \/ \E i \in 1..n : o[i] # goOn /\ FirstOther(o, goOn) = o[i]
<1>. DEFINE others == {i \in DOMAIN o : o[i] # goOn}
            least == CHOOSE i \in others : \A j \in others : i <= j
<1>1. CASE others = {}
  BY <1>1 DEF FirstOther
<1>2. CASE others # {}
  <2>1. others \in SUBSET Nat
    OBVIOUS
  <2>2. \E i \in others : \A j \in others : i <= j
    <3>. HIDE DEF others
    <3>. QED BY <1>2, <2>1, LeastNat
  <2>3. least \in others
    BY <2>2
  <2>4. FirstOther(o, goOn) = o[least]
    BY <1>2 DEF FirstOther
  <2>. QED BY <2>3, <2>4
<1>. QED BY <1>1, <1>2

\* A key's value is a value, or missing.
LEMMA LookupType ==
  /\ \A v \in Outcomes : \A k : v # Raised => Lookup(v, k) \in Values \cup {Missing}
  /\ \A s \in Signals : \A k : Lookup(Context(s), k) \in Values \cup {Missing}
<1>1. ASSUME NEW v \in Outcomes, NEW k, v # Raised
      PROVE  Lookup(v, k) \in Values \cup {Missing}
  BY <1>1, ValuesAssumption DEF Lookup, Outcomes, Missing
<1>2. ASSUME NEW s \in Signals, NEW k
      PROVE  Lookup(Context(s), k) \in Values \cup {Missing}
  <2>. DEFINE f == [type |-> s.type, confidence |-> s.confidence,
                    payload |-> s.payload, source |-> s.source,
                    created_at |-> s.timestamp]
  <2>1. \A j \in DOMAIN f : f[j] \in Values
    BY ValuesAssumption
  <2>2. Context(s) = <<"dict", f>>
    BY DEF Context, Dict
  <2>. HIDE DEF f
  <2>. QED BY <2>1, <2>2 DEF Lookup
<1>. QED BY <1>1, <1>2

\* A loop over truth values ends with one, or with an exception.
LEMMA LoopType ==
  ASSUME NEW n \in Nat, NEW o, DOMAIN o = 1..n,
         \A i \in 1..n : o[i] \in Bools \cup {Raised}, NEW goOn \in Bools
  PROVE  FirstOther(o, goOn) \in Bools \cup {Raised}
BY FirstOtherExists

\* The evaluator's handlers give outcomes for outcomes.
LEMMA HandleType ==
  ASSUME NEW s \in Signals, NEW e \in Trees,
         NEW v \in [DOMAIN e.args -> Outcomes]
  PROVE  Handle(Context(s), e, v) \in Outcomes
<1>. DEFINE h == Handle(Context(s), e, v)
            truths == [i \in DOMAIN v |-> AsBool(v[i])]
<1>1. /\ Len(e.args) \in Nat /\ DOMAIN e.args = 1..Len(e.args)
      /\ DOMAIN v = 1..Len(e.args)
  BY TreesAssumption
<1>2. CASE e.op = "const"
  <2>1. e.val \in Values
    BY <1>2, TreesAssumption
  <2>. QED BY <1>2, <2>1, Zenon DEF Handle, Outcomes
<1>3. CASE e.op = "name"
  <2>1. h = Lookup(Context(s), e.val[2])
    BY <1>3, Zenon DEF Handle
  <2>2. Lookup(Context(s), e.val[2]) \in Values \cup {Missing}
    BY LookupType
  <2>. QED BY <2>1, <2>2 DEF Outcomes
<1>4. CASE e.op = "attr" \/ e.op = "not"
  <2>1. v[1] \in Outcomes
    <3>1. Len(e.args) = 1
      BY <1>4, TreesAssumption
    <3>. QED BY <1>1, <3>1
  <2>2. Bool(~Truth(v[1])) \in Outcomes
    BY BoolType DEF Outcomes
  <2>3. \A w, k : w \in Outcomes /\ w # Raised => Lookup(w, k) \in Outcomes
    BY LookupType DEF Outcomes
  <2>4. Raised \in Outcomes
    BY DEF Outcomes
  <2>5. CASE v[1] = Raised
    BY <1>4, <2>4, <2>5, Zenon DEF Handle
  <2>6. CASE v[1] # Raised /\ e.op = "attr"
    <3>1. h = Lookup(v[1], e.val[2])
      BY <2>6, Zenon DEF Handle
    <3>. QED BY <2>1, <2>3, <2>6, <3>1
  <2>7. CASE v[1] # Raised /\ e.op = "not"
    BY <2>2, <2>7, Zenon DEF Handle
  <2>. QED BY <1>4, <2>5, <2>6, <2>7
<1>5. CASE e.op = "and" \/ e.op = "or"
  <2>1. \A i \in 1..Len(e.args) : truths[i] \in Bools \cup {Raised}
    BY <1>1, BoolType DEF AsBool
  <2>2. DOMAIN truths = 1..Len(e.args)
    BY <1>1
  <2>3. Bool(TRUE) \in Bools /\ Bool(FALSE) \in Bools
    BY BoolType
  <2>4. h = FirstOther(truths, Bool(TRUE)) \/ h = FirstOther(truths, Bool(FALSE))
    BY <1>5, Zenon DEF Handle
  <2>. HIDE DEF h, truths
  <2>5. h \in Bools \cup {Raised}
    BY <1>1, <2>1, <2>2, <2>3, <2>4, LoopType
  <2>. QED BY <2>5, BoolType DEF Outcomes, h
<1>6. CASE e.op = "cmp"
  <2>. DEFINE ops == e.val[2]
              o == [i \in DOMAIN ops |->
                      IF Raised \in {LeftOf(v, i), v[i + 1]} THEN Raised
                      ELSE ApplyCmp(LeftOf(v, i), ops[i], v[i + 1])]
  <2>1. ops \in Seq(STRING)
    BY <1>6, TreesAssumption
  <2>2. Len(ops) \in Nat /\ DOMAIN o = 1..Len(ops)
    BY <2>1
  <2>3. \A l, op, r : ApplyCmp(l, op, r) \in Bools
    BY BoolType DEF ApplyCmp
  <2>4. \A i \in 1..Len(ops) : o[i] \in Bools \cup {Raised}
    BY <2>1, <2>3
  <2>5. Bool(TRUE) \in Bools
    BY BoolType
  <2>6. h = FirstOther(o, Bool(TRUE))
    <3>1. Chain(ops, v) = FirstOther(o, Bool(TRUE))
      BY DEF Chain
    <3>2. h = Chain(e.val[2], v)
      BY <1>6, Zenon DEF Handle
    <3>. QED BY <3>1, <3>2
  <2>. HIDE DEF h, o, ops
  <2>7. h \in Bools \cup {Raised}
    BY <2>2, <2>4, <2>5, <2>6, LoopType
  <2>. QED BY <2>7, BoolType DEF Outcomes, h
<1>7. CASE e.op \notin Whitelist
  BY <1>7, Zenon DEF Handle, Outcomes, Whitelist
<1>. QED BY <1>2, <1>3, <1>4, <1>5, <1>6, <1>7 DEF Whitelist

\* A tree's value is what the handler of its root makes of its parts' values.
LEMMA EvalEquation ==
  ASSUME NEW s \in Signals, NEW e \in Trees
  PROVE  LET c == Context(s) IN
         /\ Eval(c, e) \in Outcomes
         /\ Eval(c, e) =
              Handle(c, e, [i \in DOMAIN e.args |-> Eval(c, e.args[i])])
<1>. DEFINE c == Context(s)
            H == [t \in Trees |-> [v \in [DOMAIN t.args -> Outcomes] |->
                   Handle(c, t, v)]]
            Fix(f) == f = [t \in Trees |->
                            Handle(c, t, [i \in DOMAIN t.args |-> f[t.args[i]]])]
            eval == CHOOSE f : Fix(f)
<1>1. Computes(H, Outcomes)
  BY HandleType DEF Computes
<1>2. PICK f : Computed(f, H, Outcomes)
  <2>. HIDE DEF H
  <2>. QED BY <1>1, TreeRecursion
<1>3. ASSUME NEW t \in Trees
      PROVE  f[t] = Handle(c, t, OfParts(f, t))
  <2>1. OfParts(f, t) \in [DOMAIN t.args -> Outcomes]
    BY <1>2, TreesAssumption DEF OfParts, Computed
  <2>2. f[t] = H[t][OfParts(f, t)]
    BY <1>2 DEF Computed
  <2>. QED BY <2>1, <2>2
<1>. HIDE DEF H
<1>4. Fix(f)
  <2>1. f = [t \in Trees |-> f[t]]
    BY <1>2 DEF Computed
  <2>. DEFINE g == [t \in Trees |-> Handle(c, t, OfParts(f, t))]
  <2>2. f = g
    BY <1>3, <2>1
  <2>. QED BY <2>2, Zenon DEF OfParts
<1>5. Fix(eval)
  BY <1>4
<1>6. \A t : Eval(c, t) = eval[t]
  BY DEF Eval
<1>. HIDE DEF eval
<1>7. ASSUME NEW t \in Trees
      PROVE  eval[t] = Handle(c, t, OfParts(eval, t))
  BY <1>5 DEF OfParts
<1>8. Trees \subseteq {t \in Trees : eval[t] \in Outcomes}
  <2>. DEFINE S == {t \in Trees : eval[t] \in Outcomes}
  <2>1. ASSUME NEW t \in Trees, \A i \in DOMAIN t.args : t.args[i] \in S
        PROVE  t \in S
    <3>1. OfParts(eval, t) \in [DOMAIN t.args -> Outcomes]
      BY <2>1 DEF OfParts
    <3>. QED BY <1>7, <3>1, HandleType
  <2>. HIDE DEF S
  <2>2. Trees \subseteq S
    BY <2>1, TreeInduction
  <2>. QED BY <2>2 DEF S
<1>9. OfParts(eval, e) = [i \in DOMAIN e.args |-> Eval(c, e.args[i])]
  BY <1>6 DEF OfParts
<1>10. Eval(c, e) \in Outcomes
  BY <1>6, <1>8
<1>. QED BY <1>6, <1>7, <1>9, <1>10, Zenon

-----------------------------------------------------------------------------
(* What is accepted, and what it means.                                    *)

Present == Values \cup {Missing}

\* A loop over truth values is a quantifier.
LEMMA LoopValue ==
  ASSUME NEW n \in Nat, NEW o, DOMAIN o = 1..n, \A i \in 1..n : o[i] \in Bools
  PROVE  /\ (\A i \in 1..n : o[i] = Bool(TRUE)) =>
              /\ FirstOther(o, Bool(TRUE)) = Bool(TRUE)
         /\ (\E i \in 1..n : o[i] # Bool(TRUE)) =>
              /\ FirstOther(o, Bool(TRUE)) = Bool(FALSE)
         /\ (\A i \in 1..n : o[i] # Bool(TRUE)) =>
              /\ FirstOther(o, Bool(FALSE)) = Bool(FALSE)
         /\ (\E i \in 1..n : o[i] = Bool(TRUE)) =>
              /\ FirstOther(o, Bool(FALSE)) = Bool(TRUE)
<1>. DEFINE T == Bool(TRUE)
            F == Bool(FALSE)
<1>1. T # F /\ \A i \in 1..n : o[i] = T \/ o[i] = F
  BY BoolType DEF Bools
<1>. HIDE DEF T, F
<1>2. \/ FirstOther(o, T) = T /\ \A i \in 1..n : o[i] = T
      \/ \E i \in 1..n : o[i] # T /\ FirstOther(o, T) = o[i]
  BY FirstOtherExists
<1>3. \/ FirstOther(o, F) = F /\ \A i \in 1..n : o[i] = F
      \/ \E i \in 1..n : o[i] # F /\ FirstOther(o, F) = o[i]
  BY FirstOtherExists
<1>4. /\ (\A i \in 1..n : o[i] = T) => FirstOther(o, T) = T
      /\ (\E i \in 1..n : o[i] # T) => FirstOther(o, T) = F
      /\ (\A i \in 1..n : o[i] # T) => FirstOther(o, F) = F
      /\ (\E i \in 1..n : o[i] = T) => FirstOther(o, F) = T
  BY <1>1, <1>2, <1>3
<1>. QED BY <1>4 DEF T, F

\* What holds is Bool(TRUE), what does not is Bool(FALSE).
LEMMA BoolValue ==
  /\ \A b : b => Bool(b) = Bool(TRUE)
  /\ \A b : ~b => Bool(b) = Bool(FALSE)
BY DEF Bool

\* On an accepted node, over values of parts that are there or missing, the
\* handler does what the node means, and raises nothing.
LEMMA HandlerMeans ==
  ASSUME NEW s \in Signals, NEW e \in Trees, NodeAllowed(e),
         NEW v \in [DOMAIN e.args -> Present]
  PROVE  /\ Handle(Context(s), e, v) = Means(Context(s), e, v)
         /\ Handle(Context(s), e, v) \in Present
<1>. DEFINE c == Context(s)
            h == Handle(c, e, v)
            m == Means(c, e, v)
<1>1. /\ Len(e.args) \in Nat /\ DOMAIN e.args = 1..Len(e.args)
      /\ DOMAIN v = 1..Len(e.args)
  BY TreesAssumption
<1>2. Raised \notin Present /\ Bools \subseteq Present
  BY BoolType DEF Present
<1>3. CASE e.op = "const"
  <2>1. e.val \in Values
    BY <1>3, TreesAssumption
  <2>2. h = e.val /\ m = e.val
    BY <1>3, Zenon DEF Handle, Means
  <2>. QED BY <2>1, <2>2 DEF Present
<1>4. CASE e.op = "name"
  <2>1. h = Lookup(c, e.val[2]) /\ m = Lookup(c, e.val[2])
    BY <1>4, Zenon DEF Handle, Means
  <2>. QED BY <2>1, LookupType DEF Present
<1>5. CASE e.op = "attr" \/ e.op = "not"
  <2>1. v[1] \in Present /\ v[1] # Raised
    <3>1. Len(e.args) = 1
      BY <1>5, TreesAssumption
    <3>. QED BY <1>1, <1>2, <3>1
  <2>2. CASE e.op = "attr"
    <3>1. h = Lookup(v[1], e.val[2])
      BY <2>1, <2>2, Zenon DEF Handle
    <3>2. m = Lookup(v[1], e.val[2])
      BY <2>2, Zenon DEF Means
    <3>. QED BY <2>1, <3>1, <3>2, LookupType DEF Present, Outcomes
  <2>3. CASE e.op = "not"
    <3>1. h = Bool(~Truth(v[1]))
      BY <2>1, <2>3, Zenon DEF Handle
    <3>2. m = Bool(~Truth(v[1]))
      BY <2>3, Zenon DEF Means
    <3>3. Bool(~Truth(v[1])) \in Present
      BY <1>2, BoolType
    <3>. QED BY <3>1, <3>2, <3>3
  <2>. QED BY <1>5, <2>2, <2>3
<1>6. CASE e.op = "and" \/ e.op = "or"
  <2>. DEFINE truths == [i \in DOMAIN v |-> AsBool(v[i])]
              n == Len(e.args)
  <2>1. ASSUME NEW i \in 1..n
        PROVE  /\ truths[i] \in Bools
               /\ Truth(v[i]) => truths[i] = Bool(TRUE)
               /\ ~Truth(v[i]) => truths[i] # Bool(TRUE)
    <3>1. truths[i] = Bool(Truth(v[i]))
      BY <1>1, <1>2 DEF AsBool
    <3>. QED BY <3>1, BoolType, BoolValue
  <2>2. DOMAIN truths = 1..n
    BY <1>1
  <2>. HIDE DEF truths, n
  <2>3. CASE e.op = "and"
    <3>. DEFINE all == \A i \in DOMAIN v : Truth(v[i])
    <3>1. h = FirstOther(truths, Bool(TRUE))
      BY <2>3, Zenon DEF Handle, truths
    <3>2. m = Bool(all)
      BY <2>3, Zenon DEF Means
    <3>3. all => h = Bool(TRUE)
      BY <1>1, <2>1, <2>2, <3>1, LoopValue DEF n
    <3>4. ~all => h = Bool(FALSE)
      BY <1>1, <2>1, <2>2, <3>1, LoopValue DEF n
    <3>5. (all => m = Bool(TRUE)) /\ (~all => m = Bool(FALSE))
      BY <3>2, BoolValue, Zenon
    <3>. HIDE DEF all, h, m
    <3>. QED BY <1>2, <3>3, <3>4, <3>5, BoolType DEF h, m
  <2>4. CASE e.op = "or"
    <3>. DEFINE some == \E i \in DOMAIN v : Truth(v[i])
    <3>1. h = FirstOther(truths, Bool(FALSE))
      BY <2>4, Zenon DEF Handle, truths
    <3>2. m = Bool(some)
      BY <2>4, Zenon DEF Means
    <3>3. some => h = Bool(TRUE)
      BY <1>1, <2>1, <2>2, <3>1, LoopValue DEF n
    <3>4. ~some => h = Bool(FALSE)
      BY <1>1, <2>1, <2>2, <3>1, LoopValue DEF n
    <3>5. (some => m = Bool(TRUE)) /\ (~some => m = Bool(FALSE))
      BY <3>2, BoolValue, Zenon
    <3>. HIDE DEF some, h, m
    <3>. QED BY <1>2, <3>3, <3>4, <3>5, BoolType DEF h, m
  <2>. QED BY <1>6, <2>3, <2>4
<1>7. CASE e.op = "cmp"
  <2>. DEFINE ops == e.val[2]
              o == [i \in DOMAIN ops |->
                      IF Raised \in {LeftOf(v, i), v[i + 1]} THEN Raised
                      ELSE ApplyCmp(LeftOf(v, i), ops[i], v[i + 1])]
              all == \A i \in DOMAIN ops : Related(v[i], ops[i], v[i + 1])
  <2>1. /\ Len(ops) \in Nat /\ DOMAIN ops = 1..Len(ops)
        /\ Len(e.args) = Len(ops) + 1
    BY <1>7, TreesAssumption
  <2>2. ASSUME NEW i \in 1..Len(ops)
        PROVE  /\ o[i] \in Bools
               /\ Related(v[i], ops[i], v[i + 1]) => o[i] = Bool(TRUE)
               /\ ~Related(v[i], ops[i], v[i + 1]) => o[i] # Bool(TRUE)
    <3>1. i \in 1..Len(e.args) /\ i + 1 \in 1..Len(e.args)
      BY <2>1
    <3>2. v[i] # Raised /\ v[i + 1] # Raised
      BY <1>1, <1>2, <3>1
    <3>3. o[i] = ApplyCmp(v[i], ops[i], v[i + 1])
      BY <2>1, <3>2 DEF LeftOf
    <3>4. \A l, op, r : /\ ApplyCmp(l, op, r) \in Bools
                        /\ Related(l, op, r) => ApplyCmp(l, op, r) = Bool(TRUE)
                        /\ ~Related(l, op, r) => ApplyCmp(l, op, r) # Bool(TRUE)
      BY BoolType, BoolValue DEF ApplyCmp, Related
    <3>. QED BY <3>3, <3>4
  <2>3. DOMAIN o = 1..Len(ops)
    BY <2>1
  <2>4. h = FirstOther(o, Bool(TRUE))
    <3>1. Chain(ops, v) = FirstOther(o, Bool(TRUE))
      BY DEF Chain
    <3>2. h = Chain(e.val[2], v)
      BY <1>7, Zenon DEF Handle
    <3>. QED BY <3>1, <3>2
  <2>5. m = Bool(all)
    BY <1>7, Zenon DEF Means
  <2>. HIDE DEF o, h, m
  <2>6. all => h = Bool(TRUE)
    BY <2>1, <2>2, <2>3, <2>4, LoopValue
  <2>7. ~all => h = Bool(FALSE)
    <3>1. \A i \in 1..Len(ops) : o[i] \in Bools
      BY <2>2
    <3>2. ~all => \E i \in 1..Len(ops) : o[i] # Bool(TRUE)
      BY <2>1, <2>2
    <3>. HIDE DEF all, ops
    <3>. QED BY <2>1, <2>3, <2>4, <3>1, <3>2, LoopValue
  <2>8. (all => m = Bool(TRUE)) /\ (~all => m = Bool(FALSE))
    BY <2>5, BoolValue, Zenon
  <2>. HIDE DEF all
  <2>. QED BY <1>2, <2>6, <2>7, <2>8, BoolType DEF h, m
<1>. QED BY <1>3, <1>4, <1>5, <1>6, <1>7 DEF NodeAllowed, Whitelist

\* What a tree means, it means by what its parts mean.
LEMMA MeaningEquation ==
  ASSUME NEW s \in Signals, NEW e \in Trees
  PROVE  LET c == Context(s) IN
         Meaning(c, e) =
           Means(c, e, [i \in DOMAIN e.args |-> Meaning(c, e.args[i])])
<1>. DEFINE c == Context(s)
            H == [t \in Trees |-> [v \in [DOMAIN t.args -> Outcomes] |->
                   Means(c, t, v)]]
            Fix(f) == f = [t \in Trees |->
                            Means(c, t, [i \in DOMAIN t.args |-> f[t.args[i]]])]
            meaning == CHOOSE f : Fix(f)
<1>1. Computes(H, Outcomes)
  <2>1. ASSUME NEW t \in Trees, NEW v \in [DOMAIN t.args -> Outcomes]
        PROVE  Means(c, t, v) \in Outcomes
    <3>1. t.op = "const" => t.val \in Values
      BY TreesAssumption
    <3>2. t.op = "attr" => Lookup(v[1], t.val[2]) \in Outcomes
      <4>1. SUFFICES ASSUME t.op = "attr" PROVE Lookup(v[1], t.val[2]) \in Outcomes
        OBVIOUS
      <4>2. Len(t.args) = 1 /\ DOMAIN t.args = 1..Len(t.args)
        BY <4>1, TreesAssumption
      <4>3. v[1] \in Outcomes
        BY <4>2
      <4>4. Lookup(Raised, t.val[2]) = Missing
        BY DEF Lookup, Raised
      <4>. QED BY <4>3, <4>4, LookupType DEF Outcomes
    <3>3. Lookup(c, t.val[2]) \in Outcomes
      BY LookupType DEF Outcomes
    <3>4. \A b : Bool(b) \in Outcomes
      BY BoolType DEF Outcomes
    <3>5. Values \subseteq Outcomes /\ Missing \in Outcomes
      BY DEF Outcomes
    <3>. HIDE DEF c
    <3>. QED BY <3>1, <3>2, <3>3, <3>4, <3>5, Zenon DEF Means
  <2>. QED BY <2>1 DEF Computes
<1>2. PICK f : Computed(f, H, Outcomes)
  <2>. HIDE DEF H
  <2>. QED BY <1>1, TreeRecursion
<1>3. ASSUME NEW t \in Trees
      PROVE  f[t] = Means(c, t, OfParts(f, t))
  <2>1. OfParts(f, t) \in [DOMAIN t.args -> Outcomes]
    BY <1>2, TreesAssumption DEF OfParts, Computed
  <2>2. f[t] = H[t][OfParts(f, t)]
    BY <1>2 DEF Computed
  <2>. QED BY <2>1, <2>2
<1>. HIDE DEF H
<1>4. Fix(f)
  <2>1. f = [t \in Trees |-> f[t]]
    BY <1>2 DEF Computed
  <2>. DEFINE g == [t \in Trees |-> Means(c, t, OfParts(f, t))]
  <2>2. f = g
    BY <1>3, <2>1
  <2>. QED BY <2>2, Zenon DEF OfParts
<1>5. Fix(meaning)
  BY <1>4
<1>6. \A t : Meaning(c, t) = meaning[t]
  BY DEF Meaning
<1>. HIDE DEF meaning
<1>7. meaning[e] = Means(c, e, OfParts(meaning, e))
  BY <1>5 DEF OfParts
<1>8. OfParts(meaning, e) = [i \in DOMAIN e.args |-> Meaning(c, e.args[i])]
  BY <1>6 DEF OfParts
<1>. QED BY <1>6, <1>7, <1>8, Zenon

\* The value of an accepted tree is its meaning, and is no exception.
LEMMA EvalIsMeaning ==
  ASSUME NEW s \in Signals, NEW e \in Trees, Safe(e)
  PROVE  /\ Eval(Context(s), e) = Meaning(Context(s), e)
         /\ Eval(Context(s), e) \in Present
<1>. DEFINE c == Context(s)
            S == {t \in Trees : Safe(t) => /\ Eval(c, t) = Meaning(c, t)
                                           /\ Eval(c, t) \in Present}
<1>1. ASSUME NEW t \in Trees, \A i \in DOMAIN t.args : t.args[i] \in S
      PROVE  t \in S
  <2>1. SUFFICES ASSUME Safe(t)
                 PROVE  Eval(c, t) = Meaning(c, t) /\ Eval(c, t) \in Present
    OBVIOUS
  <2>. DEFINE v == [i \in DOMAIN t.args |-> Eval(c, t.args[i])]
              w == [i \in DOMAIN t.args |-> Meaning(c, t.args[i])]
  <2>2. NodeAllowed(t) /\ \A i \in DOMAIN t.args : Safe(t.args[i])
    BY <2>1, SafeEquation
  <2>3. \A i \in DOMAIN t.args : /\ Eval(c, t.args[i]) = Meaning(c, t.args[i])
                                 /\ Eval(c, t.args[i]) \in Present
    BY <1>1, <2>2
  <2>4. v = w /\ v \in [DOMAIN t.args -> Present]
    BY <2>3
  <2>5. Eval(c, t) = Handle(c, t, v)
    BY EvalEquation
  <2>6. Meaning(c, t) = Means(c, t, w)
    BY MeaningEquation
  <2>. HIDE DEF v, w
  <2>7. Handle(c, t, v) = Means(c, t, v) /\ Handle(c, t, v) \in Present
    BY <2>2, <2>4, HandlerMeans
  <2>. QED BY <2>4, <2>5, <2>6, <2>7
<1>2. Trees \subseteq S
  <2>. HIDE DEF S
  <2>. QED BY <1>1, TreeInduction
<1>. QED BY <1>2

-----------------------------------------------------------------------------
(* Missing fields.                                                         *)

\* What a root says of fields that its parts lack.
LacksAt(c, e, lacks) ==
  \/ e.op = "and" /\ \E i \in DOMAIN e.args : lacks[i]
  \/ e.op = "or" /\ \A i \in DOMAIN e.args : lacks[i]
  \/ e.op = "cmp" /\ \E i \in DOMAIN e.args : Eval(c, e.args[i]) = Missing
  \/ e.op = "attr" /\ Eval(c, e) = Missing

LEMMA LacksEquation ==
  ASSUME NEW c, NEW e \in Trees
  PROVE  LacksField(c, e) <=>
           LacksAt(c, e, [i \in DOMAIN e.args |-> LacksField(c, e.args[i])])
<1>. DEFINE B == BOOLEAN
            H == [t \in Trees |-> [v \in [DOMAIN t.args -> B] |-> LacksAt(c, t, v)]]
            Root(t, f) ==
              \/ t.op = "and" /\ \E i \in DOMAIN t.args : f[t.args[i]]
              \/ t.op = "or" /\ \A i \in DOMAIN t.args : f[t.args[i]]
              \/ t.op = "cmp" /\ \E i \in DOMAIN t.args : Eval(c, t.args[i]) = Missing
              \/ t.op = "attr" /\ Eval(c, t) = Missing
            Fix(f) == f = [t \in Trees |-> Root(t, f)]
            lacks == CHOOSE f : Fix(f)
<1>1. Computes(H, B)
  BY DEF LacksAt, Computes
<1>2. PICK f : Computed(f, H, B)
  <2>. HIDE DEF H, B
  <2>. QED BY <1>1, TreeRecursion
<1>3. ASSUME NEW t, NEW g
      PROVE  LacksAt(c, t, OfParts(g, t)) = Root(t, g)
  BY DEF LacksAt, OfParts
<1>4. ASSUME NEW t \in Trees
      PROVE  f[t] = Root(t, f)
  <2>1. OfParts(f, t) \in [DOMAIN t.args -> B]
    BY <1>2, TreesAssumption DEF OfParts, Computed
  <2>2. f[t] = H[t][OfParts(f, t)]
    BY <1>2 DEF Computed
  <2>3. H[t][OfParts(f, t)] = LacksAt(c, t, OfParts(f, t))
    BY <2>1
  <2>. HIDE DEF H, Root
  <2>. QED BY <1>3, <2>2, <2>3
<1>. HIDE DEF H, B
<1>5. Fix(f)
  <2>. HIDE DEF Root
  <2>1. f = [t \in Trees |-> f[t]]
    BY <1>2 DEF Computed
  <2>. DEFINE g == [t \in Trees |-> Root(t, f)]
  <2>2. f = g
    BY <1>4, <2>1
  <2>. QED BY <2>2, Zenon
<1>6. Fix(lacks)
  <2>. HIDE DEF Root
  <2>. QED BY <1>5, Zenon
<1>7. \A t : LacksField(c, t) = lacks[t]
  BY Zenon DEF LacksField
<1>. HIDE DEF lacks
<1>8. lacks[e] = Root(e, lacks)
  <2>. HIDE DEF Root
  <2>. QED BY <1>6
<1>. QED BY <1>7, <1>8 DEF LacksAt

\* An accepted condition that needs a missing field does not hold.
LEMMA LacksFails ==
  ASSUME NEW s \in Signals, NEW e \in Trees, Safe(e), LacksField(Context(s), e)
  PROVE  ~Truth(Eval(Context(s), e))
<1>. DEFINE c == Context(s)
            S == {t \in Trees : Safe(t) /\ LacksField(c, t) => ~Truth(Eval(c, t))}
<1>1. ASSUME NEW t \in Trees, \A i \in DOMAIN t.args : t.args[i] \in S
      PROVE  t \in S
  <2>1. SUFFICES ASSUME Safe(t), LacksField(c, t)
                 PROVE  ~Truth(Eval(c, t))
    OBVIOUS
  <2>. DEFINE v == [i \in DOMAIN t.args |-> Eval(c, t.args[i])]
              of == [i \in DOMAIN t.args |-> LacksField(c, t.args[i])]
              m == Means(c, t, v)
  <2>2. NodeAllowed(t) /\ \A i \in DOMAIN t.args : Safe(t.args[i])
    BY <2>1, SafeEquation
  <2>3. v \in [DOMAIN t.args -> Present]
    BY <2>2, EvalIsMeaning, TreesAssumption
  <2>4. Eval(c, t) = m
    <3>1. Eval(c, t) = Handle(c, t, v)
      BY EvalEquation
    <3>. HIDE DEF v
    <3>. QED BY <2>2, <2>3, <3>1, HandlerMeans
  <2>5. \A i \in DOMAIN t.args : LacksField(c, t.args[i]) => ~Truth(v[i])
    BY <1>1, <2>2
  <2>6. /\ t.args \in Seq(Trees) /\ Len(t.args) \in Nat
        /\ DOMAIN t.args = 1..Len(t.args) /\ DOMAIN v = 1..Len(t.args)
    BY TreesAssumption
  <2>7. LacksAt(c, t, of)
    BY <2>1, LacksEquation
  <2>8. ~Truth(Bool(FALSE)) /\ ~Truth(Missing)
    <3>1. Missing[1] = "missing"
      BY DEF Missing
    <3>2. Truth(Missing) = FALSE
      BY <3>1, Zenon DEF Truth
    <3>. QED BY <3>2, BoolType
  <2>9. CASE t.op = "and" /\ \E i \in DOMAIN t.args : of[i]
    <3>. DEFINE all == \A i \in DOMAIN v : Truth(v[i])
    <3>1. m = Bool(all)
      BY <2>9, Zenon DEF Means
    <3>2. ~all
      BY <2>5, <2>6, <2>9
    <3>3. m = Bool(FALSE)
      BY <3>1, <3>2, BoolValue, Zenon
    <3>. QED BY <2>4, <2>8, <3>3
  <2>10. CASE t.op = "or" /\ \A i \in DOMAIN t.args : of[i]
    <3>. DEFINE some == \E i \in DOMAIN v : Truth(v[i])
    <3>1. m = Bool(some)
      BY <2>10, Zenon DEF Means
    <3>2. ~some
      BY <2>5, <2>6, <2>10
    <3>3. m = Bool(FALSE)
      BY <3>1, <3>2, BoolValue, Zenon
    <3>. QED BY <2>4, <2>8, <3>3
  <2>11. CASE t.op = "cmp" /\ \E i \in DOMAIN t.args : Eval(c, t.args[i]) = Missing
    <3>. DEFINE ops == t.val[2]
                all == \A i \in DOMAIN ops : Related(v[i], ops[i], v[i + 1])
    <3>1. m = Bool(all)
      BY <2>11, Zenon DEF Means
    <3>2. /\ Len(ops) \in Nat \ {0} /\ DOMAIN ops = 1..Len(ops)
          /\ Len(t.args) = Len(ops) + 1
      BY <2>11, TreesAssumption
    <3>3. PICK i \in 1..Len(t.args) : v[i] = Missing
      BY <2>6, <2>11
    <3>4. PICK k \in 1..Len(ops) : Missing \in {v[k], v[k + 1]}
      <4>1. CASE i \in 1..Len(ops)
        BY <3>3, <4>1
      <4>2. CASE i \notin 1..Len(ops)
        <5>1. Len(ops) \in 1..Len(ops) /\ i = Len(ops) + 1
          BY <3>2, <4>2
        <5>. QED BY <3>3, <5>1
      <4>. QED BY <4>1, <4>2
    <3>5. ~Related(v[k], ops[k], v[k + 1])
      BY <3>4 DEF Related
    <3>6. ~all
      BY <3>2, <3>5
    <3>7. m = Bool(FALSE)
      BY <3>1, <3>6, BoolValue, Zenon
    <3>. QED BY <2>4, <2>8, <3>7
  <2>12. CASE t.op = "attr" /\ Eval(c, t) = Missing
    BY <2>8, <2>12
  <2>. HIDE DEF of
  <2>. QED BY <2>7, <2>9, <2>10, <2>11, <2>12 DEF LacksAt
<1>2. Trees \subseteq S
  <2>. HIDE DEF S
  <2>. QED BY <1>1, TreeInduction
<1>. QED BY <1>2

-----------------------------------------------------------------------------
(* Negated comparisons.                                                    *)

Operators == Equalities \cup Orders \cup Containment

\* What can be ordered has a magnitude.
LEMMA MagnitudeType ==
  ASSUME NEW l \in Values, NEW r \in Values, NEW op \in Orders,
         Comparable(l, op, r)
  PROVE  Magnitude(l) \in Int /\ Magnitude(r) \in Int
<1>1. \/ IsNumber(l) /\ IsNumber(r)
      \/ l[1] = r[1] /\ l[1] \in {"str", "time"}
  BY DEF Comparable, Orders, Equalities, Containment
<1>2. \A v \in Values : v[1] \in {"bool", "num", "time", "str"} => Magnitude(v) \in Int
  BY ValuesAssumption DEF Magnitude
<1>. QED BY <1>1, <1>2 DEF IsNumber

\* Opposite operators compare the same operands, with opposite results.
LEMMA OppositeRelation ==
  ASSUME NEW l \in Values, NEW r \in Values, NEW op \in Operators
  PROVE  LET opp == Opposite[op] IN
         /\ Comparable(l, opp, r) <=> Comparable(l, op, r)
         /\ Comparable(l, op, r) => (Relation(l, opp, r) <=> ~Relation(l, op, r))
<1>. DEFINE opp == Opposite[op]
<1>1. /\ Opposite["=="] = "!=" /\ Opposite["!="] = "=="
      /\ Opposite["<"] = ">=" /\ Opposite[">="] = "<"
      /\ Opposite[">"] = "<=" /\ Opposite["<="] = ">"
      /\ Opposite["in"] = "not in" /\ Opposite["not in"] = "in"
  <2>. DEFINE f(o) ==
         CASE o = "==" -> "!=" [] o = "!=" -> "==" [] o = "<" -> ">="
           [] o = "<=" -> ">"  [] o = ">" -> "<="  [] o = ">=" -> "<"
           [] o = "in" -> "not in" [] o = "not in" -> "in"
  <2>1. /\ f("==") = "!=" /\ f("!=") = "==" /\ f("<") = ">=" /\ f(">=") = "<"
        /\ f(">") = "<=" /\ f("<=") = ">"
        /\ f("in") = "not in" /\ f("not in") = "in"
    BY Zenon
  <2>2. Opposite = [o \in Operators |-> f(o)]
    BY Zenon DEF Opposite, Operators
  <2>. HIDE DEF f
  <2>. QED BY <2>1, <2>2 DEF Operators, Equalities, Orders, Containment
<1>2. /\ Relation(l, "==", r) <=> Same(l, r)
      /\ Relation(l, "!=", r) <=> ~Same(l, r)
      /\ Relation(l, "<", r) <=> Magnitude(l) < Magnitude(r)
      /\ Relation(l, "<=", r) <=> Magnitude(l) <= Magnitude(r)
      /\ Relation(l, ">", r) <=> Magnitude(l) > Magnitude(r)
      /\ Relation(l, ">=", r) <=> Magnitude(l) >= Magnitude(r)
      /\ Relation(l, "in", r) <=> Contains(r, l)
      /\ Relation(l, "not in", r) <=> ~Contains(r, l)
  BY Zenon DEF Relation
<1>3. CASE op \in Equalities
  <2>1. opp \in Equalities
    BY <1>1, <1>3 DEF Equalities
  <2>2. Comparable(l, op, r) /\ Comparable(l, opp, r)
    BY <1>3, <2>1 DEF Comparable
  <2>3. Relation(l, opp, r) <=> ~Relation(l, op, r)
    BY <1>1, <1>2, <1>3 DEF Equalities
  <2>. QED BY <2>2, <2>3
<1>4. CASE op \in Orders
  <2>. DEFINE ordered == \/ IsNumber(l) /\ IsNumber(r)
                         \/ l[1] = r[1] /\ l[1] \in {"str", "time"}
  <2>1. op \in Orders /\ opp \in Orders
    BY <1>1, <1>4 DEF Orders
  <2>2. \A o \in Orders : Comparable(l, o, r) <=> ordered
    BY DEF Comparable, Orders, Equalities, Containment
  <2>3. ASSUME Comparable(l, op, r)
        PROVE  Relation(l, opp, r) <=> ~Relation(l, op, r)
    <3>1. Magnitude(l) \in Int /\ Magnitude(r) \in Int
      BY <2>1, <2>3, MagnitudeType
    <3>2. \/ op = "<" /\ opp = ">="
          \/ op = ">=" /\ opp = "<"
          \/ op = ">" /\ opp = "<="
          \/ op = "<=" /\ opp = ">"
      BY <1>1, <1>4 DEF Orders
    <3>3. \A x, y \in Int : (x < y <=> ~(x >= y)) /\ (x > y <=> ~(x <= y))
      OBVIOUS
    <3>. HIDE DEF opp
    <3>. QED BY <1>2, <3>1, <3>2, <3>3
  <2>. QED BY <2>1, <2>2, <2>3
<1>5. CASE op \in Containment
  <2>. DEFINE searched == \/ r[1] = "str" /\ l[1] = "str"
                          \/ r[1] = "dict" /\ l[1] # "dict"
  <2>1. op \in Containment /\ opp \in Containment
    BY <1>1, <1>5 DEF Containment
  <2>2. \A o \in Containment : Comparable(l, o, r) <=> searched
    BY DEF Comparable, Orders, Equalities, Containment
  <2>3. Relation(l, opp, r) <=> ~Relation(l, op, r)
    BY <1>1, <1>2, <1>5 DEF Containment
  <2>. QED BY <2>1, <2>2, <2>3
<1>. QED BY <1>3, <1>4, <1>5 DEF Operators

\* A comparison yields the truth value of the relation.
LEMMA ApplyCmpValue ==
  ASSUME NEW l, NEW op, NEW r
  PROVE  /\ Related(l, op, r) => ApplyCmp(l, op, r) = Bool(TRUE)
         /\ ~Related(l, op, r) => ApplyCmp(l, op, r) = Bool(FALSE)
<1>. DEFINE both == Comparable(l, op, r) /\ Relation(l, op, r)
<1>1. CASE Missing \in {l, r}
  <2>1. ApplyCmp(l, op, r) = Bool(FALSE) /\ ~Related(l, op, r)
    BY <1>1, Zenon DEF ApplyCmp, Related
  <2>. QED BY <2>1
<1>2. CASE Missing \notin {l, r}
  <2>1. ApplyCmp(l, op, r) = Bool(both)
    BY <1>2, Zenon DEF ApplyCmp
  <2>2. Related(l, op, r) <=> both
    BY <1>2, Zenon DEF Related
  <2>3. /\ both => Bool(both) = Bool(TRUE)
        /\ ~both => Bool(both) = Bool(FALSE)
    BY BoolValue, Zenon
  <2>. HIDE DEF both
  <2>. QED BY <2>1, <2>2, <2>3, Zenon
<1>. QED BY <1>1, <1>2

\* A chain of one pair is the comparison of the pair.
LEMMA SinglePair ==
  ASSUME NEW l, NEW op, NEW r, l # Raised, r # Raised
  PROVE  Chain(<<op>>, <<l, r>>) = ApplyCmp(l, op, r)
<1>. DEFINE o == [i \in DOMAIN <<op>> |->
                    IF Raised \in {LeftOf(<<l, r>>, i), <<l, r>>[i + 1]} THEN Raised
                    ELSE ApplyCmp(LeftOf(<<l, r>>, i), <<op>>[i], <<l, r>>[i + 1])]
<1>1. Chain(<<op>>, <<l, r>>) = FirstOther(o, Bool(TRUE))
  BY DEF Chain
<1>2. DOMAIN o = 1..1 /\ o[1] = ApplyCmp(l, op, r)
  <2>1. DOMAIN <<op>> = 1..1 /\ 1 \in 1..1
    OBVIOUS
  <2>2. <<l, r>>[1] = l /\ <<l, r>>[1 + 1] = r /\ <<op>>[1] = op
    OBVIOUS
  <2>. QED BY <2>1, <2>2 DEF LeftOf
<1>. HIDE DEF o
<1>3. \/ FirstOther(o, Bool(TRUE)) = Bool(TRUE) /\ \A i \in 1..1 : o[i] = Bool(TRUE)
      \/ \E i \in 1..1 : o[i] # Bool(TRUE) /\ FirstOther(o, Bool(TRUE)) = o[i]
  <2>. DEFINE goOn == Bool(TRUE)
  <2>. HIDE DEF goOn
  <2>1. 1 \in Nat /\ DOMAIN o = 1..1
    BY <1>2
  <2>2. \/ FirstOther(o, goOn) = goOn /\ \A i \in 1..1 : o[i] = goOn
        \/ \E i \in 1..1 : o[i] # goOn /\ FirstOther(o, goOn) = o[i]
    <3>1. \A n \in Nat : DOMAIN o = 1..n =>
            \/ FirstOther(o, goOn) = goOn /\ \A i \in 1..n : o[i] = goOn
            \/ \E i \in 1..n : o[i] # goOn /\ FirstOther(o, goOn) = o[i]
      BY FirstOtherExists
    <3>. QED BY <2>1, <3>1, Zenon
  <2>. QED BY <2>2 DEF goOn
<1>4. \A i \in 1..1 : i = 1
  OBVIOUS
<1>5. 1 \in 1..1
  OBVIOUS
<1>. QED BY <1>1, <1>2, <1>3, <1>4, <1>5

\* The negation of a comparison and the opposite comparison part exactly where
\* the operands are not both there and comparable.
LEMMA PairNegated ==
  ASSUME NEW l \in Present, NEW r \in Present, NEW op \in Operators
  PROVE  Bool(~Truth(ApplyCmp(l, op, r))) # ApplyCmp(l, Opposite[op], r)
         <=> Missing \in {l, r} \/ ~Comparable(l, op, r)
<1>. DEFINE opp == Opposite[op]
            a == ApplyCmp(l, op, r)
            b == ApplyCmp(l, opp, r)
<1>1. /\ Related(l, op, r) => a = Bool(TRUE)
      /\ ~Related(l, op, r) => a = Bool(FALSE)
      /\ Related(l, opp, r) => b = Bool(TRUE)
      /\ ~Related(l, opp, r) => b = Bool(FALSE)
  BY ApplyCmpValue
<1>2. /\ Truth(Bool(TRUE)) /\ ~Truth(Bool(FALSE)) /\ Bool(TRUE) # Bool(FALSE)
  BY BoolType
<1>3. /\ Truth(a) => Bool(~Truth(a)) = Bool(FALSE)
      /\ ~Truth(a) => Bool(~Truth(a)) = Bool(TRUE)
  BY BoolValue, Zenon
<1>4. CASE Missing \in {l, r} \/ ~Comparable(l, op, r)
  <2>1. ~Related(l, op, r)
    BY <1>4, Zenon DEF Related
  <2>2. ~Related(l, opp, r)
    <3>1. CASE Missing \in {l, r}
      BY <3>1, Zenon DEF Related
    <3>2. CASE Missing \notin {l, r}
      <4>1. l \in Values /\ r \in Values
        BY <3>2 DEF Present
      <4>2. ~Comparable(l, opp, r)
        BY <1>4, <3>2, <4>1, OppositeRelation
      <4>. QED BY <4>2, Zenon DEF Related
    <3>. QED BY <3>1, <3>2
  <2>. HIDE DEF a, b, opp
  <2>3. Bool(~Truth(a)) = Bool(TRUE) /\ b = Bool(FALSE)
    BY <1>1, <1>2, <1>3, <2>1, <2>2, Zenon
  <2>4. Bool(~Truth(a)) # b
    BY <1>2, <2>3, Zenon
  <2>. QED BY <1>4, <2>4, Zenon DEF a, b, opp
<1>5. CASE ~(Missing \in {l, r} \/ ~Comparable(l, op, r))
  <2>1. l \in Values /\ r \in Values /\ Missing \notin {l, r} /\ Comparable(l, op, r)
    BY <1>5 DEF Present
  <2>2. Comparable(l, opp, r) /\ (Relation(l, opp, r) <=> ~Relation(l, op, r))
    BY <2>1, OppositeRelation
  <2>. HIDE DEF opp
  <2>3. Related(l, opp, r) <=> ~Related(l, op, r)
    BY <2>1, <2>2, Zenon DEF Related
  <2>. HIDE DEF a, b
  <2>4. Bool(~Truth(a)) = b
    BY <1>1, <1>2, <1>3, <2>3, Zenon
  <2>. QED BY <1>5, <2>4, Zenon DEF a, b, opp
<1>. QED BY <1>4, <1>5

\* The negation of an accepted comparison of one pair, and the comparison with
\* the opposite operator.
LEMMA NegatedComparison ==
  ASSUME NEW s \in Signals, NEW e \in Trees, Safe(e),
         e.op = "cmp", Len(e.val[2]) = 1
  PROVE  LET c  == Context(s)
             op == e.val[2][1]
             l  == Eval(c, e.args[1])
             r  == Eval(c, e.args[2])
         IN  Handle(c, Not(e), <<Eval(c, e)>>)
               # Handle(c, Cmp(<<Opposite[op]>>, e.args), <<l, r>>)
             <=> Missing \in {l, r} \/ ~Comparable(l, op, r)
<1>. DEFINE c   == Context(s)
            ops == e.val[2]
            op  == ops[1]
            opp == Opposite[op]
            l   == Eval(c, e.args[1])
            r   == Eval(c, e.args[2])
            v   == [i \in DOMAIN e.args |-> Eval(c, e.args[i])]
            not == Handle(c, Not(e), <<Eval(c, e)>>)
            other == Handle(c, Cmp(<<opp>>, e.args), <<l, r>>)
<1>1. /\ DOMAIN e.args = 1..2 /\ DOMAIN ops = 1..1
      /\ ops = <<op>> /\ v = <<l, r>>
  <2>1. e.args \in Seq(Trees) /\ ops \in Seq(STRING) /\ Len(ops) = 1
    BY TreesAssumption
  <2>2. Len(e.args) = Len(ops) + 1
    BY TreesAssumption
  <2>3. Len(e.args) = 2
    BY <2>1, <2>2
  <2>. HIDE DEF ops
  <2>4. DOMAIN e.args = 1..2 /\ DOMAIN ops = 1..1
    BY <2>1, <2>3
  <2>5. ops = <<ops[1]>>
    BY <2>1
  <2>6. v = <<l, r>>
    BY <2>4
  <2>. QED BY <2>4, <2>5, <2>6
<1>2. NodeAllowed(e) /\ \A i \in 1..2 : Safe(e.args[i]) /\ e.args[i] \in Trees
  BY <1>1, SafeEquation, TreesAssumption
<1>3. op \in Operators
  BY <1>1, <1>2 DEF NodeAllowed, Operators
<1>4. l \in Present /\ r \in Present /\ l # Raised /\ r # Raised
  BY <1>2, EvalIsMeaning, BoolType DEF Present
<1>5. Eval(c, e) # Raised
  BY EvalIsMeaning, BoolType DEF Present
<1>6. Eval(c, e) = ApplyCmp(l, op, r)
  <2>1. Eval(c, e) = Handle(c, e, v)
    BY EvalEquation
  <2>2. Handle(c, e, v) = Chain(ops, v)
    BY Zenon DEF Handle
  <2>3. Chain(<<op>>, <<l, r>>) = ApplyCmp(l, op, r)
    BY <1>4, SinglePair
  <2>. HIDE DEF v, l, r, ops, c
  <2>. QED BY <1>1, <2>1, <2>2, <2>3, Zenon
<1>7. not = Bool(~Truth(Eval(c, e)))
  <2>1. Not(e).op = "not" /\ <<Eval(c, e)>>[1] = Eval(c, e)
    BY DEF Not, Node
  <2>. QED BY <1>5, <2>1, Zenon DEF Handle
<1>8. other = ApplyCmp(l, opp, r)
  <2>1. Cmp(<<opp>>, e.args).op = "cmp" /\ Cmp(<<opp>>, e.args).val[2] = <<opp>>
    BY DEF Cmp, Node
  <2>2. other = Chain(<<opp>>, <<l, r>>)
    BY <2>1, Zenon DEF Handle
  <2>3. Chain(<<opp>>, <<l, r>>) = ApplyCmp(l, opp, r)
    BY <1>4, SinglePair
  <2>. QED BY <2>2, <2>3, Zenon
<1>9. Bool(~Truth(ApplyCmp(l, op, r))) # ApplyCmp(l, opp, r)
      <=> Missing \in {l, r} \/ ~Comparable(l, op, r)
  <2>. HIDE DEF l, r, op
  <2>. QED BY <1>3, <1>4, PairNegated
<1>10. not # other <=> Missing \in {l, r} \/ ~Comparable(l, op, r)
  <2>. HIDE DEF not, other, l, r, op, opp, c
  <2>. QED BY <1>6, <1>7, <1>8, <1>9, Zenon
<1>. QED BY <1>10, Zenon

-----------------------------------------------------------------------------
(* The invariant.                                                          *)

\* Only what the checker accepted is evaluated, and the verdict is the value of
\* the accepted tree for the signal.
Judged ==
  /\ source \in Conditions \cup {Blank} /\ signal \in Signals
  /\ pc \in {"read", "evaluate", "rejected", "done"}
  /\ pc = "read" => tree = Blank
  /\ pc = "evaluate" => tree \in Trees /\ Safe(tree)
  /\ pc = "done" =>
       \/ tree = Blank /\ verdict = "true"
       \/ /\ tree \in Trees /\ Safe(tree)
          /\ verdict = Result(Eval(Context(signal), tree))

\* No action makes an evaluated tree of one the checker has not accepted.
THEOREM JudgedInvariant == Spec => []Judged
<1>1. Init => Judged
  BY DEF Init, Judged
<1>2. Judged /\ [Next]_vars => Judged'
  <2>. SUFFICES ASSUME Judged, [Next]_vars PROVE Judged'
    OBVIOUS
  <2>1. CASE Unconditional
    BY <2>1 DEF Judged, Unconditional
  <2>2. CASE Reject
    BY <2>2 DEF Judged, Reject
  <2>3. CASE Accept
    <3>1. Normalize(source) \in Trees
      BY <2>3, ReadAssumption DEF Judged, Accept
    <3>. QED BY <2>3, <3>1 DEF Judged, Accept
  <2>4. CASE Evaluate
    <3>1. signal' = signal /\ tree' = tree /\ source' = source
      BY <2>4 DEF Evaluate
    <3>2. verdict' = Result(Eval(Context(signal'), tree'))
      BY <2>4, <3>1 DEF Evaluate
    <3>. QED BY <2>4, <3>1, <3>2 DEF Judged, Evaluate
  <2>5. CASE UNCHANGED vars
    BY <2>5 DEF Judged, vars
  <2>. QED BY <2>1, <2>2, <2>3, <2>4, <2>5 DEF Next
<1>. QED BY <1>1, <1>2, PTL DEF Spec

\* An accepted tree has a value, and its verdict says whether the value is true.
LEMMA VerdictOfTree ==
  ASSUME Judged, pc = "done", tree # Blank
  PROVE  /\ tree \in Trees /\ Safe(tree) /\ signal \in Signals
         /\ Eval(Context(signal), tree) # Raised
         /\ verdict = "true" <=> Truth(Eval(Context(signal), tree))
         /\ verdict \in {"true", "false"}
<1>1. tree \in Trees /\ Safe(tree) /\ signal \in Signals
  BY DEF Judged
<1>2. Eval(Context(signal), tree) # Raised
  BY <1>1, EvalIsMeaning, BoolType DEF Present
<1>3. verdict = Result(Eval(Context(signal), tree))
  BY DEF Judged
<1>. QED BY <1>1, <1>2, <1>3 DEF Result

\* What the checker accepts raises nothing, whatever the signal carries.
THEOREM NeverRaises == Spec => []AcceptedNeverRaises
<1>1. Judged => AcceptedNeverRaises
  <2>. SUFFICES ASSUME Judged, pc = "done" PROVE verdict # "raised"
    BY DEF AcceptedNeverRaises
  <2>1. CASE tree = Blank /\ verdict = "true"
    BY <2>1
  <2>2. CASE /\ tree \in Trees /\ Safe(tree)
             /\ verdict = Result(Eval(Context(signal), tree))
    <3>1. Eval(Context(signal), tree) # Raised
      BY <2>2, EvalIsMeaning, BoolType DEF Judged, Present
    <3>. QED BY <2>2, <3>1 DEF Result
  <2>. QED BY <2>1, <2>2 DEF Judged
<1>. QED BY <1>1, JudgedInvariant, PTL

\* The verdict of evaluate() is the meaning of the condition: neither the order
\* of evaluation nor where it stops can be told from the verdict.
THEOREM EvaluationIsMeaning == Spec => []VerdictIsMeaning
<1>1. Judged => VerdictIsMeaning
  <2>. SUFFICES ASSUME Judged, pc = "done", tree # Blank
                PROVE  verdict = "true" <=> Truth(Meaning(Context(signal), tree))
    BY DEF VerdictIsMeaning
  <2>1. Eval(Context(signal), tree) = Meaning(Context(signal), tree)
    BY VerdictOfTree, EvalIsMeaning
  <2>. QED BY <2>1, VerdictOfTree
<1>. QED BY <1>1, JudgedInvariant, PTL

\* A condition that cannot hold without a field the signal lacks, does not hold.
THEOREM MissingFieldFailsClosed == Spec => []MissingFieldNeverMatches
<1>1. Judged => MissingFieldNeverMatches
  <2>. SUFFICES ASSUME Judged, pc = "done", tree # Blank,
                       LacksField(Context(signal), tree)
                PROVE  verdict = "false"
    BY DEF MissingFieldNeverMatches
  <2>1. ~Truth(Eval(Context(signal), tree))
    BY VerdictOfTree, LacksFails
  <2>. QED BY <2>1, VerdictOfTree
<1>. QED BY <1>1, JudgedInvariant, PTL

\* A negated comparison and the opposite comparison give different values
\* exactly for operands that are missing or cannot be compared.
THEOREM NegationParts == Spec => []NegationPartsOnlyWithoutValues
<1>1. Judged => NegationPartsOnlyWithoutValues
  <2>. SUFFICES ASSUME Judged, pc = "done", tree # Blank,
                       tree.op = "cmp", Len(tree.val[2]) = 1
                PROVE  NegationPartsOnlyWithoutValues
    BY DEF NegationPartsOnlyWithoutValues
  <2>1. tree \in Trees /\ Safe(tree) /\ signal \in Signals
    BY VerdictOfTree
  <2>. QED BY <2>1, NegatedComparison, Zenon DEF NegationPartsOnlyWithoutValues
<1>. QED BY <1>1, JudgedInvariant, PTL

=============================================================================
