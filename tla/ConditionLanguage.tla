-------------------------- MODULE ConditionLanguage -------------------------
(***************************************************************************)
(* ConditionEvaluator: what a condition of a flow file means for a signal. *)
(* A condition is read (literals normalised, parsed), its tree is checked  *)
(* against a whitelist, and only then is it evaluated.                     *)
(*                                                                         *)
(* A tree is [op, val, args]: the kind of its root, what the root carries  *)
(* (a value, a name, the operators of a chained comparison) and its        *)
(* subtrees.  A value is a pair of its Python type and its content; a      *)
(* dictionary's content is a function from keys.                           *)
(***************************************************************************)
EXTENDS Integers, Sequences

CONSTANTS
  Conditions,     \* conditions of flow files, as source trees
  Blank,          \* stands for a null or empty condition
  Trees,          \* the conditions, what they are read as, and all parts
  Height,         \* of a tree, more than its subtrees'
  Signals,        \* what a signal carries
  Values,         \* Python values: of literals, and in signals at any depth
  Rank,           \* the place of a text in the lexicographic order
  Inside(_, _)    \* substring test

\* A node as ast.parse builds it.
Node(op, val, args) == [op |-> op, val |-> val, args |-> args]

Const(v)       == Node("const", v, <<>>)
Name(id)       == Node("name", <<"text", id>>, <<>>)
Attr(e, a)     == Node("attr", <<"text", a>>, <<e>>)
Not(e)         == Node("not", <<"text", "">>, <<e>>)
And(es)        == Node("and", <<"text", "">>, es)
Or(es)         == Node("or", <<"text", "">>, es)
Cmp(ops, es)   == Node("cmp", <<"ops", ops>>, es)
Call(e)        == Node("call", <<"text", "">>, <<e>>)

PyNone    == <<"none", 0>>
Bool(b)   == <<"bool", IF b THEN 1 ELSE 0>>
Num(n)    == <<"num", n>>
Str(t)    == <<"str", t>>
Dict(f)   == <<"dict", f>>

Missing  == <<"missing", 0>>     \* the sentinel
Raised   == <<"raised", 0>>      \* an exception leaves the evaluator

\* What ast.parse builds is finite, and has the parts its kind asks for.
ASSUME TreesAssumption ==
  /\ Height \in [Trees -> Nat]
  /\ \A e \in Trees :
       /\ e.args \in Seq(Trees)
       /\ \A i \in DOMAIN e.args : Height[e.args[i]] < Height[e]
       /\ e.op = "const" => e.val \in Values
       /\ e.op \in {"attr", "not"} => Len(e.args) = 1
       /\ e.op = "cmp" =>
            /\ e.val[2] \in Seq(STRING) /\ e.val[2] # <<>>
            /\ Len(e.args) = Len(e.val[2]) + 1

\* A value of a kind has a content of that kind; an outcome of a comparison is
\* a value, what stands for the lack of one is not.
ASSUME ValuesAssumption ==
  /\ \A b \in BOOLEAN : Bool(b) \in Values
  /\ \A v \in Values :
       /\ v # Raised
       /\ v[1] \in {"bool", "num", "time"} => v[2] \in Int
       /\ v[1] = "str" => v[2] \in DOMAIN Rank
       /\ v[1] = "dict" => \A k \in DOMAIN v[2] : v[2][k] \in Values
  /\ Rank \in [DOMAIN Rank -> Int]
  /\ Signals \subseteq [type : Values, confidence : Values, payload : Values,
                         source : Values, timestamp : Values]

VARIABLES
  source,     \* the condition as the flow file has it
  signal,     \* the signal it is evaluated for
  pc,         \* "read" | "evaluate" | "rejected" | "done"
  tree,       \* the tree that passed the checker
  verdict     \* what evaluate() returned

vars == <<source, signal, pc, tree, verdict>>

Init ==
  /\ source \in Conditions \cup {Blank}
  /\ signal \in Signals
  /\ pc = "read" /\ tree = Blank /\ verdict = "none"

\* The context the engine evaluates in.
Context(s) ==
  Dict([type |-> s.type, confidence |-> s.confidence, payload |-> s.payload,
        source |-> s.source, created_at |-> s.timestamp])

-----------------------------------------------------------------------------
(* Reading: _normalize_literals and ast.parse.                             *)

Words == {"true", "false", "null"}

\* The substitution works on the text, so a word is rewritten wherever it
\* stands: as a literal, in a string, or as a key behind a dot, where the
\* Python literal is no attribute name and the parse fails.
Rewrite(e) ==
  CASE e.op = "name" /\ e.val[2] = "true"  -> Const(Bool(TRUE))
    [] e.op = "name" /\ e.val[2] = "false" -> Const(Bool(FALSE))
    [] e.op = "name" /\ e.val[2] = "null"  -> Const(PyNone)
    [] e.op = "const" /\ e.val = Str("true") -> Const(Str("True"))
    [] e.op = "attr" /\ e.val[2] \in Words ->
         Node("syntax_error", e.val, e.args)
    [] OTHER -> e

Normalize(condition) ==
  LET normal[e \in Trees] ==
        Rewrite([e EXCEPT !.args = [i \in DOMAIN e.args |-> normal[e.args[i]]]])
  IN  normal[condition]

\* Conditions, and what they are read as, are among the trees.
ASSUME ReadAssumption ==
  Conditions \subseteq Trees /\ \A e \in Conditions : Normalize(e) \in Trees

-----------------------------------------------------------------------------
(* _SafeNodeChecker.                                                       *)

AllowedVars == {"type", "confidence", "payload", "source", "created_at"}

Equalities  == {"==", "!="}
Orders      == {"<", "<=", ">", ">="}
Containment == {"in", "not in"}

Whitelist == {"const", "name", "attr", "not", "and", "or", "cmp"}

\* What the checker says of one node, its operators included.
NodeAllowed(e) ==
  /\ e.op \in Whitelist
  /\ e.op = "name" => e.val[2] \in AllowedVars
  /\ e.op = "attr" => e.val[2] # "__class__"
  /\ e.op = "cmp"  => \A i \in DOMAIN e.val[2] :
                        e.val[2][i] \in Equalities \cup Orders \cup Containment

\* generic_visit, called by every visitor.
Children(e) == DOMAIN e.args

Safe(t) ==
  LET safe[e \in Trees] ==
        NodeAllowed(e) /\ \A i \in Children(e) : safe[e.args[i]]
  IN  safe[t]

-----------------------------------------------------------------------------
(* _SafeEvaluator._apply_cmp.                                              *)

IsNumber(v) == v[1] \in {"bool", "num"}

\* == is defined for all values, and True is the number 1.
Same(l, r) == IF IsNumber(l) /\ IsNumber(r) THEN l[2] = r[2] ELSE l = r

Magnitude(v) == IF v[1] = "str" THEN Rank[v[2]] ELSE v[2]

\* What Python raises TypeError for: an order between different kinds or of
\* values that have none, a search in what is no container, for a text in a
\* text only, and for an unhashable key.
Comparable(l, op, r) ==
  \/ op \in Equalities
  \/ /\ op \in Orders
     /\ \/ IsNumber(l) /\ IsNumber(r)
        \/ l[1] = r[1] /\ l[1] \in {"str", "time"}
  \/ /\ op \in Containment
     /\ \/ r[1] = "str" /\ l[1] = "str"
        \/ r[1] = "dict" /\ l[1] # "dict"

Contains(r, l) ==
  IF r[1] = "str" THEN Inside(l[2], r[2])
  ELSE l[1] = "str" /\ l[2] \in DOMAIN r[2]

Relation(l, op, r) ==
  CASE op = "==" -> Same(l, r)
    [] op = "!=" -> ~Same(l, r)
    [] op = "<"  -> Magnitude(l) < Magnitude(r)
    [] op = "<=" -> Magnitude(l) <= Magnitude(r)
    [] op = ">"  -> Magnitude(l) > Magnitude(r)
    [] op = ">=" -> Magnitude(l) >= Magnitude(r)
    [] op = "in" -> Contains(r, l)
    [] op = "not in" -> ~Contains(r, l)

\* Mutant: the TypeError is not caught.
ApplyCmpUncaught(l, op, r) ==
  IF Missing \in {l, r} THEN Bool(FALSE)
  ELSE IF ~Comparable(l, op, r) THEN Raised
  ELSE Bool(Relation(l, op, r))

\* Mutant: a missing value is compared like None.
ApplyCmpMissingAsNone(l, op, r) ==
  LET value(v) == IF v = Missing THEN PyNone ELSE v IN
  Bool(Comparable(value(l), op, value(r)) /\ Relation(value(l), op, value(r)))

\* Mutant: a missing value differs from everything.
ApplyCmpMissingDiffers(l, op, r) ==
  IF Missing \in {l, r} THEN Bool(op = "!=")
  ELSE Bool(Comparable(l, op, r) /\ Relation(l, op, r))

\* False for a missing operand and for operands that cannot be compared.
ApplyCmp(l, op, r) ==
  IF Missing \in {l, r} THEN Bool(FALSE)
  ELSE Bool(Comparable(l, op, r) /\ Relation(l, op, r))

-----------------------------------------------------------------------------
(* _SafeEvaluator.                                                         *)

\* Python's bool(), with the sentinel taken for false.
Truth(v) ==
  CASE v[1] \in {"missing", "none"} -> FALSE
    [] v[1] \in {"bool", "num"}     -> v[2] # 0
    [] v[1] = "str"                 -> v[2] # ""
    [] v[1] = "dict"                -> DOMAIN v[2] # {}
    [] OTHER                        -> TRUE

\* _eval_Attribute and _eval_Name: a key of a dictionary.
Lookup(obj, key) ==
  IF obj[1] = "dict" /\ key \in DOMAIN obj[2] THEN obj[2][key] ELSE Missing

\* The loops of BoolOp and Compare: the first of the outcomes that differs
\* from the one to go on with (an exception always does) ends the loop.
FirstOther(outcomes, goOn) ==
  LET others == {i \in DOMAIN outcomes : outcomes[i] # goOn} IN
  IF others = {} THEN goOn
  ELSE outcomes[CHOOSE i \in others : \A j \in others : i <= j]

AsBool(v) == IF v = Raised THEN Raised ELSE Bool(Truth(v))

\* Mutant: every comparison of a chain is made with the first operand.
LeftOfFirst(values, i) == values[1]

\* left = right at the end of the loop body.
LeftOf(values, i) == values[i]

Chain(ops, values) ==
  FirstOther([i \in DOMAIN ops |->
                IF Raised \in {LeftOf(values, i), values[i + 1]} THEN Raised
                ELSE ApplyCmp(LeftOf(values, i), ops[i], values[i + 1])],
             Bool(TRUE))

\* The handler of a node's kind, over the values of its subtrees.
Handle(context, e, values) ==
  LET truths == [i \in DOMAIN values |-> AsBool(values[i])] IN
  CASE e.op = "const" -> e.val
    [] e.op = "name"  -> Lookup(context, e.val[2])
    [] e.op = "attr"  -> IF values[1] = Raised THEN Raised
                         ELSE Lookup(values[1], e.val[2])
    [] e.op = "not"   -> IF values[1] = Raised THEN Raised
                         ELSE Bool(~Truth(values[1]))
    [] e.op = "and"   -> FirstOther(truths, Bool(TRUE))
    [] e.op = "or"    -> FirstOther(truths, Bool(FALSE))
    [] e.op = "cmp"   -> Chain(e.val[2], values)
    [] OTHER          -> Raised

\* evaluate(node), in a context.
Eval(context, t) ==
  LET eval[e \in Trees] ==
        Handle(context, e, [i \in DOMAIN e.args |-> eval[e.args[i]]])
  IN  eval[t]

-----------------------------------------------------------------------------
(* ConditionEvaluator.evaluate.                                            *)

\* A null or blank condition holds.
Unconditional ==
  /\ pc = "read" /\ source = Blank
  /\ pc' = "done" /\ verdict' = "true"
  /\ UNCHANGED <<source, signal, tree>>

\* ConditionEvaluationError before anything is evaluated: 400.
Reject ==
  /\ pc = "read" /\ source # Blank
  /\ ~Safe(Normalize(source))
  /\ pc' = "rejected"
  /\ UNCHANGED <<source, signal, tree, verdict>>

Accept ==
  /\ pc = "read" /\ source # Blank
  /\ Safe(Normalize(source))
  /\ tree' = Normalize(source)
  /\ pc' = "evaluate"
  /\ UNCHANGED <<source, signal, verdict>>

\* bool(result), the sentinel being false.
Result(v) == IF v = Raised THEN "raised" ELSE IF Truth(v) THEN "true" ELSE "false"

Evaluate ==
  /\ pc = "evaluate"
  /\ verdict' = Result(Eval(Context(signal), tree))
  /\ pc' = "done"
  /\ UNCHANGED <<source, signal, tree>>

Next == Unconditional \/ Reject \/ Accept \/ Evaluate

Spec == Init /\ [][Next]_vars

-----------------------------------------------------------------------------
(* Properties.                                                             *)

\* What the checker accepts can be evaluated for every signal: no mix of types
\* and no absent field makes an accepted condition raise, so a flow whose
\* conditions passed validate_syntax once is never the cause of a 400.
AcceptedNeverRaises == pc = "done" => verdict # "raised"

\* The relation of two operands that are there and can be compared.
Related(l, op, r) ==
  Missing \notin {l, r} /\ Comparable(l, op, r) /\ Relation(l, op, r)

\* The documented meaning, without an order of evaluation: connectives are
\* quantifiers, and a chain is the conjunction of its neighbouring pairs.
Means(context, e, values) ==
  CASE e.op = "const" -> e.val
    [] e.op = "name"  -> Lookup(context, e.val[2])
    [] e.op = "attr"  -> Lookup(values[1], e.val[2])
    [] e.op = "not"   -> Bool(~Truth(values[1]))
    [] e.op = "and"   -> Bool(\A i \in DOMAIN values : Truth(values[i]))
    [] e.op = "or"    -> Bool(\E i \in DOMAIN values : Truth(values[i]))
    [] e.op = "cmp"   -> Bool(\A i \in DOMAIN e.val[2] :
                                Related(values[i], e.val[2][i], values[i + 1]))
    [] OTHER          -> Missing

Meaning(context, t) ==
  LET meaning[e \in Trees] ==
        Means(context, e, [i \in DOMAIN e.args |-> meaning[e.args[i]]])
  IN  meaning[t]

\* Short-circuiting and the running left operand of a chain are invisible: the
\* verdict is the documented meaning.
VerdictIsMeaning ==
  pc = "done" /\ tree # Blank => 
    (verdict = "true" <=> Truth(Meaning(Context(signal), tree)))

\* A condition that cannot hold without a field the signal lacks.
LacksField(context, t) ==
  LET absent(e) == Eval(context, e) = Missing
      lacks[e \in Trees] ==
        \/ e.op = "and" /\ \E i \in DOMAIN e.args : lacks[e.args[i]]
        \/ e.op = "or" /\ \A i \in DOMAIN e.args : lacks[e.args[i]]
        \/ e.op = "cmp" /\ \E i \in DOMAIN e.args : absent(e.args[i])
        \/ e.op = "attr" /\ absent(e)
  IN  lacks[t]

\* Fail closed: whatever operator a missing field stands at ("!=" and "not in"
\* too, and anywhere in a chain), a condition that needs it does not hold.
MissingFieldNeverMatches ==
  pc = "done" /\ tree # Blank /\ LacksField(Context(signal), tree) =>
    verdict = "false"

Opposite ==
  [op \in Equalities \cup Orders \cup Containment |->
     CASE op = "==" -> "!=" [] op = "!=" -> "==" [] op = "<" -> ">="
       [] op = "<=" -> ">"  [] op = ">" -> "<="  [] op = ">=" -> "<"
       [] op = "in" -> "not in" [] op = "not in" -> "in"]

\* "not (a < b)" and "a >= b" part exactly where an operand is missing or the
\* two cannot be compared, where the first holds and the second does not; for
\* all signals that carry comparable fields a flow may use either.
NegationPartsOnlyWithoutValues ==
  pc = "done" /\ tree # Blank /\ tree.op = "cmp" /\ Len(tree.val[2]) = 1 =>
    LET context == Context(signal)
        op == tree.val[2][1]
        l  == Eval(context, tree.args[1])
        r  == Eval(context, tree.args[2])
    IN  Handle(context, Not(tree), <<Eval(context, tree)>>)
          # Handle(context, Cmp(<<Opposite[op]>>, tree.args), <<l, r>>)
        <=> Missing \in {l, r} \/ ~Comparable(l, op, r)

=============================================================================
