------------------------- MODULE MCConditionLanguage ------------------------
(***************************************************************************)
(* Instantiates ConditionLanguage for TLC: conditions up to three levels   *)
(* deep over two payload fields, one of them possibly a dictionary.        *)
(***************************************************************************)
EXTENDS ConditionLanguage, FiniteSetsExt

Payload == Name("payload")
FieldA  == Attr(Payload, "a")
FieldAB == Attr(Payload, "ab")

\* Texts in their lexicographic order, and which is a substring of which.
TextRank ==
  [t \in {"", "True", "a", "ab", "true"} |->
     CASE t = "" -> 0 [] t = "True" -> 1 [] t = "a" -> 2
       [] t = "ab" -> 3 [] t = "true" -> 4]
TextInside(s, t) == s = t \/ s = "" \/ <<s, t>> = <<"a", "ab">>

\* Values of field "a" (absent, of every type) and of field "ab".
FieldValues ==
  {Num(0), Num(2), Str("a"), Str("True"), Str("true"), Bool(TRUE),
   PyNone, Dict([a |-> Num(1)])}

Payloads ==
  {Dict([k \in {} |-> 0])}
  \cup {Dict([a |-> v]) : v \in FieldValues}
  \cup {Dict([a |-> v, ab |-> w]) :
           v \in {Num(2), Str("ab"), Dict([a |-> Num(1)])},
           w \in {Num(0), Str("a")}}

\* Signals that differ in their payloads.
AllSignals ==
  {[type |-> Str("a"), confidence |-> Num(1), payload |-> p,
    source |-> Str("ab"), timestamp |-> <<"time", 0>>] : p \in Payloads}

\* Literals and the key after a dot, as they are written and as they are read.
AsWritten ==
  [true |-> Name("true"), false |-> Name("false"), null |-> Name("null"),
   text |-> Const(Str("true")), key |-> Attr(Payload, "true")]
AsRead ==
  [true |-> Const(Bool(TRUE)), false |-> Const(Bool(FALSE)),
   null |-> Const(PyNone), text |-> Const(Str("True")),
   key |-> Node("syntax_error", <<"text", "true">>, <<Payload>>)]

Operands(lit) ==
  {Const(Num(1)), Const(Str("a")), lit.text, lit.true, lit.null,
   Name("confidence"), Name("created_at"), Payload,
   FieldA, FieldAB, Attr(FieldA, "a")}

AllOps == Equalities \cup Orders \cup Containment

Pairs(lit) ==
  {Cmp(<<op>>, <<l, r>>) :
     op \in AllOps, l \in Operands(lit), r \in Operands(lit)}

Chains ==
  {Cmp(<<o, p>>, <<x, y, z>>) :
     o \in {"<", "==", "in"}, p \in {"<=", "!=", "not in"},
     x \in {Const(Num(1)), FieldA}, y \in {FieldA, FieldAB, Payload},
     z \in {Name("confidence"), Const(Str("ab")), FieldAB, FieldA}}

\* What the checker has to find: unknown names, dunder attributes, calls,
\* operators that are not listed, literals in the place of a key.
Forbidden(lit) ==
  {Name("outcome"), Attr(Name("outcome"), "a"), Attr(FieldA, "__class__"),
   Attr(Attr(Name("outcome"), "a"), "ab"), Call(FieldA),
   Cmp(<<"is">>, <<FieldA, lit.null>>), lit.key}

Within == Cmp(<<"<">>, <<FieldA, FieldAB>>)

Terms(lit) ==
  {FieldA, FieldAB, lit.false, Name("type"), Not(FieldA),
   Cmp(<<">">>, <<FieldA, Const(Num(1))>>),
   Cmp(<<"!=">>, <<FieldAB, Const(Str("a"))>>),
   Cmp(<<"==">>, <<lit.false, Within>>)}
  \cup Forbidden(lit)

Joined(lit) ==
  {And(<<x, y>>) : x \in Terms(lit), y \in Terms(lit)}
  \cup {Or(<<x, y>>) : x \in Terms(lit), y \in Terms(lit)}

Whole(lit) ==
  Operands(lit) \cup Pairs(lit) \cup Chains \cup Joined(lit)
  \cup {Not(e) : e \in Operands(lit) \cup Joined(lit)}
  \cup {Or(<<e, FieldAB, And(<<FieldA, e>>)>>) : e \in Terms(lit)}

\* The parts of these that are not among them.
Partial(lit) ==
  Terms(lit) \cup {And(<<FieldA, e>>) : e \in Terms(lit)}
  \cup {Name("outcome"), Const(Str("ab")), Within}

AllConditions == Whole(AsWritten)

Forest ==
  AllConditions \cup Partial(AsWritten) \cup Whole(AsRead) \cup Partial(AsRead)

\* Levels of a tree, of which there are at most six.
Levels ==
  LET higher(k, h) ==
        [e \in Forest |->
           1 + Max({0} \cup {h[e.args[i]] : i \in DOMAIN e.args})]
  IN  FoldSet(higher, [e \in Forest |-> 0], 1..6)

\* TLC computes a definition once, but a constant's definition at every use.
AllTrees  == Forest
AllHeight == Levels

\* Values of signals and of literals, and what comparisons give.
AllValues ==
  FieldValues \cup Payloads
  \cup {PyNone, Bool(FALSE), Num(1), Str("ab"), <<"time", 0>>}

\* Stands for None and for a condition of spaces.
BlankCondition == Node("blank", <<"text", "">>, <<>>)

=============================================================================
