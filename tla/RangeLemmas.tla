----------------------------- MODULE RangeLemmas ----------------------------
(***************************************************************************)
(* What Append, Head, Tail and \o do to the range of a sequence, and that  *)
(* the choices made among its positions are possible: the least one, and   *)
(* the best one by a total order.                                          *)
(***************************************************************************)
EXTENDS Integers, Sequences, Functions, WellFoundedInduction, TLAPS

\* Appending an element adds it to the range of a sequence.
LEMMA RangeAppend ==
  ASSUME NEW S, NEW s \in Seq(S), NEW e \in S
  PROVE  /\ Append(s, e) \in Seq(S)
         /\ Range(Append(s, e)) = Range(s) \cup {e}
<1>1. /\ Append(s, e) \in Seq(S)
      /\ Len(Append(s, e)) = Len(s) + 1
      /\ \A i \in 1..Len(s) : Append(s, e)[i] = s[i]
      /\ Append(s, e)[Len(s) + 1] = e
      /\ Len(s) \in Nat
  OBVIOUS
<1>2. DOMAIN s = 1..Len(s) /\ DOMAIN Append(s, e) = 1..Len(s) + 1
  BY <1>1
<1>3. 1..Len(s) + 1 = (1..Len(s)) \cup {Len(s) + 1}
  BY <1>1
<1>4. Range(s) \cup {e} \subseteq Range(Append(s, e))
  BY <1>1, <1>2 DEF Range
<1>5. ASSUME NEW i \in DOMAIN Append(s, e)
      PROVE  Append(s, e)[i] \in Range(s) \cup {e}
  BY <1>1, <1>2, <1>3 DEF Range
<1>6. Range(Append(s, e)) \subseteq Range(s) \cup {e}
  BY <1>5 DEF Range
<1>. QED BY <1>1, <1>4, <1>6

\* The entries of a concatenation.
LEMMA Concat ==
  ASSUME NEW T, NEW s \in Seq(T), NEW t \in Seq(T)
  PROVE  /\ s \o t \in Seq(T) /\ Len(s) \in Nat /\ Len(t) \in Nat
         /\ Len(s \o t) = Len(s) + Len(t)
         /\ \A i \in 1..Len(s) : (s \o t)[i] = s[i]
         /\ \A i \in 1..Len(t) : (s \o t)[Len(s) + i] = t[i]
  OBVIOUS

\* A sequence of one entry.
LEMMA OneEntry ==
  ASSUME NEW T, NEW x \in T
  PROVE  <<x>> \in Seq(T) /\ Len(<<x>>) = 1 /\ <<x>>[1] = x
  OBVIOUS

\* Concatenating two sequences unites their ranges.
LEMMA RangeConcat ==
  ASSUME NEW S, NEW s \in Seq(S), NEW t \in Seq(S)
  PROVE  /\ s \o t \in Seq(S) /\ Len(s \o t) = Len(s) + Len(t)
         /\ Range(s \o t) = Range(s) \cup Range(t)
<1>1. /\ Len(s) \in Nat /\ Len(t) \in Nat /\ s \o t \in Seq(S)
      /\ Len(s \o t) = Len(s) + Len(t)
      /\ DOMAIN s = 1..Len(s) /\ DOMAIN t = 1..Len(t)
      /\ DOMAIN (s \o t) = 1..(Len(s) + Len(t))
      /\ \A i \in 1..Len(s) : (s \o t)[i] = s[i]
      /\ \A i \in 1..Len(t) : (s \o t)[Len(s) + i] = t[i]
  OBVIOUS
<1>2. \A i \in 1..(Len(s) + Len(t)) :
        i \in 1..Len(s) \/ (i - Len(s) \in 1..Len(t) /\ i = Len(s) + (i - Len(s)))
  BY <1>1
<1>3. /\ \A i \in 1..Len(s) : i \in 1..(Len(s) + Len(t))
      /\ \A i \in 1..Len(t) : Len(s) + i \in 1..(Len(s) + Len(t))
  BY <1>1
<1>4. Range(s \o t) \subseteq Range(s) \cup Range(t)
  <2>. SUFFICES ASSUME NEW i \in 1..(Len(s) + Len(t))
                PROVE  (s \o t)[i] \in Range(s) \cup Range(t)
    BY <1>1 DEF Range
  <2>. QED BY <1>1, <1>2 DEF Range
<1>5. Range(s) \subseteq Range(s \o t)
  BY <1>1, <1>3 DEF Range
<1>6. Range(t) \subseteq Range(s \o t)
  BY <1>1, <1>3 DEF Range
<1>. QED BY <1>1, <1>4, <1>5, <1>6

\* The range of a non-empty sequence is its head and the range of its tail.
LEMMA RangeTail ==
  ASSUME NEW S, NEW s \in Seq(S), s # <<>>
  PROVE  /\ Head(s) \in S
         /\ Tail(s) \in Seq(S)
         /\ Range(s) = {Head(s)} \cup Range(Tail(s))
<1>1. /\ Head(s) \in S /\ Tail(s) \in Seq(S)
      /\ Len(s) \in Nat /\ Len(s) > 0 /\ Len(Tail(s)) = Len(s) - 1
      /\ s[1] = Head(s)
      /\ \A i \in 1..Len(s) - 1 : Tail(s)[i] = s[i + 1]
  OBVIOUS
<1>2. DOMAIN s = 1..Len(s) /\ DOMAIN Tail(s) = 1..Len(s) - 1
  BY <1>1
<1>3. Range(Tail(s)) \subseteq Range(s)
  <2>. SUFFICES ASSUME NEW i \in DOMAIN Tail(s)
                PROVE  Tail(s)[i] \in Range(s)
    BY DEF Range
  <2>1. i + 1 \in DOMAIN s /\ Tail(s)[i] = s[i + 1]
    BY <1>1, <1>2
  <2>. QED BY <2>1 DEF Range
<1>4. Head(s) \in Range(s)
  BY <1>1, <1>2, 1 \in DOMAIN s DEF Range
<1>5. ASSUME NEW i \in DOMAIN s, i # 1
      PROVE  s[i] \in Range(Tail(s))
  <2>1. i - 1 \in DOMAIN Tail(s) /\ Tail(s)[i - 1] = s[i]
    BY <1>1, <1>2, <1>5
  <2>. QED BY <2>1 DEF Range
<1>6. Range(s) \subseteq {Head(s)} \cup Range(Tail(s))
  BY <1>1, <1>5 DEF Range
<1>. QED BY <1>1, <1>3, <1>4, <1>6

\* The empty sequence, and only it, has an empty range.
LEMMA RangeEmpty ==
  /\ Range(<<>>) = {}
  /\ \A S : \A s \in Seq(S) : s # <<>> => Range(s) # {}
<1>1. Range(<<>>) = {}
  BY DEF Range
<1>2. ASSUME NEW S, NEW s \in Seq(S), s # <<>>
      PROVE  Range(s) # {}
  BY <1>2, RangeTail
<1>. QED BY <1>1, <1>2

\* The elements of a sequence are in its range, and in the set it is over.
LEMMA RangeType ==
  ASSUME NEW S, NEW s \in Seq(S)
  PROVE  /\ Range(s) \subseteq S
         /\ \A i \in 1..Len(s) : s[i] \in Range(s)
BY DEF Range

\* A set of natural numbers that is not empty has a least element.
LEMMA LeastNat ==
  ASSUME NEW T \in SUBSET Nat, T # {}
  PROVE  \E x \in T : \A y \in T : x <= y
<1>. DEFINE Less == {p \in Nat \X Nat : p[1] < p[2]}
<1>1. IsWellFoundedOn(Less, Nat)
  BY NatLessThanWellFounded, Zenon DEF OpToRel
<1>. HIDE DEF Less
<1>2. PICK x \in T : \A y \in T : <<y, x>> \notin Less
  BY <1>1, WFMin, Zenon
<1>3. \A y \in T : ~(y < x)
  BY <1>2 DEF Less
<1>. QED BY <1>3

\* Among finitely many positions there is one that is at least as good as each,
\* when any two can be compared: R holds the pairs of a position and one that
\* is no better.
LEMMA BestExists ==
  ASSUME NEW N \in Nat, NEW T \in SUBSET (1..N), T # {}, NEW R,
         \A i, j \in T : <<i, j>> \in R \/ <<j, i>> \in R,
         \A i, j, k \in T : <<i, j>> \in R /\ <<j, k>> \in R => <<i, k>> \in R
  PROVE  \E n \in T : \A m \in T : <<n, m>> \in R
<1>. DEFINE Best(S, n) == n \in S /\ \A m \in S : <<n, m>> \in R
            Without == {k \in Nat : \E S \in SUBSET T :
                          S \subseteq 1..k /\ S # {} /\ \A n \in S : ~Best(S, n)}
<1>1. ASSUME Without # {} PROVE FALSE
  <2>1. PICK k \in Without : \A l \in Without : k <= l
    BY <1>1, LeastNat
  <2>2. PICK S \in SUBSET T :
          S \subseteq 1..k /\ S # {} /\ \A n \in S : ~Best(S, n)
    BY <2>1
  <2>3. k \in Nat /\ k # 0 /\ k - 1 \in Nat /\ k - 1 \notin Without
    <3>1. k \in Nat
      BY <2>1
    <3>2. k # 0
      <4>1. 1..0 = {}
        OBVIOUS
      <4>. QED BY <2>2, <4>1
    <3>3. k - 1 \in Nat /\ ~(k <= k - 1)
      BY <3>1, <3>2
    <3>. QED BY <2>1, <3>1, <3>2, <3>3
  <2>4. S \ {k} \subseteq 1..(k - 1)
    BY <2>2, <2>3
  <2>5. CASE S \ {k} = {}
    <3>1. S = {k} /\ k \in T
      BY <2>2, <2>5
    <3>2. <<k, k>> \in R
      BY <3>1
    <3>. QED BY <2>2, <3>1, <3>2
  <2>6. CASE S \ {k} # {}
    <3>1. PICK b \in S \ {k} : Best(S \ {k}, b)
      BY <2>2, <2>3, <2>4, <2>6
    <3>2. k \in S /\ <<b, k>> \notin R
      BY <2>2, <3>1
    <3>3. <<k, b>> \in R /\ <<k, k>> \in R
      BY <2>2, <3>1, <3>2
    <3>4. Best(S, k)
      BY <2>2, <3>1, <3>2, <3>3
    <3>. QED BY <2>2, <3>2, <3>4
  <2>. QED BY <2>5, <2>6
<1>2. N \notin Without
  BY <1>1
<1>. QED BY <1>2
=============================================================================
