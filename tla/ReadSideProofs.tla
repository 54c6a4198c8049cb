--------------------------- MODULE ReadSideProofs ---------------------------
(***************************************************************************)
(* Proofs about ReadSide: what the flow catalogue serves, what the reader  *)
(* of the event feed is given, and what a stored trace can be replayed     *)
(* against, for every directory, every edit and any number of restarts.    *)
(***************************************************************************)
EXTENDS ReadSide, RangeLemmas, FiniteSetTheorems, FunctionTheorems,
        SequenceTheorems, TLAPS

-----------------------------------------------------------------------------
(* The flow catalogue.                                                     *)

CatalogType ==
  /\ files \in [Range(Paths) -> Contents \cup {Absent}]
  /\ pc \in {"down", "loading", "serving"}
  /\ todo \subseteq DOMAIN Paths
  /\ flows \in Seq(Contents) /\ read \in Seq(Contents)

SameKey(c, d) == Catalog!KeyOf(c) = Catalog!KeyOf(d)

\* No later file of this start has the key of the i-th.
LastOfKey(i) == \A j \in 1..Len(read) : SameKey(read[j], read[i]) => j <= i

\* The dictionary holds, once per key, the flow read last under the key.
CatalogExact ==
  /\ \A i \in 1..Len(read) : Catalog!Loads(read[i])
  /\ \A i \in 1..Len(read) : LastOfKey(i) => read[i] \in Range(flows)
  /\ \A c \in Range(flows) : \E i \in 1..Len(read) : read[i] = c /\ LastOfKey(i)
  /\ \A m, n \in 1..Len(flows) : SameKey(flows[m], flows[n]) => m = n

CatalogInv == CatalogType /\ CatalogExact

\* What the assumption says of the constants, in the form it is used.
LEMMA ConstantsType ==
  /\ Paths \in Seq(Range(Paths)) /\ DOMAIN Paths \subseteq Nat
  /\ \A i \in DOMAIN Paths : Paths[i] \in Range(Paths)
  /\ MaxLimit \in Nat /\ MaxLimit > 0 /\ MaxRecent \in Nat /\ MaxRecent > 0
  /\ Limits \subseteq Nat /\ \A n \in Limits : n > 0
<1>1. Paths \in Seq(Range(Paths))
  BY ReadSideAssumption
<1>2. DOMAIN Paths = 1..Len(Paths) /\ Len(Paths) \in Nat
  BY <1>1
<1>3. \A i \in DOMAIN Paths : Paths[i] \in Range(Paths)
  BY DEF Range
<1>. QED BY <1>1, <1>2, <1>3, ReadSideAssumption

\* The next file of a start is one of those globbed.
LEMMA FirstTodoType ==
  ASSUME CatalogType, todo # {}
  PROVE  Catalog!FirstTodo \in todo /\ Paths[Catalog!FirstTodo] \in Range(Paths)
         /\ files[Paths[Catalog!FirstTodo]] \in Contents \cup {Absent}
<1>1. todo \in SUBSET Nat
  BY ConstantsType DEF CatalogType
<1>2. \E i \in todo : \A j \in todo : i <= j
  BY <1>1, LeastNat
<1>3. Catalog!FirstTodo \in todo
  BY <1>2 DEF Catalog!FirstTodo
<1>. QED BY <1>3, ConstantsType DEF CatalogType

\* Storing a flow replaces the one under its key, or adds it.
LEMMA StoreKeeps ==
  ASSUME NEW c \in Contents, flows \in Seq(Contents),
         \A m, n \in 1..Len(flows) : SameKey(flows[m], flows[n]) => m = n,
         NEW new, new = Catalog!Store(c)
  PROVE  /\ new \in Seq(Contents)
         /\ Range(new) = {d \in Range(flows) : ~SameKey(d, c)} \cup {c}
         /\ \A m, n \in 1..Len(new) : SameKey(new[m], new[n]) => m = n
<1>. DEFINE at == {i \in DOMAIN flows : SameKey(flows[i], c)}
<1>1. new = IF at = {} THEN Append(flows, c)
            ELSE [i \in DOMAIN flows |-> IF i \in at THEN c ELSE flows[i]]
  BY DEF Catalog!Store, SameKey
<1>2. DOMAIN flows = 1..Len(flows) /\ Len(flows) \in Nat
      /\ \A i \in 1..Len(flows) : flows[i] \in Range(flows)
  BY DEF Range
<1>3. CASE at = {}
  <2>1. new = Append(flows, c)
    BY <1>1, <1>3
  <2>2. /\ Len(new) = Len(flows) + 1 /\ new[Len(flows) + 1] = c
        /\ \A i \in 1..Len(flows) : new[i] = flows[i]
    BY <2>1
  <2>3. 1..Len(new) = (1..Len(flows)) \cup {Len(flows) + 1}
    BY <1>2, <2>2
  <2>4. \A i \in 1..Len(flows) : ~SameKey(flows[i], c) /\ ~SameKey(c, flows[i])
    BY <1>2, <1>3 DEF SameKey
  <2>5. \A m, n \in 1..Len(new) : SameKey(new[m], new[n]) => m = n
    BY <2>2, <2>3, <2>4
  <2>6. Range(new) = Range(flows) \cup {c} /\ new \in Seq(Contents)
    BY <2>1, RangeAppend
  <2>7. \A d \in Range(flows) : ~SameKey(d, c)
    BY <1>2, <2>4 DEF Range
  <2>. QED BY <2>5, <2>6, <2>7
<1>4. CASE at # {}
  <2>1. new = [i \in DOMAIN flows |-> IF i \in at THEN c ELSE flows[i]]
    BY <1>1, <1>4
  <2>2. /\ DOMAIN new = 1..Len(flows) /\ new \in Seq(Contents) /\ Len(new) = Len(flows)
        /\ \A i \in 1..Len(flows) : new[i] = IF i \in at THEN c ELSE flows[i]
    <3>1. \A i \in 1..Len(flows) : (IF i \in at THEN c ELSE flows[i]) \in Contents
      BY <1>2
    <3>2. new \in [1..Len(flows) -> Contents]
      BY <1>2, <2>1, <3>1
    <3>. HIDE DEF at
    <3>. QED BY <1>2, <2>1, <3>2
  <2>3. \A i \in 1..Len(flows) : i \in at <=> SameKey(flows[i], c)
    BY <1>2
  <2>. HIDE DEF at
  <2>4. \A i \in 1..Len(flows) : Catalog!KeyOf(new[i]) = Catalog!KeyOf(flows[i])
    BY <2>2, <2>3 DEF SameKey
  <2>5. \A m, n \in 1..Len(new) : SameKey(new[m], new[n]) => m = n
    BY <2>2, <2>4 DEF SameKey
  <2>6. PICK p \in 1..Len(flows) : p \in at
    BY <1>2, <1>4, <2>3 DEF at
  <2>7. Range(new) = {new[i] : i \in 1..Len(flows)}
    BY <2>2 DEF Range
  <2>8. Range(flows) = {flows[i] : i \in 1..Len(flows)}
    BY <1>2 DEF Range
  <2>9. c \in Range(new)
    BY <2>2, <2>6, <2>7
  <2>10. \A i \in 1..Len(flows) : i \notin at => new[i] = flows[i] /\ flows[i] \in Range(new)
    BY <2>2, <2>7
  <2>. QED BY <2>2, <2>3, <2>5, <2>7, <2>8, <2>9, <2>10
<1>. QED BY <1>3, <1>4


\* What a step may do to the catalogue.
LEMMA CatalogStep ==
  ASSUME [Next]_vars
  PROVE  \/ \E p \in Range(Paths), c \in Contents \cup {Absent} : Catalog!Edit(p, c)
         \/ Catalog!Start \/ Catalog!LoadFile \/ Catalog!LoadFails
         \/ Catalog!Ready \/ Catalog!Stop
         \/ UNCHANGED catalogue
<1>1. CASE UNCHANGED vars
  BY <1>1 DEF vars
<1>2. ASSUME NEW p \in Range(Paths), NEW c \in Contents \cup {Absent}, Edit(p, c)
      PROVE  Catalog!Edit(p, c)
  BY <1>2 DEF Edit
<1>3. CASE StartUp
  BY <1>3 DEF StartUp
<1>4. CASE Restart
  BY <1>4 DEF Restart
<1>5. ASSUME NEW q \in Asked, NEW at \in scene.times,
             NEW outcome \in {"confirmed", "raised", "other"},
             Evaluate(q[1], q[2], at, outcome)
      PROVE  UNCHANGED catalogue
  BY <1>5 DEF Evaluate
<1>6. CASE Poll \/ Browse
  BY <1>6 DEF Poll, Browse
<1>. QED BY <1>1, <1>2, <1>3, <1>4, <1>5, <1>6 DEF Next

\* Loading a file keeps the dictionary exact.
LEMMA LoadFileKeeps ==
  ASSUME CatalogInv, Catalog!LoadFile
  PROVE  CatalogInv'
<1>. DEFINE c == files[Paths[Catalog!FirstTodo]]
<1>1. /\ c \in Contents /\ Catalog!Loads(c)
      /\ flows' = Catalog!Store(c) /\ read' = Append(read, c)
      /\ todo' \subseteq todo /\ UNCHANGED <<files, pc>>
  BY FirstTodoType DEF CatalogInv, Catalog!LoadFile, Catalog!Loads
<1>. HIDE DEF c
<1>2. /\ flows' \in Seq(Contents)
      /\ Range(flows') = {d \in Range(flows) : ~SameKey(d, c)} \cup {c}
      /\ \A m, n \in 1..Len(flows') : SameKey(flows'[m], flows'[n]) => m = n
  <2>1. flows \in Seq(Contents)
        /\ \A m, n \in 1..Len(flows) : SameKey(flows[m], flows[n]) => m = n
    BY DEF CatalogInv, CatalogType, CatalogExact
  <2>. QED BY <1>1, <2>1, StoreKeeps
<1>3. /\ read \in Seq(Contents) /\ read' \in Seq(Contents) /\ Len(read) \in Nat
      /\ Len(read') = Len(read) + 1 /\ read'[Len(read) + 1] = c
      /\ \A i \in 1..Len(read) : read'[i] = read[i]
      /\ 1..Len(read') = (1..Len(read)) \cup {Len(read) + 1}
      /\ \A i \in 1..Len(read) : i # Len(read) + 1 /\ ~(Len(read) + 1 <= i)
      /\ \A i \in 1..Len(read') : i <= Len(read) + 1
  BY <1>1 DEF CatalogInv, CatalogType
<1>4. CatalogType'
  BY <1>1, <1>2, <1>3 DEF CatalogInv, CatalogType
<1>. DEFINE Last(i) == \A j \in 1..Len(read') : SameKey(read'[j], read'[i]) => j <= i
<1>5. Last(Len(read) + 1)
  BY <1>3
<1>6. \A i \in 1..Len(read) : Last(i) <=> LastOfKey(i) /\ ~SameKey(c, read[i])
  BY <1>3 DEF LastOfKey
<1>7. \A d, e : SameKey(d, e) <=> SameKey(e, d)
  BY DEF SameKey
<1>8. \A i \in 1..Len(read') : Catalog!Loads(read'[i])
  BY <1>1, <1>3 DEF CatalogInv, CatalogExact
<1>. HIDE DEF Last
<1>9. \A i \in 1..Len(read') : Last(i) => read'[i] \in Range(flows')
  BY <1>2, <1>3, <1>6, <1>7 DEF CatalogInv, CatalogExact
<1>10. \A d \in Range(flows') : \E i \in 1..Len(read') : read'[i] = d /\ Last(i)
  <2>. SUFFICES ASSUME NEW d \in Range(flows')
                PROVE  \E i \in 1..Len(read') : read'[i] = d /\ Last(i)
    OBVIOUS
  <2>1. CASE d = c
    BY <1>3, <1>5, <2>1
  <2>2. CASE d # c
    <3>1. d \in Range(flows) /\ ~SameKey(d, c)
      BY <1>2, <2>2
    <3>2. PICK i \in 1..Len(read) : read[i] = d /\ LastOfKey(i)
      BY <3>1 DEF CatalogInv, CatalogExact
    <3>. QED BY <1>3, <1>6, <1>7, <3>1, <3>2
  <2>. QED BY <2>1, <2>2
<1>11. CatalogExact'
  BY <1>2, <1>8, <1>9, <1>10 DEF CatalogExact, LastOfKey, Last, SameKey,
     Catalog!Loads, Catalog!KeyOf
<1>. QED BY <1>4, <1>11 DEF CatalogInv

\* CatalogInv is inductive.
LEMMA CatalogInvStep ==
  ASSUME CatalogInv, [Next]_vars
  PROVE  CatalogInv'
<1>1. ASSUME pc' \in {"down", "loading"}, todo' \subseteq DOMAIN Paths,
             files' = files, flows' = <<>>, read' = <<>>
      PROVE  CatalogInv'
  <2>1. CatalogType'
    BY <1>1 DEF CatalogInv, CatalogType
  <2>2. 1..Len(read') = {} /\ 1..Len(flows') = {} /\ Range(flows') = {}
    BY <1>1, RangeEmpty, 1..0 = {}
  <2>. QED BY <2>1, <2>2 DEF CatalogInv, CatalogExact
<1>2. ASSUME files' \in [Range(Paths) -> Contents \cup {Absent}],
             pc' \in {"down", "loading", "serving"}, UNCHANGED <<todo, flows, read>>
      PROVE  CatalogInv'
  BY <1>2 DEF CatalogInv, CatalogType, CatalogExact, LastOfKey, SameKey,
     Catalog!Loads, Catalog!KeyOf
<1>3. ASSUME NEW p \in Range(Paths), NEW c \in Contents \cup {Absent},
             Catalog!Edit(p, c)
      PROVE  CatalogInv'
  BY <1>2, <1>3 DEF Catalog!Edit, Catalog!registryVars, CatalogInv, CatalogType
<1>4. CASE Catalog!Start
  BY <1>1, <1>4 DEF Catalog!Start
<1>5. CASE Catalog!LoadFails \/ Catalog!Stop
  BY <1>1, <1>5 DEF Catalog!LoadFails, Catalog!Stop
<1>6. CASE Catalog!LoadFile
  BY <1>6, LoadFileKeeps
<1>7. CASE Catalog!Ready
  BY <1>2, <1>7 DEF Catalog!Ready, CatalogInv, CatalogType
<1>8. CASE UNCHANGED catalogue
  BY <1>2, <1>8 DEF catalogue, CatalogInv, CatalogType
<1>. QED BY <1>3, <1>4, <1>5, <1>6, <1>7, <1>8, CatalogStep

\* The catalogue is of its type, and exactly what its start read.
THEOREM CatalogCorrect == Spec => []CatalogInv
<1>1. Init => CatalogInv
  <2>. SUFFICES ASSUME Init PROVE CatalogInv
    OBVIOUS
  <2>1. CatalogType
    BY DEF Init, Catalog!Init, CatalogType, Catalog!Range, Range
  <2>2. 1..Len(read) = {} /\ 1..Len(flows) = {} /\ Range(flows) = {}
    BY RangeEmpty, 1..0 = {} DEF Init, Catalog!Init
  <2>. QED BY <2>1, <2>2 DEF CatalogInv, CatalogExact
<1>2. CatalogInv /\ [Next]_vars => CatalogInv'
  BY CatalogInvStep
<1>. QED BY <1>1, <1>2, PTL DEF Spec


\* What is served is the directory that was read, whole, each key's last file.
THEOREM ServesWholeDirectory == Spec => []WholeDirectoryOrNothing
<1>1. CatalogInv => WholeDirectoryOrNothing
  <2>. SUFFICES ASSUME CatalogInv
                PROVE  Catalog!WholeDirectoryOrNothing
    BY DEF WholeDirectoryOrNothing
  <2>1. /\ DOMAIN read = 1..Len(read) /\ DOMAIN flows = 1..Len(flows)
        /\ Len(read) \in Nat
    BY DEF CatalogInv, CatalogType
  <2>2. \A c \in Catalog!Range(read) : Catalog!Loads(c)
    BY <2>1 DEF CatalogInv, CatalogExact, Catalog!Range
  <2>3. ASSUME NEW i \in 1..Len(read),
               \A j \in 1..Len(read) : SameKey(read[j], read[i]) => j <= i
        PROVE  \E n \in 1..Len(flows) : flows[n] = read[i]
                 /\ \A j \in (i + 1)..Len(read) : read[j] # read[i]
    <3>1. read[i] \in Range(flows)
      BY <2>3 DEF CatalogInv, CatalogExact, LastOfKey
    <3>2. PICK n \in 1..Len(flows) : flows[n] = read[i]
      BY <2>1, <3>1 DEF Range
    <3>3. ASSUME NEW j \in (i + 1)..Len(read), read[j] = read[i] PROVE FALSE
      <4>1. j \in 1..Len(read) /\ ~(j <= i)
        BY <2>1
      <4>. QED BY <2>3, <3>3, <4>1 DEF SameKey
    <3>. QED BY <3>2, <3>3
  <2>4. ASSUME NEW i \in 1..Len(read), NEW n \in 1..Len(flows), flows[n] = read[i],
               \A j \in (i + 1)..Len(read) : read[j] # read[i]
        PROVE  \A j \in 1..Len(read) : SameKey(read[j], read[i]) => j <= i
    <3>1. flows[n] \in Range(flows)
      BY <2>1 DEF Range
    <3>2. PICK l \in 1..Len(read) : read[l] = flows[n] /\ LastOfKey(l)
      BY <3>1 DEF CatalogInv, CatalogExact
    <3>3. SameKey(read[i], read[l]) /\ read[l] = read[i]
      BY <2>4, <3>2 DEF SameKey
    <3>4. i <= l
      BY <3>2, <3>3 DEF LastOfKey
    <3>5. l = i
      <4>1. l # i => l \in (i + 1)..Len(read)
        BY <2>1, <3>4
      <4>. QED BY <2>4, <3>3, <4>1
    <3>. QED BY <3>2, <3>5 DEF LastOfKey
  <2>5. \A c \in Catalog!Range(flows) : c \in Catalog!Range(read)
    BY <2>1 DEF CatalogInv, CatalogExact, Catalog!Range, Range
  <2>6. \A m, n \in 1..Len(flows) :
          Catalog!KeyOf(flows[m]) = Catalog!KeyOf(flows[n]) => m = n
    BY DEF CatalogInv, CatalogExact, SameKey
  <2>7. \A i \in 1..Len(read) :
          (\A j \in 1..Len(read) : SameKey(read[j], read[i]) => j <= i)
            <=> \E n \in 1..Len(flows) : flows[n] = read[i]
                  /\ \A j \in (i + 1)..Len(read) : read[j] # read[i]
    BY <2>3, <2>4
  <2>. QED BY <2>1, <2>2, <2>5, <2>6, <2>7
       DEF Catalog!WholeDirectoryOrNothing, SameKey
<1>. QED BY <1>1, CatalogCorrect, PTL

-----------------------------------------------------------------------------
(* The latest version.                                                     *)

\* Versions are compared number by number.
LEMMA BeforeIsLexicographic ==
  ASSUME NEW k \in Nat \X Nat \X Nat, NEW l \in Nat \X Nat \X Nat
  PROVE  Catalog!Before(k, l) <=>
           \/ k[1] < l[1]
           \/ k[1] = l[1] /\ k[2] < l[2]
           \/ k[1] = l[1] /\ k[2] = l[2] /\ k[3] < l[3]
<1>1. DOMAIN k = 1..3 /\ 1..3 = {1, 2, 3}
  OBVIOUS
<1>2. 1..(1 - 1) = {} /\ 1..(2 - 1) = {1} /\ 1..(3 - 1) = {1, 2}
  OBVIOUS
<1>. QED BY <1>1, <1>2 DEF Catalog!Before

\* The order max() goes by, position included, is transitive.
LEMMA LatestTransitive ==
  ASSUME NEW k \in Nat \X Nat \X Nat, NEW l \in Nat \X Nat \X Nat,
         NEW m \in Nat \X Nat \X Nat, NEW p \in Nat, NEW q \in Nat, NEW r \in Nat,
         ~Catalog!Before(k, l), Catalog!Before(l, k) \/ p <= q,
         ~Catalog!Before(l, m), Catalog!Before(m, l) \/ q <= r
  PROVE  ~Catalog!Before(k, m) /\ (Catalog!Before(m, k) \/ p <= r)
<1>1. /\ k[1] \in Nat /\ k[2] \in Nat /\ k[3] \in Nat
      /\ l[1] \in Nat /\ l[2] \in Nat /\ l[3] \in Nat
      /\ m[1] \in Nat /\ m[2] \in Nat /\ m[3] \in Nat
  OBVIOUS
<1>. DEFINE Lex(a, b) ==
              \/ a[1] < b[1]
              \/ a[1] = b[1] /\ a[2] < b[2]
              \/ a[1] = b[1] /\ a[2] = b[2] /\ a[3] < b[3]
<1>2. ~Lex(k, l) /\ (Lex(l, k) \/ p <= q) /\ ~Lex(l, m) /\ (Lex(m, l) \/ q <= r)
  BY BeforeIsLexicographic
<1>3. ~Lex(k, m) /\ (Lex(m, k) \/ p <= r)
  BY <1>1, <1>2
<1>. QED BY <1>3, BeforeIsLexicographic

\* Of the loaded flows of a name there is one max() returns.
LEMMA LatestType ==
  ASSUME flows \in Seq(Contents), NEW f, Catalog!Matching(f) # {}
  PROVE  \E i \in Catalog!Matching(f) :
           /\ Catalog!Latest(f) = flows[i]
           /\ \A j \in Catalog!Matching(f) :
                ~Catalog!Before(flows[i].version.parts, flows[j].version.parts)
<1>. DEFINE T == Catalog!Matching(f)
            key(i) == flows[i].version.parts
            Good(i, j) == ~Catalog!Before(key(i), key(j))
                          /\ (Catalog!Before(key(j), key(i)) \/ i <= j)
            R == {p \in T \X T : Good(p[1], p[2])}
<1>1. Len(flows) \in Nat /\ T \in SUBSET (1..Len(flows)) /\ T # {}
  BY DEF Catalog!Matching
<1>2. \A i \in T : key(i) \in Nat \X Nat \X Nat
  BY <1>1, ReadSideAssumption
<1>3. \A i \in T : key(i)[1] \in Nat /\ key(i)[2] \in Nat /\ key(i)[3] \in Nat
  BY <1>2
<1>4. \A i, j \in T : Catalog!Before(key(i), key(j)) <=>
           \/ key(i)[1] < key(j)[1]
           \/ key(i)[1] = key(j)[1] /\ key(i)[2] < key(j)[2]
           \/ key(i)[1] = key(j)[1] /\ key(i)[2] = key(j)[2] /\ key(i)[3] < key(j)[3]
  BY <1>2, BeforeIsLexicographic
<1>. HIDE DEF T, key
<1>5. \A i \in T : i \in Nat
  BY <1>1
<1>6. \A i, j \in T : Good(i, j) \/ Good(j, i)
  BY <1>3, <1>4, <1>5
<1>7. ASSUME NEW i \in T, NEW j \in T, NEW m \in T, Good(i, j), Good(j, m)
      PROVE  Good(i, m)
  BY <1>2, <1>5, <1>7, LatestTransitive
<1>. HIDE DEF Good
<1>8. \A i, j \in T : <<i, j>> \in R <=> Good(i, j)
  OBVIOUS
<1>. HIDE DEF R
<1>9. \E n \in T : \A m \in T : <<n, m>> \in R
  <2>1. \A i, j \in T : <<i, j>> \in R \/ <<j, i>> \in R
    BY <1>6, <1>8
  <2>2. \A i, j, m \in T : <<i, j>> \in R /\ <<j, m>> \in R => <<i, m>> \in R
    BY <1>7, <1>8
  <2>. QED BY <1>1, <2>1, <2>2, BestExists
<1>. DEFINE best == CHOOSE i \in T : \A j \in T : Good(i, j)
<1>10. best \in T /\ \A j \in T : Good(best, j)
  BY <1>8, <1>9
<1>11. Catalog!Latest(f) = flows[best]
  BY DEF Catalog!Latest, Catalog!SemverKey, T, key, Good
<1>. QED BY <1>10, <1>11 DEF T, Good, key

\* No version means one that no loaded version of the flow is above.
THEOREM LatestIsServed == Spec => []LatestIsHighest
<1>1. CatalogInv => LatestIsHighest
  <2>. SUFFICES ASSUME CatalogInv, NEW c \in Catalog!Range(flows),
                       NEW d \in Catalog!Get(c.flow, "none")
                PROVE  d.flow = c.flow
                       /\ ~Catalog!Before(d.version.parts, c.version.parts)
    BY DEF LatestIsHighest, Catalog!LatestIsHighest
  <2>1. PICK n \in DOMAIN flows : flows[n] = c
    BY DEF Catalog!Range
  <2>2. n \in Catalog!Matching(c.flow)
    BY <2>1 DEF Catalog!Matching
  <2>3. d = Catalog!Latest(c.flow)
    BY <2>2 DEF Catalog!Get
  <2>4. PICK i \in Catalog!Matching(c.flow) :
          /\ Catalog!Latest(c.flow) = flows[i]
          /\ \A j \in Catalog!Matching(c.flow) :
               ~Catalog!Before(flows[i].version.parts, flows[j].version.parts)
    BY <2>2, LatestType DEF CatalogInv, CatalogType
  <2>. QED BY <2>1, <2>2, <2>3, <2>4 DEF Catalog!Matching
<1>. QED BY <1>1, CatalogCorrect, PTL


-----------------------------------------------------------------------------
(* The event feed.                                                         *)

\* Cardinality is the same in the instances as here.
LEMMA SameCardinality ==
  \A S : Feed!Cardinality(S) = Cardinality(S) /\ Store!Cardinality(S) = Cardinality(S)
BY DEF Feed!Cardinality, Store!Cardinality, Cardinality

\* The number before the first one on the bus.
Base == IF durable THEN 0 ELSE born

FeedType ==
  /\ durable \in BOOLEAN /\ bus \in Seq(Nat) /\ received \in Seq(Nat)
  /\ published \in Nat /\ cursor \in Nat /\ born \in Nat

\* The bus holds a run of numbers up to the last one published.
BusIsRun ==
  /\ born <= published
  /\ Len(bus) = published - Base
  /\ \A i \in 1..Len(bus) : bus[i] = Base + i

\* The reader stands at its cursor, with everything up to it behind.
ReaderAtCursor ==
  /\ cursor <= published
  /\ \A i \in 1..Len(received) : received[i] <= cursor
  /\ \A i, j \in 1..Len(received) : i < j => received[i] < received[j]
  /\ \A i \in 1..Len(bus) : bus[i] <= cursor => bus[i] \in Range(received)

FeedInv == FeedType /\ BusIsRun /\ ReaderAtCursor

\* The number before the bus is one that was published, or none.
LEMMA BaseType ==
  ASSUME FeedType, BusIsRun
  PROVE  Base \in Nat /\ Base <= published
BY DEF FeedType, BusIsRun, Base

\* Where the reader had got to on the bus it asks.
Reached == IF cursor <= Base THEN 0 ELSE cursor - Base

\* A page starts right after what the reader has of this bus, be its cursor on
\* the bus or from a former process.
LEMMA StartIsNext ==
  ASSUME FeedInv
  PROVE  Feed!Start(cursor) = Reached + 1 /\ Reached \in 0..Len(bus)
<1>1. Base \in Nat /\ Base <= published /\ published \in Nat /\ cursor \in Nat
      /\ cursor <= published /\ Len(bus) = published - Base
  BY BaseType DEF FeedInv, FeedType, BusIsRun, ReaderAtCursor
<1>2. /\ DOMAIN bus = 1..Len(bus)
      /\ \A i \in 1..Len(bus) : bus[i] = Base + i
  BY DEF FeedInv, FeedType, BusIsRun
<1>3. Reached \in 0..Len(bus)
  BY <1>1 DEF Reached
<1>4. CASE cursor = Feed!NoCursor
  <2>1. cursor = 0
    BY <1>4 DEF Feed!NoCursor
  <2>2. Reached = 0
    BY <1>1, <2>1 DEF Reached
  <2>. QED BY <1>3, <1>4, <2>2 DEF Feed!Start
<1>5. CASE cursor # Feed!NoCursor /\ durable
  <2>1. Base = 0 /\ Reached = cursor
    BY <1>1, <1>5 DEF Base, Reached
  <2>2. {i \in DOMAIN bus : bus[i] <= cursor} = 1..cursor
    BY <1>1, <1>2, <2>1
  <2>3. Cardinality(1..cursor) = cursor
    BY <1>1, FS_Interval
  <2>4. Feed!Start(cursor) = 1 + Cardinality({i \in DOMAIN bus : bus[i] <= cursor})
    BY <1>5, SameCardinality DEF Feed!Start
  <2>5. Feed!Start(cursor) = 1 + cursor
    BY <2>2, <2>3, <2>4
  <2>. QED BY <1>1, <1>3, <2>1, <2>5
<1>6. CASE cursor # Feed!NoCursor /\ ~durable /\ cursor \in Feed!Range(bus)
  <2>. DEFINE at == CHOOSE i \in DOMAIN bus : bus[i] = cursor
  <2>1. at \in 1..Len(bus) /\ bus[at] = cursor
    BY <1>2, <1>6 DEF Feed!Range
  <2>2. Feed!Start(cursor) = 1 + at
    BY <1>6 DEF Feed!Start
  <2>. HIDE DEF at
  <2>3. Reached = at
    BY <1>1, <1>2, <2>1 DEF Reached
  <2>. QED BY <1>3, <2>1, <2>2, <2>3
<1>7. CASE cursor # Feed!NoCursor /\ ~durable /\ cursor \notin Feed!Range(bus)
  <2>1. \A i \in 1..Len(bus) : bus[i] # cursor
    BY <1>2, <1>7 DEF Feed!Range
  <2>2. cursor <= Base
    <3>1. cursor > Base => cursor - Base \in 1..Len(bus) /\ Base + (cursor - Base) = cursor
      BY <1>1
    <3>. QED BY <1>1, <1>2, <2>1, <3>1
  <2>3. Reached = 0
    BY <2>2 DEF Reached
  <2>. QED BY <1>3, <1>7, <2>3 DEF Feed!Start
<1>. QED BY <1>4, <1>5, <1>6, <1>7

\* A page is the next numbers of the bus, in order.
LEMMA PageIsNext ==
  ASSUME FeedInv, NEW n \in Limits, NEW page, page = Feed!GetEvents(cursor, n)
  PROVE  /\ page \in Seq(Nat) /\ Reached + Len(page) <= Len(bus)
         /\ \A k \in 1..Len(page) : page[k] = Base + Reached + k
<1>. DEFINE tail == SubSeq(bus, Reached + 1, Len(bus))
            most == IF n < MaxLimit THEN n ELSE MaxLimit
            size == IF most < Len(tail) THEN most ELSE Len(tail)
<1>1. /\ bus \in Seq(Nat) /\ Len(bus) \in Nat /\ Reached \in 0..Len(bus)
      /\ \A i \in 1..Len(bus) : bus[i] = Base + i
      /\ Base \in Nat
  BY StartIsNext, BaseType DEF FeedInv, FeedType, BusIsRun
<1>2. page = SubSeq(tail, 1, size)
  BY StartIsNext DEF Feed!GetEvents, Feed!Cap
<1>3. /\ tail \in Seq(Nat) /\ Len(tail) = Len(bus) - Reached
      /\ \A k \in 1..Len(tail) : tail[k] = bus[Reached + k]
  <2>1. Reached + 1 \in 1..Len(bus) + 1 /\ Reached + 1 \in Nat
    BY <1>1
  <2>. QED BY <1>1, <2>1
<1>4. most \in Nat
  BY ConstantsType
<1>. HIDE DEF tail, most
<1>5. size \in 0..Len(tail) /\ Len(tail) \in Nat
  BY <1>1, <1>3, <1>4
<1>. HIDE DEF size
<1>6. /\ page \in Seq(Nat) /\ Len(page) = size
      /\ \A k \in 1..Len(page) : page[k] = tail[k]
  BY <1>2, <1>3, <1>5
<1>7. \A k \in 1..Len(page) : page[k] = Base + (Reached + k)
  <2>. SUFFICES ASSUME NEW k \in 1..Len(page) PROVE page[k] = Base + (Reached + k)
    OBVIOUS
  <2>1. k \in 1..Len(tail) /\ k \in Nat
    BY <1>5, <1>6
  <2>2. Reached + k \in 1..Len(bus)
    BY <1>1, <1>3, <2>1
  <2>. QED BY <1>1, <1>3, <1>6, <2>1, <2>2
<1>8. \A k \in 1..Len(page) : page[k] = Base + Reached + k
  BY <1>1, <1>7
<1>9. Reached + Len(page) <= Len(bus)
  BY <1>1, <1>3, <1>5, <1>6
<1>. QED BY <1>6, <1>8, <1>9

\* Reading a page leaves the reader at its cursor.
LEMMA PollKeeps ==
  ASSUME FeedInv, Poll
  PROVE  FeedInv'
<1>1. PICK n \in Limits : Feed!Poll(n)
  BY DEF Poll
<1>. DEFINE page == Feed!GetEvents(cursor, n)
<1>2. /\ received' = received \o page
      /\ cursor' = IF page = <<>> THEN cursor ELSE page[Len(page)]
      /\ UNCHANGED <<durable, bus, published, born>>
  BY <1>1 DEF Feed!Poll, Poll, history
<1>3. /\ page \in Seq(Nat) /\ Reached + Len(page) <= Len(bus)
      /\ \A k \in 1..Len(page) : page[k] = Base + Reached + k
  BY PageIsNext
<1>. HIDE DEF page
<1>4. /\ Base \in Nat /\ published \in Nat /\ cursor \in Nat /\ Len(page) \in Nat
      /\ Reached \in Nat /\ Len(received) \in Nat /\ received \in Seq(Nat)
      /\ Len(bus) = published - Base /\ bus \in Seq(Nat)
      /\ \A i \in 1..Len(received) : received[i] <= cursor /\ received[i] \in Nat
      /\ cursor <= published
      /\ \A i \in 1..Len(bus) : bus[i] = Base + i
  BY <1>3, BaseType, StartIsNext DEF FeedInv, FeedType, BusIsRun, ReaderAtCursor
<1>5. cursor <= Base + Reached /\ (Reached # 0 => cursor = Base + Reached)
  BY <1>4 DEF Reached
<1>6. CASE page = <<>>
  <2>1. received' = received /\ cursor' = cursor
    BY <1>2, <1>4, <1>6
  <2>. QED BY <1>2, <2>1 DEF FeedInv, FeedType, BusIsRun, ReaderAtCursor, Base
<1>7. CASE page # <<>>
  <2>1. Len(page) > 0
    BY <1>3, <1>7
  <2>2. cursor' = Base + Reached + Len(page)
    BY <1>2, <1>3, <1>4, <1>7, <2>1
  <2>3. cursor' \in Nat /\ cursor' <= published /\ cursor < cursor'
    BY <1>3, <1>4, <1>5, <2>1, <2>2
  <2>4. /\ received' \in Seq(Nat) /\ Len(received') = Len(received) + Len(page)
        /\ \A i \in 1..Len(received) : received'[i] = received[i]
        /\ \A i \in 1..Len(received') : i > Len(received) =>
             /\ i - Len(received) \in 1..Len(page)
             /\ received'[i] = page[i - Len(received)]
    BY <1>2, <1>3, <1>4
  <2>5. \A i \in 1..Len(received') : i > Len(received) =>
          received'[i] = Base + Reached + (i - Len(received))
    BY <1>3, <2>4
  <2>6. \A i \in 1..Len(received') : received'[i] <= cursor'
    <3>. SUFFICES ASSUME NEW i \in 1..Len(received') PROVE received'[i] <= cursor'
      OBVIOUS
    <3>1. CASE i > Len(received)
      <4>1. i \in Nat /\ i <= Len(received) + Len(page)
        BY <1>4, <2>4
      <4>2. received'[i] = Base + Reached + (i - Len(received))
        BY <2>5, <3>1
      <4>. QED BY <1>4, <2>2, <4>1, <4>2
    <3>2. CASE ~(i > Len(received))
      <4>1. i \in 1..Len(received)
        BY <1>4, <2>4, <3>2
      <4>2. received'[i] <= cursor /\ received'[i] \in Nat
        BY <1>4, <2>4, <4>1
      <4>. QED BY <1>4, <2>3, <4>2
    <3>. QED BY <3>1, <3>2
  <2>7. \A i, j \in 1..Len(received') : i < j => received'[i] < received'[j]
    <3>. SUFFICES ASSUME NEW i \in 1..Len(received'), NEW j \in 1..Len(received'), i < j
                  PROVE  received'[i] < received'[j]
      OBVIOUS
    <3>1. i \in Nat /\ j \in Nat
      BY <1>4, <2>4
    <3>2. CASE i > Len(received)
      <4>1. j > Len(received)
        BY <1>4, <3>1, <3>2
      <4>2. received'[i] = Base + Reached + (i - Len(received))
            /\ received'[j] = Base + Reached + (j - Len(received))
        BY <2>5, <3>2, <4>1
      <4>. QED BY <1>4, <3>1, <4>2
    <3>3. CASE ~(i > Len(received)) /\ j > Len(received)
      <4>1. i \in 1..Len(received)
        BY <1>4, <2>4, <3>3
      <4>2. received'[i] <= cursor /\ received'[i] \in Nat
        BY <1>4, <2>4, <4>1
      <4>3. received'[j] = Base + Reached + (j - Len(received))
        BY <2>5, <3>3
      <4>. QED BY <1>4, <1>5, <3>1, <3>3, <4>2, <4>3
    <3>4. CASE ~(j > Len(received))
      <4>1. i \in 1..Len(received) /\ j \in 1..Len(received)
        BY <1>4, <2>4, <3>1, <3>4
      <4>2. received[i] < received[j]
        BY <4>1 DEF FeedInv, ReaderAtCursor
      <4>. QED BY <2>4, <4>1, <4>2
    <3>. QED BY <3>2, <3>3, <3>4
  <2>8. \A i \in 1..Len(bus) : bus[i] <= cursor' => bus[i] \in Range(received')
    <3>. SUFFICES ASSUME NEW i \in 1..Len(bus), bus[i] <= cursor'
                  PROVE  bus[i] \in Range(received')
      OBVIOUS
    <3>1. DOMAIN received' = 1..Len(received') /\ DOMAIN received = 1..Len(received)
          /\ i \in Nat /\ bus[i] = Base + i
      BY <1>4, <2>4
    <3>2. CASE i <= Reached
      <4>1. bus[i] <= cursor
        BY <1>4, <1>5, <3>1, <3>2
      <4>2. bus[i] \in Range(received)
        BY <4>1 DEF FeedInv, ReaderAtCursor
      <4>3. PICK k \in 1..Len(received) : received[k] = bus[i]
        BY <3>1, <4>2 DEF Range
      <4>4. k \in 1..Len(received') /\ received'[k] = bus[i]
        BY <1>4, <2>4, <4>3
      <4>. QED BY <3>1, <4>4 DEF Range
    <3>3. CASE i > Reached
      <4>1. i - Reached \in 1..Len(page)
        BY <1>4, <2>2, <3>1, <3>3
      <4>. DEFINE k == Len(received) + (i - Reached)
      <4>2. k \in 1..Len(received') /\ k > Len(received) /\ k - Len(received) = i - Reached
        BY <1>4, <2>4, <3>1, <4>1
      <4>3. received'[k] = Base + Reached + (i - Reached)
        BY <2>5, <4>2
      <4>4. received'[k] = bus[i]
        BY <1>4, <3>1, <4>3
      <4>. QED BY <3>1, <4>2, <4>4 DEF Range
    <3>. QED BY <1>4, <3>1, <3>2, <3>3
  <2>. QED BY <1>2, <2>3, <2>4, <2>6, <2>7, <2>8
       DEF FeedInv, FeedType, BusIsRun, ReaderAtCursor, Base
<1>. QED BY <1>6, <1>7

\* Publishing adds the next number.
LEMMA PublishKeeps ==
  ASSUME FeedInv, Feed!Publish, born' = born
  PROVE  FeedInv'
<1>1. /\ published' = published + 1 /\ bus' = Append(bus, published + 1)
      /\ UNCHANGED <<durable, cursor, received, born>>
  BY DEF Feed!Publish
<1>2. /\ Base \in Nat /\ published \in Nat /\ cursor \in Nat /\ Base <= published
      /\ Len(bus) = published - Base /\ bus \in Seq(Nat) /\ Len(bus) \in Nat
      /\ cursor <= published /\ Base' = Base /\ born \in Nat /\ born <= published
      /\ \A i \in 1..Len(bus) : bus[i] = Base + i
  BY <1>1, BaseType DEF FeedInv, FeedType, BusIsRun, ReaderAtCursor, Base
<1>3. /\ bus' \in Seq(Nat) /\ Len(bus') = Len(bus) + 1
      /\ bus'[Len(bus) + 1] = published + 1
      /\ \A i \in 1..Len(bus) : bus'[i] = bus[i]
      /\ 1..Len(bus') = (1..Len(bus)) \cup {Len(bus) + 1}
  BY <1>1, <1>2
<1>4. \A i \in 1..Len(bus') : bus'[i] = Base + i
  <2>1. Base + (Len(bus) + 1) = published + 1
    BY <1>2
  <2>. QED BY <1>2, <1>3, <2>1
<1>5. BusIsRun'
  BY <1>1, <1>2, <1>3, <1>4 DEF BusIsRun
<1>6. \A i \in 1..Len(bus') : bus'[i] <= cursor => bus'[i] \in Range(received)
  <2>1. ~(published + 1 <= cursor)
    BY <1>2
  <2>. QED BY <1>3, <2>1 DEF FeedInv, ReaderAtCursor
<1>7. ReaderAtCursor'
  BY <1>1, <1>2, <1>6 DEF FeedInv, FeedType, ReaderAtCursor
<1>8. FeedType'
  BY <1>1, <1>2, <1>3 DEF FeedInv, FeedType
<1>. QED BY <1>5, <1>7, <1>8 DEF FeedInv

\* A restart empties the bus in memory and leaves the stream.
LEMMA RestartKeepsFeed ==
  ASSUME FeedInv, Restart
  PROVE  FeedInv'
<1>1. /\ bus' = IF durable THEN bus ELSE <<>>
      /\ born' = published
      /\ UNCHANGED <<durable, published, cursor, received>>
  BY DEF Restart, Feed!Restart
<1>2. published \in Nat /\ durable \in BOOLEAN
  BY DEF FeedInv, FeedType
<1>3. CASE durable
  <2>1. bus' = bus /\ Base' = Base
    BY <1>1, <1>3 DEF Base
  <2>. QED BY <1>1, <1>2, <2>1 DEF FeedInv, FeedType, BusIsRun, ReaderAtCursor
<1>4. CASE ~durable
  <2>1. bus' = <<>> /\ Base' = published
    BY <1>1, <1>4 DEF Base
  <2>2. Len(bus') = 0 /\ bus' \in Seq(Nat) /\ 1..Len(bus') = {}
    BY <2>1, 1..0 = {}
  <2>. QED BY <1>1, <1>2, <2>1, <2>2 DEF FeedInv, FeedType, BusIsRun, ReaderAtCursor
<1>. QED BY <1>2, <1>3, <1>4

\* FeedInv is inductive.
LEMMA FeedInvStep ==
  ASSUME FeedInv, [Next]_vars
  PROVE  FeedInv'
<1>1. ASSUME UNCHANGED <<feed, born>> PROVE FeedInv'
  BY <1>1 DEF feed, FeedInv, FeedType, BusIsRun, ReaderAtCursor, Base
<1>2. ASSUME NEW p \in Range(Paths), NEW c \in Contents \cup {Absent}, Edit(p, c)
      PROVE  FeedInv'
  BY <1>1, <1>2 DEF Edit, history
<1>3. CASE StartUp
  BY <1>1, <1>3 DEF StartUp, history
<1>4. ASSUME NEW q \in Asked, NEW at \in scene.times,
             NEW outcome \in {"confirmed", "raised", "other"},
             Evaluate(q[1], q[2], at, outcome)
      PROVE  FeedInv'
  BY <1>1, <1>4, PublishKeeps DEF Evaluate
<1>5. CASE Browse
  BY <1>1, <1>5 DEF Browse, history
<1>6. CASE UNCHANGED vars
  BY <1>1, <1>6 DEF vars, history
<1>. QED BY <1>2, <1>3, <1>4, <1>5, <1>6, PollKeeps, RestartKeepsFeed DEF Next

\* The feed is of its type and the reader stands at its cursor.
THEOREM FeedCorrect == Spec => []FeedInv
<1>1. Init => FeedInv
  <2>. SUFFICES ASSUME Init PROVE FeedInv
    OBVIOUS
  <2>1. /\ durable \in BOOLEAN /\ bus = <<>> /\ published = 0 /\ cursor = 0
        /\ received = <<>> /\ born = 0 /\ Base = 0
    BY DEF Init, Feed!Init, Feed!NoCursor, Base
  <2>2. 1..Len(bus) = {} /\ 1..Len(received) = {} /\ Len(bus) = 0
    BY <2>1, 1..0 = {}
  <2>. QED BY <2>1, <2>2 DEF FeedInv, FeedType, BusIsRun, ReaderAtCursor
<1>2. FeedInv /\ [Next]_vars => FeedInv'
  BY FeedInvStep
<1>. QED BY <1>1, <1>2, PTL DEF Spec

\* A reader that follows its cursor gets no event twice, none out of order, and
\* passes over none the bus holds, across page cuts and restarts.
THEOREM FeedServesInOrder == Spec => []FeedIsExact
<1>1. FeedInv => FeedIsExact
  <2>. SUFFICES ASSUME FeedInv PROVE Feed!FeedIsExact
    BY DEF FeedIsExact
  <2>1. DOMAIN received = 1..Len(received) /\ DOMAIN bus = 1..Len(bus)
    BY DEF FeedInv, FeedType
  <2>2. Feed!Range(bus) = Range(bus) /\ Feed!Range(received) = Range(received)
    BY DEF Feed!Range, Range
  <2>3. \A e \in Range(bus) : e <= cursor => e \in Range(received)
    BY <2>1 DEF FeedInv, ReaderAtCursor, Range
  <2>4. \A i, j \in DOMAIN received : i < j => received[i] < received[j]
    BY <2>1 DEF FeedInv, ReaderAtCursor
  <2>. QED BY <2>2, <2>3, <2>4 DEF Feed!FeedIsExact
<1>. QED BY <1>1, FeedCorrect, PTL


-----------------------------------------------------------------------------
(* The trace store.                                                        *)

TraceEntry ==
  [id : Nat, at : Nat, flow : Contents,
   status : {"confirmed", "raised", "other"}, event : Nat]

StoreType ==
  /\ scene \in Scenes /\ evals \in Nat /\ raised \subseteq Nat
  /\ traces \in Seq(TraceEntry)
  /\ limit \in Nat /\ ended \in BOOLEAN /\ arrived \in Nat
  /\ given \in Seq(Nat) /\ known \subseteq Nat
  /\ limit = 0 => given = <<>> /\ ended = FALSE /\ arrived = 0

\* Every evaluation's id is new: to the store and to whoever pages through it.
IdsAreFresh ==
  /\ \A i \in 1..Len(traces) : traces[i].id <= evals
  /\ \A i, j \in 1..Len(traces) : traces[i].id = traces[j].id => i = j
  /\ \A x \in known \cup Range(given) : x <= evals

\* The traces are of this process, and so is the flow each one records.
TracesAreOfProcess ==
  /\ traces # <<>> => pc = "serving"
  /\ \A i \in 1..Len(traces) : traces[i].flow \in Range(flows)

\* The confirmed traces tell of the events of this process that did not raise,
\* each of one, in the same order.
TracesTellEvents ==
  /\ raised \subseteq (born + 1)..published
  /\ \A i \in 1..Len(traces) :
       /\ traces[i].status = "confirmed" <=> traces[i].event # NoEvent
       /\ traces[i].event # NoEvent =>
            traces[i].event \in ((born + 1)..published) \ raised
  /\ \A e \in ((born + 1)..published) \ raised :
       \E i \in 1..Len(traces) : traces[i].event = e
  /\ \A i, j \in 1..Len(traces) :
       i < j /\ traces[i].event # NoEvent /\ traces[j].event # NoEvent
         => traces[i].event < traces[j].event

StoreInv == StoreType /\ IdsAreFresh /\ TracesAreOfProcess /\ TracesTellEvents

\* The i-th entry of a store is listed before the j-th; those listed before the
\* i-th; and where that puts it.
Newer(s, i, j) == s[i].at > s[j].at \/ (s[i].at = s[j].at /\ i < j)
Ahead(s, i)    == {j \in 1..Len(s) : Newer(s, j, i)}
Position(s, i) == 1 + Cardinality(Ahead(s, i))

\* Traces the client was given that stand, by now, where it will still come.
Behind ==
  {i \in 1..Len(traces) :
     Position(traces, i) > Len(given) /\ traces[i].id \in Range(given)}

\* The i-th trace stands on a page the client has passed.
Passed(i) ==
  \/ Position(traces, i) <= Len(given)
  \/ ended /\ Position(traces, i) <= MaxRecent

\* What the client was given covers the pages it has passed, and every
\* repetition, past or to come, has an arrival that caused it.
PagesAreCovered ==
  /\ \A i \in 1..Len(traces) :
       traces[i].id \in known /\ Passed(i)
         => traces[i].id \in Range(given)
  /\ Len(given) - Cardinality(Range(given)) + Cardinality(Behind) <= arrived


-----------------------------------------------------------------------------
(* Where a trace is listed.                                                *)

\* The entries of a store and their fields.
LEMMA EntryType ==
  ASSUME NEW s \in Seq(TraceEntry)
  PROVE  /\ Len(s) \in Nat /\ DOMAIN s = 1..Len(s)
         /\ \A k \in 1..Len(s) :
              /\ s[k] \in TraceEntry /\ s[k].id \in Nat /\ s[k].at \in Nat
              /\ s[k].flow \in Contents /\ s[k].event \in Nat
              /\ s[k].status \in {"confirmed", "raised", "other"}
<1>1. Len(s) \in Nat /\ DOMAIN s = 1..Len(s) /\ \A k \in 1..Len(s) : s[k] \in TraceEntry
  OBVIOUS
<1>2. \A e \in TraceEntry :
        /\ e.id \in Nat /\ e.at \in Nat /\ e.flow \in Contents /\ e.event \in Nat
        /\ e.status \in {"confirmed", "raised", "other"}
  BY DEF TraceEntry
<1>. QED BY <1>1, <1>2

\* A trace is not listed before itself, and its position is in the listing.
LEMMA AheadType ==
  ASSUME NEW s \in Seq(TraceEntry), NEW i \in 1..Len(s)
  PROVE  /\ IsFiniteSet(Ahead(s, i)) /\ Cardinality(Ahead(s, i)) \in Nat
         /\ Ahead(s, i) \subseteq 1..Len(s) /\ i \notin Ahead(s, i)
         /\ Position(s, i) \in 1..Len(s)
<1>1. Len(s) \in Nat /\ \A k \in 1..Len(s) : s[k].at \in Nat
  BY EntryType
<1>2. Ahead(s, i) \in SUBSET (1..Len(s)) /\ i \notin Ahead(s, i)
  BY <1>1 DEF Ahead, Newer
<1>3. IsFiniteSet(1..Len(s)) /\ Cardinality(1..Len(s)) = Len(s)
  <2>1. 1 \in Int /\ Len(s) \in Int
    BY <1>1
  <2>2. IsFiniteSet(1..Len(s))
        /\ Cardinality(1..Len(s)) = IF 1 > Len(s) THEN 0 ELSE Len(s) - 1 + 1
    BY <2>1, FS_Interval
  <2>. QED BY <1>1, <2>2
<1>4. /\ IsFiniteSet(Ahead(s, i)) /\ Cardinality(Ahead(s, i)) <= Len(s)
      /\ Cardinality(Ahead(s, i)) # Len(s)
  BY <1>2, <1>3, FS_Subset
<1>5. Cardinality(Ahead(s, i)) \in Nat
  BY <1>4, FS_CardinalityType
<1>. QED BY <1>1, <1>2, <1>4, <1>5 DEF Position

\* What is listed before another has the lower position.
LEMMA PositionIsMonotone ==
  ASSUME NEW s \in Seq(TraceEntry), NEW i \in 1..Len(s), NEW j \in 1..Len(s),
         Newer(s, i, j)
  PROVE  Position(s, i) < Position(s, j)
<1>1. Len(s) \in Nat /\ \A k \in 1..Len(s) : s[k].at \in Nat
  BY EntryType
<1>2. Ahead(s, i) \cup {i} \in SUBSET Ahead(s, j)
  <2>1. \A k \in 1..Len(s) : Newer(s, k, i) => Newer(s, k, j)
    BY <1>1 DEF Newer
  <2>. QED BY <2>1 DEF Ahead
<1>3. Cardinality(Ahead(s, i) \cup {i}) = Cardinality(Ahead(s, i)) + 1
  BY AheadType, FS_AddElement
<1>4. Cardinality(Ahead(s, i) \cup {i}) <= Cardinality(Ahead(s, j))
  BY <1>2, AheadType, FS_Subset
<1>5. Cardinality(Ahead(s, i)) \in Nat /\ Cardinality(Ahead(s, j)) \in Nat
  BY AheadType
<1>. QED BY <1>3, <1>4, <1>5 DEF Position

\* Every trace has a position of its own, and every position a trace.
LEMMA PositionIsBijection ==
  ASSUME NEW s \in Seq(TraceEntry)
  PROVE  /\ \A i \in 1..Len(s) : Position(s, i) \in 1..Len(s)
         /\ \A i, j \in 1..Len(s) : Position(s, i) = Position(s, j) => i = j
         /\ \A k \in 1..Len(s) : \E i \in 1..Len(s) : Position(s, i) = k
<1>1. Len(s) \in Nat /\ \A k \in 1..Len(s) : s[k].at \in Nat
  BY EntryType
<1>2. \A i \in 1..Len(s) : Position(s, i) \in 1..Len(s)
  BY AheadType
<1>3. ASSUME NEW i \in 1..Len(s), NEW j \in 1..Len(s), Position(s, i) = Position(s, j)
      PROVE  i = j
  <2>1. i # j => Newer(s, i, j) \/ Newer(s, j, i)
    BY <1>1 DEF Newer
  <2>2. Position(s, i) \in Nat /\ Position(s, j) \in Nat
    BY <1>1, <1>2
  <2>3. ~(Position(s, i) < Position(s, j)) /\ ~(Position(s, j) < Position(s, i))
    BY <1>3, <2>2
  <2>. QED BY <2>1, <2>3, PositionIsMonotone
<1>. DEFINE P == [i \in 1..Len(s) |-> Position(s, i)]
<1>4. P \in [1..Len(s) -> 1..Len(s)]
  BY <1>2
<1>5. \A i, j \in 1..Len(s) : P[i] = P[j] => i = j
  BY <1>3
<1>6. \A i \in 1..Len(s) : P[i] = Position(s, i)
  OBVIOUS
<1>. HIDE DEF P
<1>7. P \in Injection(1..Len(s), 1..Len(s))
  BY <1>4, <1>5, Fun_IsInj
<1>8. IsFiniteSet(1..Len(s))
  <2>1. 1 \in Int /\ Len(s) \in Int
    BY <1>1
  <2>. QED BY <2>1, FS_Interval
<1>9. P \in Surjection(1..Len(s), 1..Len(s))
  BY <1>7, <1>8, FS_Injection
<1>10. \A k \in 1..Len(s) : \E i \in 1..Len(s) : P[i] = k
  BY <1>9, Fun_SurjectionProperties
<1>. QED BY <1>2, <1>3, <1>6, <1>10

\* The listing holds each trace at its position.
LEMMA NewestIsByPosition ==
  ASSUME traces \in Seq(TraceEntry)
  PROVE  /\ Store!Newest \in Seq(TraceEntry) /\ Len(Store!Newest) = Len(traces)
         /\ \A i \in 1..Len(traces) :
              Store!Newest[Position(traces, i)] = traces[i]
<1>. DEFINE at(k) == CHOOSE i \in DOMAIN traces :
               Store!Cardinality({j \in DOMAIN traces : Store!ComesBefore(j, i)}) = k - 1
<1>1. DOMAIN traces = 1..Len(traces) /\ Len(traces) \in Nat
  OBVIOUS
<1>2. Store!Newest = [k \in DOMAIN traces |-> traces[at(k)]]
  BY DEF Store!Newest
<1>3. ASSUME NEW i \in 1..Len(traces)
      PROVE  {j \in DOMAIN traces : Store!ComesBefore(j, i)} = Ahead(traces, i)
  BY <1>1 DEF Ahead, Newer, Store!ComesBefore
<1>4. \A i \in 1..Len(traces) :
        /\ Cardinality(Ahead(traces, i)) \in Nat
        /\ Position(traces, i) = 1 + Cardinality(Ahead(traces, i))
  BY AheadType DEF Position
<1>5. ASSUME NEW k \in 1..Len(traces)
      PROVE  at(k) \in 1..Len(traces) /\ Position(traces, at(k)) = k
  <2>1. PICK i \in 1..Len(traces) : Position(traces, i) = k
    BY PositionIsBijection
  <2>2. Cardinality(Ahead(traces, i)) = k - 1
    BY <1>4, <2>1
  <2>3. Store!Cardinality({j \in DOMAIN traces : Store!ComesBefore(j, i)}) = k - 1
    BY <1>3, <2>2, SameCardinality
  <2>4. /\ at(k) \in DOMAIN traces
        /\ Store!Cardinality({j \in DOMAIN traces : Store!ComesBefore(j, at(k))}) = k - 1
    BY <1>1, <2>3
  <2>. HIDE DEF at
  <2>5. Cardinality(Ahead(traces, at(k))) = k - 1
    BY <1>1, <1>3, <2>4, SameCardinality
  <2>. QED BY <1>1, <1>4, <2>4, <2>5
<1>. HIDE DEF at
<1>6. Store!Newest \in [1..Len(traces) -> TraceEntry]
  BY <1>1, <1>2, <1>5
<1>7. Store!Newest \in Seq(TraceEntry) /\ Len(Store!Newest) = Len(traces)
  BY <1>1, <1>6
<1>8. ASSUME NEW i \in 1..Len(traces)
      PROVE  Store!Newest[Position(traces, i)] = traces[i]
  <2>1. Position(traces, i) \in 1..Len(traces)
    BY PositionIsBijection
  <2>2. at(Position(traces, i)) = i
    BY <1>5, <2>1, PositionIsBijection
  <2>. QED BY <1>1, <1>2, <2>1, <2>2
<1>. QED BY <1>7, <1>8

\* A trace that arrives moves no other forward, and back by one at most.
LEMMA ArrivalMovesBack ==
  ASSUME NEW s \in Seq(TraceEntry), NEW t \in TraceEntry, NEW i \in 1..Len(s)
  PROVE  Position(Append(s, t), i) \in {Position(s, i), Position(s, i) + 1}
<1>. DEFINE r == Append(s, t)
            n == Len(s) + 1
<1>1. /\ r \in Seq(TraceEntry) /\ Len(r) = n /\ Len(s) \in Nat
      /\ \A k \in 1..Len(s) : r[k] = s[k]
      /\ 1..n = (1..Len(s)) \cup {n} /\ n \notin 1..Len(s)
  OBVIOUS
<1>. HIDE DEF r, n
<1>2. \A k \in 1..Len(s) : Newer(r, k, i) <=> Newer(s, k, i)
  BY <1>1 DEF Newer
<1>3. Ahead(r, i) = Ahead(s, i) \/ Ahead(r, i) = Ahead(s, i) \cup {n}
  BY <1>1, <1>2 DEF Ahead
<1>4. /\ IsFiniteSet(Ahead(s, i)) /\ Cardinality(Ahead(s, i)) \in Nat
      /\ n \notin Ahead(s, i)
  BY <1>1, AheadType
<1>5. Cardinality(Ahead(s, i) \cup {n}) = Cardinality(Ahead(s, i)) + 1
  BY <1>4, FS_AddElement
<1>6. Position(r, i) \in {Position(s, i), Position(s, i) + 1}
  <2>1. CASE Ahead(r, i) = Ahead(s, i)
    BY <2>1 DEF Position
  <2>2. CASE Ahead(r, i) = Ahead(s, i) \cup {n}
    <3>1. Cardinality(Ahead(r, i)) = Cardinality(Ahead(s, i)) + 1
      BY <1>5, <2>2
    <3>2. Position(r, i) = Position(s, i) + 1
      BY <1>4, <3>1 DEF Position
    <3>. QED BY <3>2
  <2>. QED BY <1>3, <2>1, <2>2
<1>. QED BY <1>6 DEF r


\* A page is the listing from the offset on, and a short one reaches its end.
LEMMA PageIsSlice ==
  ASSUME traces \in Seq(TraceEntry), NEW n \in Nat, NEW offset \in Nat,
         NEW page, page = Store!Page(n, offset)
  PROVE  /\ page \in Seq(TraceEntry) /\ Len(page) \in Nat /\ DOMAIN page = 1..Len(page)
         /\ \A k \in 1..Len(page) :
              offset + k \in 1..Len(traces) /\ page[k] = Store!Newest[offset + k]
         /\ Len(page) < n =>
              \A k \in 1..Len(traces) : k <= MaxRecent => k <= offset + Len(page)
<1>. DEFINE new == Store!Newest
            fetched == IF n + offset < MaxRecent THEN n + offset ELSE MaxRecent
            top == IF fetched < Len(new) THEN fetched ELSE Len(new)
            all == SubSeq(new, 1, top)
            rest == SubSeq(all, offset + 1, Len(all))
            size == IF n < Len(rest) THEN n ELSE Len(rest)
<1>1. page = SubSeq(rest, 1, size)
  BY DEF Store!Page, Store!Cut, Store!ListRecent
<1>2. new \in Seq(TraceEntry) /\ Len(new) = Len(traces) /\ Len(traces) \in Nat
  BY NewestIsByPosition, EntryType
<1>3. fetched \in Nat /\ MaxRecent \in Nat
      /\ fetched <= MaxRecent /\ fetched <= n + offset
      /\ (fetched = MaxRecent \/ fetched = n + offset)
  BY ConstantsType
<1>. HIDE DEF fetched, new
<1>4. /\ top \in Nat /\ top <= Len(new) /\ top <= fetched
      /\ (top = fetched \/ top = Len(new))
  BY <1>2, <1>3
<1>. HIDE DEF top
<1>5. /\ all \in Seq(TraceEntry) /\ Len(all) = top
      /\ \A k \in 1..top : all[k] = new[k]
  BY <1>2, <1>4
<1>. HIDE DEF all
<1>6. /\ rest \in Seq(TraceEntry)
      /\ Len(rest) = IF offset <= top THEN top - offset ELSE 0
      /\ \A k \in 1..Len(rest) : rest[k] = all[offset + k]
  <2>1. CASE offset < top
    <3>1. offset + 1 \in 1..top + 1 /\ top = Len(all)
      BY <1>4, <1>5, <2>1
    <3>2. /\ rest \in Seq(TraceEntry) /\ Len(rest) = Len(all) - offset
          /\ \A k \in 1..Len(rest) : rest[k] = all[offset + k]
      BY <1>5, <3>1
    <3>. HIDE DEF rest
    <3>. QED BY <1>5, <2>1, <3>2
  <2>2. CASE ~(offset < top)
    <3>1. offset + 1 > Len(all)
      BY <1>4, <1>5, <2>2
    <3>2. rest = <<>>
      BY <1>4, <1>5, <3>1
    <3>3. 1..0 = {}
      OBVIOUS
    <3>. HIDE DEF rest
    <3>. QED BY <1>4, <2>2, <3>2, <3>3
  <2>. QED BY <2>1, <2>2
<1>. HIDE DEF rest
<1>7. size \in Nat /\ size <= Len(rest) /\ (size = n \/ size = Len(rest)) /\ size <= n
      /\ Len(rest) \in Nat
  BY <1>6
<1>. HIDE DEF size
<1>8. /\ page \in Seq(TraceEntry) /\ Len(page) = size /\ DOMAIN page = 1..Len(page)
      /\ \A k \in 1..size : page[k] = rest[k]
  BY <1>1, <1>6, <1>7
<1>9. ASSUME NEW k \in 1..Len(page)
      PROVE  offset + k \in 1..Len(traces) /\ page[k] = new[offset + k]
  <2>1. k \in Nat /\ k >= 1 /\ k <= size /\ k \in 1..Len(rest)
    BY <1>7, <1>8
  <2>2. offset + k \in 1..top
    BY <1>4, <1>6, <2>1
  <2>3. page[k] = rest[k] /\ rest[k] = all[offset + k] /\ all[offset + k] = new[offset + k]
    BY <1>5, <1>6, <1>8, <2>1, <2>2
  <2>. QED BY <1>2, <1>4, <2>2, <2>3
<1>10. ASSUME Len(page) < n, NEW k \in 1..Len(traces), k <= MaxRecent
       PROVE  k <= offset + Len(page)
  <2>1. size = Len(rest) /\ size < n /\ k \in Nat
    BY <1>2, <1>7, <1>8, <1>10
  <2>2. k <= Len(new) /\ (fetched = MaxRecent => k <= fetched)
    BY <1>2, <1>10
  <2>3. CASE offset <= top
    <3>1. offset + size = top
      BY <1>4, <1>6, <2>1, <2>3
    <3>2. fetched = n + offset => top # fetched
      BY <2>1, <3>1, <1>4
    <3>3. k <= top
      BY <1>3, <1>4, <2>1, <2>2, <3>2
    <3>. QED BY <1>8, <3>1, <3>3
  <2>4. CASE ~(offset <= top)
    <3>1. fetched = n + offset => top # fetched
      BY <1>4, <2>4
    <3>2. k <= top
      BY <1>3, <1>4, <2>1, <2>2, <3>1
    <3>. QED BY <1>4, <1>7, <1>8, <2>1, <2>4, <3>2
  <2>. QED BY <2>3, <2>4
<1>. QED BY <1>8, <1>9, <1>10, <1>7 DEF new


-----------------------------------------------------------------------------
(* StoreInv is inductive.                                                  *)

\* What a request is answered with is loaded.
LEMMA GetType ==
  ASSUME CatalogInv, NEW f, NEW v, NEW c \in Catalog!Get(f, v)
  PROVE  c \in Range(flows) /\ c \in Contents
<1>1. flows \in Seq(Contents) /\ DOMAIN flows = 1..Len(flows)
  BY DEF CatalogInv, CatalogType
<1>2. Catalog!Range(flows) = Range(flows) /\ Range(flows) \subseteq Contents
  BY <1>1, RangeType DEF Catalog!Range, Range
<1>3. CASE v = "none"
  <2>1. Catalog!Matching(f) # {} /\ c = Catalog!Latest(f)
    BY <1>3 DEF Catalog!Get
  <2>2. PICK i \in Catalog!Matching(f) : c = flows[i]
    BY <1>1, <2>1, LatestType
  <2>. QED BY <1>2, <2>2 DEF Catalog!Matching, Range
<1>4. CASE v # "none"
  BY <1>2, <1>4 DEF Catalog!Get
<1>. QED BY <1>3, <1>4

\* Steps that touch neither the evaluations nor what a trace is related to.
LEMMA StoreKept ==
  ASSUME StoreInv, UNCHANGED <<scene, store, evals, raised, born, published>>,
         traces # <<>> => pc' = "serving" /\ flows' = flows
  PROVE  StoreInv'
<1>1. StoreType' /\ IdsAreFresh' /\ TracesTellEvents'
  BY DEF store, StoreInv, StoreType, IdsAreFresh, TracesTellEvents
<1>2. TracesAreOfProcess'
  <2>1. CASE traces = <<>>
    <3>1. traces' = <<>> /\ Len(traces') = 0 /\ 1..0 = {}
      BY <2>1 DEF store
    <3>. QED BY <3>1 DEF TracesAreOfProcess
  <2>2. CASE traces # <<>>
    BY <2>2 DEF store, StoreInv, TracesAreOfProcess
  <2>. QED BY <2>1, <2>2
<1>. QED BY <1>1, <1>2 DEF StoreInv

\* The store is lost with its process.
LEMMA RestartKeepsStore ==
  ASSUME StoreInv, FeedInv, Restart
  PROVE  StoreInv'
<1>1. /\ traces' = <<>> /\ raised' = {} /\ born' = published /\ published' = published
      /\ UNCHANGED <<scene, evals, limit, given, ended, known, arrived>>
  BY DEF Restart, Store!Lose, Store!pagerVars, Feed!Restart
<1>2. 1..Len(traces') = {} /\ traces' \in Seq(TraceEntry)
  BY <1>1, 1..0 = {}
<1>3. StoreType'
  BY <1>1, <1>2 DEF StoreInv, StoreType
<1>4. IdsAreFresh'
  BY <1>1, <1>2 DEF StoreInv, IdsAreFresh
<1>5. TracesAreOfProcess'
  BY <1>1, <1>2 DEF TracesAreOfProcess
<1>6. TracesTellEvents'
  <2>1. (born' + 1)..published' = {}
    BY <1>1 DEF FeedInv, FeedType
  <2>. QED BY <1>1, <1>2, <2>1 DEF TracesTellEvents
<1>. QED BY <1>3, <1>4, <1>5, <1>6 DEF StoreInv

\* What an evaluation does to the store and the events it tells of.
LEMMA EvaluateEffect ==
  ASSUME StoreInv, CatalogInv, FeedInv, NEW q \in Asked, NEW at \in scene.times,
         NEW outcome \in {"confirmed", "raised", "other"},
         Evaluate(q[1], q[2], at, outcome)
  PROVE  /\ evals' = evals + 1 /\ pc = "serving"
         /\ UNCHANGED <<scene, catalogue, born, limit, given, ended, known>>
         /\ published' = IF outcome = "other" THEN published ELSE published + 1
         /\ raised' = IF outcome = "raised" THEN raised \cup {published + 1} ELSE raised
         /\ outcome = "raised" => UNCHANGED store
         /\ outcome # "raised" =>
              /\ arrived' = IF limit = 0 THEN 0 ELSE arrived + 1
              /\ \E t \in TraceEntry :
                   /\ traces' = Append(traces, t)
                   /\ t.id = evals + 1 /\ t.flow \in Range(flows)
                   /\ t.status = outcome
                   /\ t.event = IF outcome = "other" THEN NoEvent ELSE published + 1
<1>1. /\ evals' = evals + 1 /\ pc = "serving" /\ UNCHANGED <<scene, catalogue, born>>
      /\ evals \in Nat /\ published \in Nat
  BY DEF Evaluate, Serving, StoreInv, StoreType, FeedInv, FeedType
<1>2. published' = IF outcome = "other" THEN published ELSE published + 1
  BY DEF Evaluate, Publishes, Feed!Publish, feed
<1>3. raised' = IF outcome = "raised" THEN raised \cup {published + 1} ELSE raised
  BY <1>2 DEF Evaluate
<1>4. outcome = "raised" => UNCHANGED store
  BY DEF Evaluate, Stores
<1>5. ASSUME outcome # "raised"
      PROVE  /\ UNCHANGED <<limit, given, ended, known>>
             /\ arrived' = IF limit = 0 THEN 0 ELSE arrived + 1
             /\ \E t \in TraceEntry :
                  /\ traces' = Append(traces, t)
                  /\ t.id = evals + 1 /\ t.flow \in Range(flows)
                  /\ t.status = outcome
                  /\ t.event = IF outcome = "other" THEN NoEvent ELSE published + 1
  <2>1. PICK c \in Catalog!Get(q[1], q[2]) :
          Store!Save([id |-> evals', at |-> at, flow |-> c, status |-> outcome,
                      event |-> IF Publishes(outcome) THEN published' ELSE NoEvent])
    BY <1>5 DEF Evaluate, Stores
  <2>. DEFINE t == [id |-> evals', at |-> at, flow |-> c, status |-> outcome,
                    event |-> IF Publishes(outcome) THEN published' ELSE NoEvent]
  <2>2. c \in Range(flows) /\ c \in Contents
    BY GetType
  <2>3. at \in Nat
    BY ReadSideAssumption DEF StoreInv, StoreType
  <2>4. (IF Publishes(outcome) THEN published' ELSE NoEvent)
          = IF outcome = "other" THEN NoEvent ELSE published + 1
    BY <1>2, <1>5 DEF Publishes
  <2>5. (IF Publishes(outcome) THEN published' ELSE NoEvent) \in Nat
    BY <1>1, <2>4 DEF NoEvent
  <2>6. t \in TraceEntry
    BY <1>1, <2>2, <2>3, <2>5 DEF TraceEntry
  <2>7. /\ t.id = evals + 1 /\ t.flow \in Range(flows) /\ t.status = outcome
        /\ t.event = IF outcome = "other" THEN NoEvent ELSE published + 1
    BY <1>1, <2>2, <2>4
  <2>8. /\ UNCHANGED <<limit, given, ended, known>>
        /\ arrived' = IF limit = 0 THEN 0 ELSE arrived + 1
        /\ traces' = Append(traces, t)
    BY <2>1 DEF Store!Save, Store!NotPaging
  <2>. HIDE DEF t
  <2>. QED BY <2>6, <2>7, <2>8
<1>6. UNCHANGED <<limit, given, ended, known>>
  BY <1>4, <1>5 DEF store
<1>. QED BY <1>1, <1>2, <1>3, <1>4, <1>5, <1>6

\* An evaluation keeps StoreInv, whether it stores its trace or raises.
LEMMA EvaluateKeepsStore ==
  ASSUME StoreInv, CatalogInv, FeedInv, NEW q \in Asked, NEW at \in scene.times,
         NEW outcome \in {"confirmed", "raised", "other"},
         Evaluate(q[1], q[2], at, outcome)
  PROVE  StoreInv'
<1>. DEFINE new == published + 1
<1>1. /\ evals' = evals + 1 /\ pc = "serving"
      /\ UNCHANGED <<scene, pc, flows, born, limit, given, ended, known>>
      /\ published' = IF outcome = "other" THEN published ELSE published + 1
      /\ raised' = IF outcome = "raised" THEN raised \cup {published + 1} ELSE raised
  BY EvaluateEffect DEF catalogue
<1>2. /\ evals \in Nat /\ published \in Nat /\ born \in Nat /\ born <= published
      /\ new \in Nat /\ raised \subseteq (born + 1)..published
      /\ \A e \in (born + 1)..published : e < new /\ e # 0 /\ e # new
      /\ (born + 1)..new = ((born + 1)..published) \cup {new} /\ new # 0
      /\ \A x \in Nat : x <= evals => x <= evals'
      /\ known \subseteq Nat /\ Range(given) \subseteq Nat
  <2>1. evals \in Nat /\ known \subseteq Nat /\ given \in Seq(Nat)
        /\ raised \subseteq (born + 1)..published
    BY DEF StoreInv, StoreType, TracesTellEvents
  <2>2. published \in Nat /\ born \in Nat /\ born <= published
    BY DEF FeedInv, FeedType, BusIsRun
  <2>3. Range(given) \subseteq Nat
    BY <2>1, RangeType
  <2>. QED BY <1>1, <2>1, <2>2, <2>3
<1>3. \A x \in known' \cup Range(given') : x <= evals'
  BY <1>1, <1>2 DEF StoreInv, IdsAreFresh
<1>4. raised' \subseteq Nat /\ raised' \subseteq (born + 1)..published'
  <2>1. published' = published \/ published' = new
    BY <1>1
  <2>2. outcome = "raised" => published' = new
    BY <1>1
  <2>3. (born + 1)..published' \subseteq Nat
    BY <1>2, <2>1
  <2>. QED BY <1>1, <1>2, <2>1, <2>2, <2>3
<1>. HIDE DEF new
<1>5. CASE outcome = "raised"
  <2>1. /\ published' = new /\ raised' = raised \cup {new}
        /\ UNCHANGED <<traces, arrived>>
    BY <1>1, <1>5, EvaluateEffect DEF new, store
  <2>2. StoreType'
    BY <1>1, <1>2, <1>4, <2>1 DEF StoreInv, StoreType
  <2>3. IdsAreFresh'
    <3>1. \A i \in 1..Len(traces) : traces[i].id <= evals'
      BY <1>2, EntryType DEF StoreInv, StoreType, IdsAreFresh
    <3>. QED BY <1>3, <2>1, <3>1 DEF StoreInv, IdsAreFresh
  <2>4. TracesAreOfProcess'
    BY <1>1, <2>1 DEF StoreInv, TracesAreOfProcess
  <2>5. ((born + 1)..published') \ raised' = ((born + 1)..published) \ raised
    BY <1>2, <2>1
  <2>6. TracesTellEvents'
    BY <1>1, <1>4, <2>1, <2>5 DEF StoreInv, TracesTellEvents
  <2>. QED BY <2>2, <2>3, <2>4, <2>6 DEF StoreInv
<1>6. CASE outcome # "raised"
  <2>1. PICK t \in TraceEntry :
          /\ traces' = Append(traces, t)
          /\ t.id = evals + 1 /\ t.flow \in Range(flows) /\ t.status = outcome
          /\ t.event = IF outcome = "other" THEN NoEvent ELSE new
    BY <1>6, EvaluateEffect DEF new
  <2>2. arrived' \in Nat /\ raised' = raised /\ (limit = 0 => arrived' = 0)
    <3>1. arrived' = IF limit = 0 THEN 0 ELSE arrived + 1
      BY <1>6, EvaluateEffect
    <3>2. arrived \in Nat
      BY DEF StoreInv, StoreType
    <3>. QED BY <1>1, <1>6, <3>1, <3>2
  <2>3. /\ traces' \in Seq(TraceEntry) /\ Len(traces') = Len(traces) + 1
        /\ Len(traces) \in Nat /\ traces \in Seq(TraceEntry)
        /\ \A i \in 1..Len(traces) : traces'[i] = traces[i]
        /\ traces'[Len(traces) + 1] = t
        /\ 1..Len(traces') = (1..Len(traces)) \cup {Len(traces) + 1}
        /\ \A i \in 1..Len(traces) : i < Len(traces) + 1 /\ ~(Len(traces) + 1 < i)
        /\ ~(Len(traces) + 1 < Len(traces) + 1)
    BY <2>1 DEF StoreInv, StoreType
  <2>4. StoreType'
    BY <1>1, <1>2, <1>4, <2>2, <2>3 DEF StoreInv, StoreType
  <2>5. IdsAreFresh'
    <3>1. \A i \in 1..Len(traces) :
            traces[i].id <= evals' /\ traces[i].id # evals + 1
      BY <1>1, <1>2, <2>3, EntryType DEF StoreInv, IdsAreFresh
    <3>2. \A i \in 1..Len(traces') : traces'[i].id <= evals'
      BY <1>1, <1>2, <2>1, <2>3, <3>1
    <3>3. \A i, j \in 1..Len(traces') : traces'[i].id = traces'[j].id => i = j
      BY <2>1, <2>3, <3>1 DEF StoreInv, IdsAreFresh
    <3>. QED BY <1>3, <3>2, <3>3 DEF IdsAreFresh
  <2>6. TracesAreOfProcess'
    BY <1>1, <2>1, <2>3 DEF StoreInv, TracesAreOfProcess
  <2>7. CASE outcome = "other"
    <3>1. published' = published /\ t.event = NoEvent /\ t.status # "confirmed"
      BY <1>1, <2>1, <2>7
    <3>2. \A i \in 1..Len(traces') :
            /\ traces'[i].status = "confirmed" <=> traces'[i].event # NoEvent
            /\ traces'[i].event # NoEvent =>
                 traces'[i].event \in ((born + 1)..published) \ raised
      BY <2>3, <3>1 DEF StoreInv, TracesTellEvents
    <3>3. \A e \in ((born + 1)..published) \ raised :
            \E i \in 1..Len(traces') : traces'[i].event = e
      BY <2>3 DEF StoreInv, TracesTellEvents
    <3>4. \A i, j \in 1..Len(traces') :
            i < j /\ traces'[i].event # NoEvent /\ traces'[j].event # NoEvent
              => traces'[i].event < traces'[j].event
      BY <2>3, <3>1 DEF StoreInv, TracesTellEvents
    <3>5. TracesTellEvents'
      BY <1>1, <1>4, <2>2, <3>1, <3>2, <3>3, <3>4 DEF TracesTellEvents
    <3>. QED BY <2>4, <2>5, <2>6, <3>5 DEF StoreInv
  <2>8. CASE outcome = "confirmed"
    <3>1. published' = new /\ t.event = new /\ t.status = "confirmed" /\ NoEvent = 0
      BY <1>1, <2>1, <2>8 DEF NoEvent, new
    <3>2. new \notin raised
          /\ ((born + 1)..published') \ raised = (((born + 1)..published) \ raised) \cup {new}
      BY <1>2, <3>1
    <3>3. \A i \in 1..Len(traces') :
            /\ traces'[i].status = "confirmed" <=> traces'[i].event # NoEvent
            /\ traces'[i].event # NoEvent =>
                 traces'[i].event \in ((born + 1)..published') \ raised
      BY <1>2, <2>3, <3>1, <3>2 DEF StoreInv, TracesTellEvents
    <3>4. \A e \in ((born + 1)..published') \ raised :
            \E i \in 1..Len(traces') : traces'[i].event = e
      BY <2>3, <3>1, <3>2 DEF StoreInv, TracesTellEvents
    <3>5. \A i \in 1..Len(traces) : traces[i].event # NoEvent => traces[i].event < new
      BY <1>2 DEF StoreInv, TracesTellEvents
    <3>6. \A i, j \in 1..Len(traces') :
            i < j /\ traces'[i].event # NoEvent /\ traces'[j].event # NoEvent
              => traces'[i].event < traces'[j].event
      BY <2>3, <3>1, <3>5 DEF StoreInv, TracesTellEvents
    <3>7. TracesTellEvents'
      BY <1>1, <1>4, <2>2, <3>3, <3>4, <3>6 DEF TracesTellEvents
    <3>. QED BY <2>4, <2>5, <2>6, <3>7 DEF StoreInv
  <2>. QED BY <1>6, <2>7, <2>8
<1>. QED BY <1>5, <1>6


\* The traces on the next p positions after those the client has passed.
OnPage(p) ==
  {i \in 1..Len(traces) :
     Position(traces, i) > Len(given) /\ Position(traces, i) <= Len(given) + p}

\* Reading a page gives the client the next traces of the listing.
LEMMA BrowseEffect ==
  ASSUME StoreInv, Browse
  PROVE  /\ UNCHANGED <<scene, traces, catalogue, feed, evals, born, raised>>
         /\ limit' \in Nat /\ limit' # 0 /\ ended' \in BOOLEAN
         /\ limit = 0 => known' = Store!Ids /\ arrived' = 0
         /\ limit # 0 => known' = known /\ arrived' = arrived
         /\ \E p \in Nat :
              /\ given' \in Seq(Nat) /\ Len(given') = Len(given) + p
              /\ Range(given') = Range(given) \cup {traces[i].id : i \in OnPage(p)}
              /\ Len(given) + p <= Len(traces) \/ p = 0
              /\ ended' => \A k \in 1..Len(traces) :
                             k <= MaxRecent => k <= Len(given) + p
<1>1. /\ traces \in Seq(TraceEntry) /\ given \in Seq(Nat) /\ limit \in Nat
      /\ limit = 0 => given = <<>> /\ Len(given) = 0
      /\ Len(given) \in Nat /\ DOMAIN given = 1..Len(given)
  BY DEF StoreInv, StoreType
<1>2. UNCHANGED <<scene, traces, catalogue, feed, evals, born, raised>>
  BY DEF Browse, Store!FirstPage, Store!NextPage, history
<1>3. PICK n \in Nat :
        /\ n # 0 /\ limit' = n /\ Store!Receive(n, Len(given))
        /\ limit = 0 => known' = Store!Ids /\ arrived' = 0
        /\ limit # 0 => known' = known /\ arrived' = arrived
  <2>1. CASE Store!NextPage
    BY <1>1, <2>1 DEF Store!NextPage, Store!NotPaging
  <2>2. ASSUME NEW m \in Limits, Store!FirstPage(m)
        PROVE  /\ limit' = m /\ Store!Receive(m, Len(given)) /\ limit = 0
               /\ known' = Store!Ids /\ arrived' = 0 /\ m \in Nat /\ m # 0
    BY <1>1, <2>2, ConstantsType DEF Store!FirstPage, Store!NotPaging
  <2>. QED BY <2>1, <2>2 DEF Browse
<1>. DEFINE page == Store!Page(n, Len(given))
            ids  == [i \in DOMAIN page |-> page[i].id]
<1>4. given' = given \o ids
  BY <1>3 DEF Store!Receive
<1>41. ended' = (Len(page) < n)
  BY <1>3 DEF Store!Receive
<1>42. page = Store!Page(n, Len(given))
  OBVIOUS
<1>. HIDE DEF page
<1>5. /\ page \in Seq(TraceEntry) /\ Len(page) \in Nat /\ DOMAIN page = 1..Len(page)
      /\ \A k \in 1..Len(page) :
           Len(given) + k \in 1..Len(traces) /\ page[k] = Store!Newest[Len(given) + k]
      /\ Len(page) < n =>
           \A k \in 1..Len(traces) : k <= MaxRecent => k <= Len(given) + Len(page)
  <2>1. traces \in Seq(TraceEntry) /\ Len(given) \in Nat /\ n \in Nat
    BY <1>1
  <2>2. page \in Seq(TraceEntry) /\ Len(page) \in Nat /\ DOMAIN page = 1..Len(page)
    BY <1>42, <2>1, PageIsSlice
  <2>3. ASSUME NEW k \in 1..Len(page)
        PROVE  Len(given) + k \in 1..Len(traces) /\ page[k] = Store!Newest[Len(given) + k]
    BY <1>42, <2>1, PageIsSlice
  <2>4. Len(page) < n =>
           \A k \in 1..Len(traces) : k <= MaxRecent => k <= Len(given) + Len(page)
    BY <1>42, <2>1, PageIsSlice
  <2>. QED BY <2>2, <2>3, <2>4
<1>6. /\ ids \in Seq(Nat) /\ Len(ids) = Len(page)
      /\ \A k \in 1..Len(page) : ids[k] = page[k].id
  <2>1. ids \in [1..Len(page) -> Nat]
    BY <1>5, EntryType
  <2>. QED BY <1>5, <2>1
<1>. HIDE DEF ids
<1>7. /\ given' \in Seq(Nat) /\ Len(given') = Len(given) + Len(page)
      /\ \A k \in 1..Len(given) : given'[k] = given[k]
      /\ \A k \in 1..Len(page) :
           Len(given) + k \in 1..Len(given') /\ given'[Len(given) + k] = ids[k]
      /\ \A k \in 1..Len(given') : k \notin 1..Len(given) =>
           k - Len(given) \in 1..Len(page) /\ given'[k] = ids[k - Len(given)]
      /\ 1..Len(given) \subseteq 1..Len(given') /\ DOMAIN given' = 1..Len(given')
  <2>1. /\ given' \in Seq(Nat) /\ Len(given') = Len(given) + Len(ids)
        /\ \A k \in 1..Len(given) : given'[k] = given[k]
        /\ \A k \in 1..Len(given') : k > Len(given) =>
             /\ k - Len(given) \in 1..Len(ids) /\ given'[k] = ids[k - Len(given)]
    <3>1. given \in Seq(Nat) /\ ids \in Seq(Nat)
      BY <1>1, <1>6
    <3>. QED BY <1>4, <3>1
  <2>2. \A k \in 1..Len(given') : k \notin 1..Len(given) => k > Len(given)
    BY <1>1, <2>1
  <2>3. ASSUME NEW k \in 1..Len(page)
        PROVE  Len(given) + k \in 1..Len(given') /\ given'[Len(given) + k] = ids[k]
    <3>1. Len(given) + k \in 1..Len(given') /\ Len(given) + k > Len(given)
          /\ (Len(given) + k) - Len(given) = k
      BY <1>1, <1>5, <1>6, <2>1
    <3>. QED BY <2>1, <3>1
  <2>4. 1..Len(given) \subseteq 1..Len(given') /\ DOMAIN given' = 1..Len(given')
    BY <1>1, <1>5, <1>6, <2>1
  <2>. QED BY <1>6, <2>1, <2>2, <2>3, <2>4
<1>8. ASSUME NEW k \in 1..Len(page)
      PROVE  \E i \in OnPage(Len(page)) : ids[k] = traces[i].id
  <2>1. Len(given) + k \in 1..Len(traces) /\ ids[k] = Store!Newest[Len(given) + k].id
    BY <1>5, <1>6
  <2>2. PICK i \in 1..Len(traces) : Position(traces, i) = Len(given) + k
    BY <1>1, <2>1, PositionIsBijection
  <2>3. Store!Newest[Len(given) + k] = traces[i]
    BY <1>1, <2>2, NewestIsByPosition
  <2>4. i \in OnPage(Len(page))
    BY <1>1, <1>5, <2>2 DEF OnPage
  <2>. QED BY <2>1, <2>3, <2>4
<1>9. ASSUME NEW i \in OnPage(Len(page))
      PROVE  \E k \in 1..Len(page) : ids[k] = traces[i].id
  <2>1. Position(traces, i) \in 1..Len(traces) /\ i \in 1..Len(traces)
        /\ Position(traces, i) > Len(given)
        /\ Position(traces, i) <= Len(given) + Len(page) /\ Len(traces) \in Nat
    BY <1>1, AheadType, EntryType DEF OnPage
  <2>. DEFINE k == Position(traces, i) - Len(given)
  <2>2. k \in 1..Len(page) /\ Len(given) + k = Position(traces, i)
    BY <1>1, <1>5, <2>1
  <2>3. ids[k] = Store!Newest[Position(traces, i)].id
    BY <1>5, <1>6, <2>2
  <2>4. Store!Newest[Position(traces, i)] = traces[i]
    BY <1>1, <2>1, NewestIsByPosition
  <2>. QED BY <2>2, <2>3, <2>4
<1>10. Range(given') = Range(given) \cup {traces[i].id : i \in OnPage(Len(page))}
  <2>1. \A x \in Range(given') :
          x \in Range(given) \cup {traces[i].id : i \in OnPage(Len(page))}
    <3>. SUFFICES ASSUME NEW k \in 1..Len(given')
                  PROVE  given'[k] \in Range(given)
                                        \cup {traces[i].id : i \in OnPage(Len(page))}
      BY <1>7 DEF Range
    <3>1. CASE k \in 1..Len(given)
      BY <1>1, <1>7, <3>1 DEF Range
    <3>2. CASE k \notin 1..Len(given)
      <4>1. k - Len(given) \in 1..Len(page) /\ given'[k] = ids[k - Len(given)]
        BY <1>7, <3>2
      <4>2. PICK i \in OnPage(Len(page)) : ids[k - Len(given)] = traces[i].id
        BY <1>8, <4>1
      <4>. QED BY <4>1, <4>2
    <3>. QED BY <3>1, <3>2
  <2>2. \A x \in Range(given) : x \in Range(given')
    BY <1>1, <1>7 DEF Range
  <2>3. \A i \in OnPage(Len(page)) : traces[i].id \in Range(given')
    <3>. SUFFICES ASSUME NEW i \in OnPage(Len(page))
                  PROVE  traces[i].id \in Range(given')
      OBVIOUS
    <3>1. PICK k \in 1..Len(page) : ids[k] = traces[i].id
      BY <1>9
    <3>. QED BY <1>7, <3>1 DEF Range
  <2>. QED BY <2>1, <2>2, <2>3
<1>11. Len(given) + Len(page) <= Len(traces) \/ Len(page) = 0
  <2>1. Len(page) # 0 => Len(page) \in 1..Len(page)
    BY <1>5
  <2>2. Len(page) # 0 => Len(given) + Len(page) \in 1..Len(traces)
    BY <1>5, <2>1
  <2>3. Len(traces) \in Nat
    BY <1>1, EntryType
  <2>. QED BY <2>2, <2>3
<1>12. ended' => \A k \in 1..Len(traces) :
                   k <= MaxRecent => k <= Len(given) + Len(page)
  BY <1>41, <1>5
<1>13. ended' \in BOOLEAN
  BY <1>41
<1>14. limit' \in Nat /\ limit' # 0
       /\ (limit = 0 => known' = Store!Ids /\ arrived' = 0)
       /\ (limit # 0 => known' = known /\ arrived' = arrived)
  BY <1>3
<1>15. \E p \in Nat :
         /\ given' \in Seq(Nat) /\ Len(given') = Len(given) + p
         /\ Range(given') = Range(given) \cup {traces[i].id : i \in OnPage(p)}
         /\ Len(given) + p <= Len(traces) \/ p = 0
         /\ ended' => \A k \in 1..Len(traces) :
                        k <= MaxRecent => k <= Len(given) + p
  BY <1>5, <1>7, <1>10, <1>11, <1>12
<1>. QED BY <1>2, <1>13, <1>14, <1>15

\* Paging gives out and remembers the ids of stored traces only.
LEMMA BrowseKeepsStore ==
  ASSUME StoreInv, Browse
  PROVE  StoreInv'
<1>1. /\ UNCHANGED <<scene, traces, pc, flows, published, evals, born, raised>>
      /\ limit' \in Nat /\ limit' # 0 /\ ended' \in BOOLEAN
      /\ limit = 0 => known' = Store!Ids /\ arrived' = 0
      /\ limit # 0 => known' = known /\ arrived' = arrived
  BY BrowseEffect DEF catalogue, feed
<1>2. PICK p \in Nat :
        /\ given' \in Seq(Nat)
        /\ Range(given') = Range(given) \cup {traces[i].id : i \in OnPage(p)}
  BY BrowseEffect
<1>3. \A i \in 1..Len(traces) : traces[i].id \in Nat /\ traces[i].id <= evals
  BY EntryType DEF StoreInv, StoreType, IdsAreFresh
<1>4. \A x \in Store!Ids : x \in Nat /\ x <= evals
  <2>1. DOMAIN traces = 1..Len(traces)
    BY EntryType DEF StoreInv, StoreType
  <2>. QED BY <1>3, <2>1 DEF Store!Ids
<1>5. StoreType'
  BY <1>1, <1>2, <1>4 DEF StoreInv, StoreType
<1>6. \A x \in known' \cup Range(given') : x <= evals
  BY <1>1, <1>2, <1>3, <1>4 DEF StoreInv, IdsAreFresh, OnPage
<1>7. IdsAreFresh'
  BY <1>1, <1>6 DEF StoreInv, IdsAreFresh
<1>8. TracesAreOfProcess' /\ TracesTellEvents'
  BY <1>1 DEF StoreInv, TracesAreOfProcess, TracesTellEvents
<1>. QED BY <1>5, <1>7, <1>8 DEF StoreInv

\* StoreInv is inductive, given the catalogue and the feed.
LEMMA StoreInvStep ==
  ASSUME StoreInv, CatalogInv, FeedInv, [Next]_vars
  PROVE  StoreInv'
<1>1. ASSUME NEW p \in Range(Paths), NEW c \in Contents \cup {Absent}, Edit(p, c)
      PROVE  StoreInv'
  <2>1. UNCHANGED <<scene, store, evals, raised, born, published, pc, flows>>
    BY <1>1 DEF Edit, history, feed, Catalog!Edit, Catalog!registryVars
  <2>. QED BY <2>1, StoreKept DEF StoreInv, TracesAreOfProcess
<1>2. CASE StartUp
  <2>1. UNCHANGED <<scene, store, evals, raised, born, published>>
    BY <1>2 DEF StartUp, history, feed
  <2>2. pc # "serving"
    BY <1>2 DEF StartUp, Catalog!Start, Catalog!LoadFile, Catalog!LoadFails, Catalog!Ready
  <2>3. traces = <<>>
    BY <2>2 DEF StoreInv, TracesAreOfProcess
  <2>. QED BY <2>1, <2>3, StoreKept
<1>3. CASE Poll
  <2>1. UNCHANGED <<scene, store, evals, raised, born, published, pc, flows>>
    BY <1>3 DEF Poll, history, catalogue, Feed!Poll
  <2>. QED BY <2>1, StoreKept DEF StoreInv, TracesAreOfProcess
<1>4. CASE UNCHANGED vars
  <2>1. UNCHANGED <<scene, store, evals, raised, born, published, pc, flows>>
    BY <1>4 DEF vars, history, catalogue, feed
  <2>. QED BY <2>1, StoreKept DEF StoreInv, TracesAreOfProcess
<1>. QED BY <1>1, <1>2, <1>3, <1>4, RestartKeepsStore, EvaluateKeepsStore,
            BrowseKeepsStore DEF Next

\* StoreInv holds of an empty store.
LEMMA StoreInvInit ==
  ASSUME Init
  PROVE  StoreInv
<1>1. /\ scene \in Scenes /\ evals = 0 /\ raised = {} /\ born = 0 /\ published = 0
      /\ traces = <<>> /\ limit = 0 /\ given = <<>> /\ ended = FALSE
      /\ known = {} /\ arrived = 0
  BY DEF Init, Feed!Init, Store!Init, Store!NotPaging
<1>2. 1..Len(traces) = {} /\ Range(given) = {} /\ (born + 1)..published = {}
  BY <1>1, RangeEmpty, 1..0 = {}
<1>3. StoreType /\ IdsAreFresh
  <2>1. traces \in Seq(TraceEntry) /\ given \in Seq(Nat)
    BY <1>1
  <2>2. StoreType
    BY <1>1, <2>1 DEF StoreType
  <2>3. IdsAreFresh
    BY <1>1, <1>2 DEF IdsAreFresh
  <2>. QED BY <2>2, <2>3
<1>4. TracesAreOfProcess /\ TracesTellEvents
  BY <1>1, <1>2 DEF TracesAreOfProcess, TracesTellEvents
<1>. QED BY <1>3, <1>4 DEF StoreInv

\* The trace store is of its type, its ids are fresh, its traces are of this
\* process and tell of its events.
THEOREM StoreCorrect == Spec => []StoreInv
<1>1. Init => StoreInv
  BY StoreInvInit
<1>2. StoreInv /\ CatalogInv /\ FeedInv /\ [Next]_vars => StoreInv'
  BY StoreInvStep
<1>. QED BY <1>1, <1>2, CatalogCorrect, FeedCorrect, PTL DEF Spec

\* What simulate finds by a stored trace's flow id is the flow, body and all,
\* the trace was evaluated with.
THEOREM SimulationIsFaithful == Spec => []SimulationReplaysItsFlow
<1>1. StoreInv /\ CatalogInv => SimulationReplaysItsFlow
  <2>. SUFFICES ASSUME StoreInv, CatalogInv, NEW t \in Range(traces)
                PROVE  FlowFor(t) = {t.flow}
    BY DEF SimulationReplaysItsFlow
  <2>1. t.flow \in Range(flows)
    BY EntryType DEF StoreInv, StoreType, TracesAreOfProcess, Range
  <2>2. DOMAIN flows = 1..Len(flows)
    BY DEF CatalogInv, CatalogType
  <2>3. \A c, d \in Range(flows) : Catalog!KeyOf(c) = Catalog!KeyOf(d) => c = d
    BY <2>2 DEF CatalogInv, CatalogExact, SameKey, Range
  <2>. QED BY <2>1, <2>3 DEF FlowFor
<1>. QED BY <1>1, StoreCorrect, CatalogCorrect, PTL


-----------------------------------------------------------------------------
(* Events and traces.                                                      *)

\* Any set of traces is finite.
LEMMA SomeTracesFinite ==
  ASSUME traces \in Seq(TraceEntry), NEW S \in SUBSET (1..Len(traces))
  PROVE  IsFiniteSet(S) /\ Cardinality(S) \in Nat
<1>1. 1 \in Int /\ Len(traces) \in Int
  BY EntryType
<1>2. IsFiniteSet(1..Len(traces))
  BY <1>1, FS_Interval
<1>. QED BY <1>2, FS_Subset, FS_CardinalityType

\* A store within its listing is counted whole.
LEMMA CountIsOfAll ==
  ASSUME traces \in Seq(TraceEntry), Len(traces) <= MaxRecent, NEW status
  PROVE  Store!Count(MaxRecent, status)
           = Cardinality({i \in 1..Len(traces) : traces[i].status = status})
<1>. DEFINE new == Store!Newest
            N   == Len(traces)
            S   == {i \in 1..N : traces[i].status = status}
            T   == {k \in 1..N : new[k].status = status}
<1>1. new \in Seq(TraceEntry) /\ Len(new) = N /\ N \in Nat /\ DOMAIN new = 1..N
  BY NewestIsByPosition, EntryType
<1>2. SubSeq(new, 1, N) = new
  <2>. HIDE DEF new, N
  <2>. QED BY <1>1
<1>3. Store!ListRecent(MaxRecent) = new
  <2>1. (IF MaxRecent < MaxRecent THEN MaxRecent ELSE MaxRecent) = MaxRecent
    OBVIOUS
  <2>2. (IF MaxRecent < Len(new) THEN MaxRecent ELSE Len(new)) = N
    <3>1. N <= MaxRecent /\ MaxRecent \in Nat
      BY ConstantsType
    <3>. HIDE DEF new, N
    <3>. QED BY <1>1, <3>1
  <2>. QED BY <1>2, <2>1, <2>2 DEF Store!ListRecent, Store!Cut
<1>4. Store!Count(MaxRecent, status) = Cardinality(T)
  BY <1>1, <1>3, SameCardinality DEF Store!Count
<1>. DEFINE f == [i \in S |-> Position(traces, i)]
<1>5. \A i \in 1..N : Position(traces, i) \in 1..N
        /\ new[Position(traces, i)] = traces[i]
  BY NewestIsByPosition, PositionIsBijection
<1>6. f \in [S -> T]
  BY <1>5
<1>7. \A i, j \in S : f[i] = f[j] => i = j
  BY PositionIsBijection
<1>8. ASSUME NEW k \in T PROVE \E i \in S : f[i] = k
  <2>1. PICK i \in 1..N : Position(traces, i) = k
    BY PositionIsBijection
  <2>2. i \in S
    BY <1>5, <2>1
  <2>. QED BY <2>1, <2>2
<1>. HIDE DEF f
<1>9. f \in Bijection(S, T)
  BY <1>6, <1>7, <1>8, Fun_IsBij
<1>10. ExistsBijection(S, T) /\ IsFiniteSet(S)
  BY <1>9, Fun_ExistsBij, SomeTracesFinite
<1>11. Cardinality(T) = Cardinality(S)
  BY <1>10, FS_Bijection
<1>. QED BY <1>4, <1>11

\* The event list and the trace list of a process tell one story.
THEOREM OneStory == Spec => []EventsMatchTraces
<1>1. StoreInv /\ FeedInv => EventsMatchTraces
  <2>. SUFFICES ASSUME StoreInv, FeedInv PROVE EventsMatchTraces
    OBVIOUS
  <2>. DEFINE tales  == {i \in DOMAIN traces : traces[i].event # NoEvent}
              events == {k \in DOMAIN bus : bus[k] > born /\ bus[k] \notin raised}
              at     == [i \in tales |-> traces[i].event - Base]
  <2>1. /\ traces \in Seq(TraceEntry) /\ DOMAIN traces = 1..Len(traces)
        /\ \A i \in 1..Len(traces) : traces[i].event \in Nat
    BY EntryType DEF StoreInv, StoreType
  <2>2. /\ Base \in Nat /\ published \in Nat /\ born \in Nat /\ Base <= born
        /\ Len(bus) = published - Base /\ DOMAIN bus = 1..Len(bus)
        /\ \A k \in 1..Len(bus) : bus[k] = Base + k
        /\ NoEvent = 0
    BY BaseType DEF FeedInv, FeedType, BusIsRun, Base, NoEvent
  <2>3. ASSUME NEW e \in (born + 1)..published
        PROVE  e - Base \in 1..Len(bus) /\ bus[e - Base] = e /\ e > born /\ e # NoEvent
    <3>1. e - Base \in 1..Len(bus) /\ Base + (e - Base) = e /\ e > born /\ e # 0
      BY <2>2
    <3>. QED BY <2>2, <3>1
  <2>4. ASSUME NEW i \in tales
        PROVE  /\ traces[i].event \in ((born + 1)..published) \ raised
               /\ at[i] \in events /\ bus[at[i]] = traces[i].event
               /\ at[i] = traces[i].event - Base
    <3>1. traces[i].event \in ((born + 1)..published) \ raised
      BY <2>1 DEF StoreInv, TracesTellEvents
    <3>. QED BY <2>2, <2>3, <3>1
  <2>5. ASSUME NEW k \in events
        PROVE  \E i \in tales : at[i] = k
    <3>1. k \in 1..Len(bus) /\ bus[k] = Base + k /\ bus[k] \notin raised /\ bus[k] > born
          /\ k \in Nat
      BY <2>2
    <3>2. bus[k] \in ((born + 1)..published) \ raised /\ bus[k] - Base = k
          /\ bus[k] # NoEvent
      BY <2>2, <3>1
    <3>3. PICK i \in 1..Len(traces) : traces[i].event = bus[k]
      BY <3>2 DEF StoreInv, TracesTellEvents
    <3>4. i \in tales
      BY <2>1, <3>2, <3>3
    <3>. QED BY <2>4, <3>2, <3>3, <3>4
  <2>6. \A i, j \in tales : i < j => traces[i].event < traces[j].event
    BY <2>1 DEF StoreInv, TracesTellEvents
  <2>7. \A i, j \in tales : i < j => at[i] < at[j]
    <3>. SUFFICES ASSUME NEW i \in tales, NEW j \in tales, i < j PROVE at[i] < at[j]
      OBVIOUS
    <3>1. traces[i].event \in Nat /\ traces[j].event \in Nat
          /\ traces[i].event < traces[j].event
      BY <2>1, <2>6
    <3>2. at[i] = traces[i].event - Base /\ at[j] = traces[j].event - Base
      BY <2>4
    <3>. QED BY <2>2, <3>1, <3>2
  <2>8. at \in [tales -> events]
    BY <2>4
  <2>9. DOMAIN at = tales /\ \A i \in tales : bus[at[i]] = traces[i].event
    BY <2>4
  <2>. HIDE DEF at
  <2>10. \A i, j \in tales : at[i] = at[j] => i = j
    <3>. SUFFICES ASSUME NEW i \in tales, NEW j \in tales, at[i] = at[j], i # j
                  PROVE  FALSE
      OBVIOUS
    <3>1. i \in Nat /\ j \in Nat /\ at[i] \in Nat
      BY <2>1, <2>2, <2>8
    <3>2. i < j \/ j < i
      BY <3>1
    <3>. QED BY <2>7, <3>1, <3>2
  <2>11. Range(at) = events
    BY <2>5, <2>8, <2>9 DEF Range
  <2>12. raised \subseteq Range(bus)
    <3>1. \A e \in (born + 1)..published : e \in Range(bus)
      BY <2>2, <2>3 DEF Range
    <3>. QED BY <3>1 DEF StoreInv, TracesTellEvents
  <2>13. Len(traces) <= MaxRecent =>
           Store!Count(MaxRecent, "confirmed") = Cardinality(events)
    <3>1. at \in Bijection(tales, events)
      BY <2>5, <2>8, <2>10, Fun_IsBij
    <3>2. IsFiniteSet(tales)
      BY <2>1, SomeTracesFinite
    <3>3. Cardinality(events) = Cardinality(tales)
      <4>1. ExistsBijection(tales, events)
        BY <3>1, Fun_ExistsBij
      <4>. HIDE DEF tales, events
      <4>. QED BY <3>2, <4>1, FS_Bijection
    <3>4. tales = {i \in 1..Len(traces) : traces[i].status = "confirmed"}
      BY <2>1 DEF StoreInv, TracesTellEvents
    <3>5. Len(traces) <= MaxRecent =>
            Store!Count(MaxRecent, "confirmed")
              = Cardinality({i \in 1..Len(traces) : traces[i].status = "confirmed"})
      BY <2>1, CountIsOfAll
    <3>. QED BY <3>3, <3>4, <3>5
  <2>14. \E g \in [tales -> events] :
           /\ Range(g) = events
           /\ \A i \in tales : bus[g[i]] = traces[i].event
           /\ \A i, j \in tales : i < j => g[i] < g[j]
    BY <2>7, <2>8, <2>9, <2>11
  <2>. QED BY <2>12, <2>13, <2>14 DEF EventsMatchTraces
<1>. QED BY <1>1, StoreCorrect, FeedCorrect, PTL


-----------------------------------------------------------------------------
(* Paging.                                                                 *)

\* The ids a client was given are finitely many.
LEMMA RangeIsFinite ==
  ASSUME NEW g \in Seq(Nat)
  PROVE  IsFiniteSet(Range(g)) /\ Cardinality(Range(g)) \in Nat
<1>1. g \in [1..Len(g) -> Nat] /\ Len(g) \in Int /\ 1 \in Int
  OBVIOUS
<1>2. IsFiniteSet(1..Len(g))
  BY <1>1, FS_Interval
<1>3. g \in Surjection(1..Len(g), Range(g))
  BY <1>1, Fun_RangeProperties
<1>4. IsFiniteSet(Range(g))
  BY <1>2, <1>3, FS_Surjection
<1>. QED BY <1>4, FS_CardinalityType

IdsOf(S) == {traces[i].id : i \in S}

\* There are as many ids as traces.
LEMMA IdsCount ==
  ASSUME StoreInv, NEW S \in SUBSET (1..Len(traces))
  PROVE  IsFiniteSet(IdsOf(S)) /\ Cardinality(IdsOf(S)) = Cardinality(S)
<1>. DEFINE f == [i \in S |-> traces[i].id]
<1>1. f \in [S -> IdsOf(S)]
  BY DEF IdsOf
<1>2. \A i, j \in S : f[i] = f[j] => i = j
  BY DEF StoreInv, IdsAreFresh
<1>3. \A x \in IdsOf(S) : \E i \in S : f[i] = x
  BY DEF IdsOf
<1>. HIDE DEF f
<1>4. f \in Bijection(S, IdsOf(S))
  BY <1>1, <1>2, <1>3, Fun_IsBij
<1>5. IsFiniteSet(S)
  BY SomeTracesFinite DEF StoreInv, StoreType
<1>6. ExistsBijection(S, IdsOf(S))
  BY <1>4, Fun_ExistsBij
<1>. QED BY <1>5, <1>6, FS_Bijection

\* A page of p traces holds p traces.
LEMMA OnPageCount ==
  ASSUME StoreInv, NEW p \in Nat, Len(given) + p <= Len(traces) \/ p = 0
  PROVE  OnPage(p) \in SUBSET (1..Len(traces)) /\ Cardinality(OnPage(p)) = p
<1>. DEFINE L == Len(given)
            f == [i \in OnPage(p) |-> Position(traces, i)]
<1>1. /\ traces \in Seq(TraceEntry) /\ Len(traces) \in Nat /\ L \in Nat
      /\ \A i \in 1..Len(traces) : Position(traces, i) \in 1..Len(traces)
  BY EntryType, AheadType DEF StoreInv, StoreType
<1>2. OnPage(p) \in SUBSET (1..Len(traces))
  BY DEF OnPage
<1>3. f \in [OnPage(p) -> (L + 1)..(L + p)]
  <2>1. ASSUME NEW i \in OnPage(p) PROVE Position(traces, i) \in (L + 1)..(L + p)
    BY <1>1 DEF OnPage
  <2>. QED BY <2>1
<1>4. \A i, j \in OnPage(p) : f[i] = f[j] => i = j
  BY <1>1, <1>2, PositionIsBijection
<1>5. ASSUME NEW k \in (L + 1)..(L + p) PROVE \E i \in OnPage(p) : f[i] = k
  <2>1. k \in 1..Len(traces) /\ k > L /\ k <= L + p
    BY <1>1
  <2>2. PICK i \in 1..Len(traces) : Position(traces, i) = k
    BY <1>1, <2>1, PositionIsBijection
  <2>3. i \in OnPage(p)
    BY <2>1, <2>2 DEF OnPage
  <2>. QED BY <2>2, <2>3
<1>. HIDE DEF f
<1>6. f \in Bijection(OnPage(p), (L + 1)..(L + p))
  BY <1>3, <1>4, <1>5, Fun_IsBij
<1>7. IsFiniteSet(OnPage(p))
  BY <1>1, <1>2, SomeTracesFinite
<1>8. Cardinality((L + 1)..(L + p)) = Cardinality(OnPage(p))
  <2>1. ExistsBijection(OnPage(p), (L + 1)..(L + p))
    BY <1>6, Fun_ExistsBij
  <2>. QED BY <1>7, <2>1, FS_Bijection
<1>9. Cardinality((L + 1)..(L + p)) = p
  <2>1. L + 1 \in Int /\ L + p \in Int
    BY <1>1
  <2>2. Cardinality((L + 1)..(L + p))
          = IF L + 1 > L + p THEN 0 ELSE (L + p) - (L + 1) + 1
    BY <2>1, FS_Interval
  <2>. QED BY <1>1, <2>2
<1>. QED BY <1>2, <1>8, <1>9

\* The repetitions to come are finitely many, and none before the first page.
LEMMA BehindType ==
  ASSUME StoreType
  PROVE  /\ Behind \in SUBSET (1..Len(traces))
         /\ IsFiniteSet(Behind) /\ Cardinality(Behind) \in Nat
         /\ given = <<>> => Behind = {} /\ Cardinality(Behind) = 0
<1>1. Behind \in SUBSET (1..Len(traces))
  BY DEF Behind
<1>2. IsFiniteSet(Behind) /\ Cardinality(Behind) \in Nat
  BY <1>1, SomeTracesFinite DEF StoreType
<1>3. given = <<>> => Behind = {}
  BY RangeEmpty DEF Behind
<1>. QED BY <1>1, <1>2, <1>3, FS_EmptySet

\* Reading a page covers it, and turns expected repetitions into given ones.
LEMMA BrowseKeepsPages ==
  ASSUME StoreInv, PagesAreCovered, Browse
  PROVE  PagesAreCovered'
<1>1. /\ traces' = traces
      /\ limit = 0 => known' = Store!Ids /\ arrived' = 0
      /\ limit # 0 => known' = known /\ arrived' = arrived
  BY BrowseEffect
<1>2. PICK p \in Nat :
        /\ given' \in Seq(Nat) /\ Len(given') = Len(given) + p
        /\ Range(given') = Range(given) \cup {traces[i].id : i \in OnPage(p)}
        /\ Len(given) + p <= Len(traces) \/ p = 0
        /\ ended' => \A k \in 1..Len(traces) :
                       k <= MaxRecent => k <= Len(given) + p
  BY BrowseEffect
<1>. DEFINE L == Len(given)
            G == Range(given)
            O == OnPage(p)
            B == Behind
            Place(i) == Position(traces, i)
<1>3. /\ traces \in Seq(TraceEntry) /\ given \in Seq(Nat) /\ Len(traces) \in Nat
      /\ L \in Nat /\ arrived \in Nat
      /\ limit = 0 => given = <<>> /\ L = 0 /\ arrived = 0
      /\ \A i \in 1..Len(traces) : Place(i) \in 1..Len(traces) /\ Place(i) \in Nat
                                   /\ Place(i) >= 1
  BY EntryType, AheadType DEF StoreInv, StoreType
<1>4. /\ O \in SUBSET (1..Len(traces)) /\ Cardinality(O) = p
      /\ \A i \in 1..Len(traces) : i \in O <=> Place(i) > L /\ Place(i) <= L + p
      /\ Range(given') = G \cup IdsOf(O)
  BY <1>2, OnPageCount DEF OnPage, IdsOf
<1>5. /\ B \in SUBSET (1..Len(traces)) /\ IsFiniteSet(B) /\ Cardinality(B) \in Nat
      /\ \A i \in 1..Len(traces) : i \in B <=> Place(i) > L /\ traces[i].id \in G
      /\ limit = 0 => Cardinality(B) = 0
  BY <1>3, BehindType DEF Behind, StoreInv
<1>6. IsFiniteSet(G) /\ Cardinality(G) \in Nat /\ (limit = 0 => Cardinality(G) = 0)
  BY <1>3, RangeIsFinite, RangeEmpty, FS_EmptySet
<1>. HIDE DEF Place, L, G, O, B
<1>7. ASSUME NEW i \in 1..Len(traces), traces[i].id \in known',
             Place(i) <= L + p \/ (ended' /\ Place(i) <= MaxRecent)
      PROVE  traces[i].id \in Range(given')
  <2>1. Place(i) <= L + p
    BY <1>2, <1>3, <1>7 DEF L
  <2>2. CASE Place(i) > L
    BY <1>4, <2>1, <2>2 DEF IdsOf
  <2>3. CASE ~(Place(i) > L)
    <3>1. Place(i) <= L /\ limit # 0
      BY <1>3, <2>3
    <3>2. traces[i].id \in known /\ Passed(i)
      BY <1>1, <1>7, <3>1 DEF Passed, Place, L
    <3>3. traces[i].id \in G
      BY <3>2 DEF PagesAreCovered, G
    <3>. QED BY <1>4, <3>3
  <2>. QED BY <2>2, <2>3
<1>8. Behind' = B \ O
  <2>1. Behind' = {i \in 1..Len(traces) : Place(i) > L + p /\ traces[i].id \in Range(given')}
    BY <1>1, <1>2 DEF Behind, Place, L
  <2>2. ASSUME NEW i \in 1..Len(traces), traces[i].id \in IdsOf(O) PROVE i \in O
    BY <1>4, <2>2 DEF IdsOf, StoreInv, IdsAreFresh
  <2>3. ASSUME NEW i \in 1..Len(traces)
        PROVE  (Place(i) > L + p /\ traces[i].id \in Range(given')) <=> i \in B \ O
    BY <1>3, <1>4, <1>5, <2>2
  <2>. QED BY <1>5, <2>1, <2>3
<1>9. Cardinality(B \ O) = Cardinality(B) - Cardinality(B \cap O)
  BY <1>5, FS_Difference
<1>10. /\ IsFiniteSet(IdsOf(O)) /\ Cardinality(IdsOf(O)) = p
  BY <1>4, IdsCount
<1>11. Cardinality(Range(given')) = Cardinality(G) + p - Cardinality(G \cap IdsOf(O))
  BY <1>4, <1>6, <1>10, FS_Union
<1>12. Cardinality(G \cap IdsOf(O)) = Cardinality(B \cap O)
  <2>1. G \cap IdsOf(O) = IdsOf(B \cap O)
    BY <1>4, <1>5 DEF IdsOf
  <2>2. B \cap O \in SUBSET (1..Len(traces))
    BY <1>5
  <2>. QED BY <2>1, <2>2, IdsCount
<1>13. Cardinality(B \cap O) \in Nat
  <2>1. IsFiniteSet(B \cap O)
    BY <1>5, FS_Intersection
  <2>. QED BY <2>1, FS_CardinalityType
<1>14. Len(given') - Cardinality(Range(given')) + Cardinality(Behind')
         = L - Cardinality(G) + Cardinality(B)
  <2>1. Len(given') = L + p
    BY <1>2 DEF L
  <2>. QED BY <1>3, <1>5, <1>6, <1>8, <1>9, <1>11, <1>12, <1>13, <2>1
<1>15. L - Cardinality(G) + Cardinality(B) <= arrived
  BY DEF PagesAreCovered, L, G, B
<1>16. L - Cardinality(G) + Cardinality(B) <= arrived'
  BY <1>1, <1>3, <1>5, <1>6, <1>15
<1>17. Len(given') - Cardinality(Range(given')) + Cardinality(Behind') <= arrived'
  BY <1>14, <1>16
<1>18. \A i \in 1..Len(traces') :
         traces'[i].id \in known'
         /\ (Position(traces', i) <= Len(given')
               \/ (ended' /\ Position(traces', i) <= MaxRecent))
           => traces'[i].id \in Range(given')
  BY <1>1, <1>2, <1>7 DEF Place, L
<1>. QED BY <1>17, <1>18 DEF PagesAreCovered, Passed


\* Steps that leave the store alone.
LEMMA PagesKept ==
  ASSUME PagesAreCovered, UNCHANGED store
  PROVE  PagesAreCovered'
<1>1. UNCHANGED <<traces, given, ended, known, arrived>>
  BY DEF store
<1>2. Behind' = Behind
  BY <1>1 DEF Behind
<1>3. \A i : Passed(i)' <=> Passed(i)
  BY <1>1 DEF Passed
<1>. QED BY <1>1, <1>2, <1>3 DEF PagesAreCovered

\* A lost store owes the client nothing.
LEMMA RestartKeepsPages ==
  ASSUME StoreInv, PagesAreCovered, Restart
  PROVE  PagesAreCovered'
<1>1. traces' = <<>> /\ UNCHANGED <<given, arrived>>
  BY DEF Restart, Store!Lose, Store!pagerVars
<1>2. 1..Len(traces') = {}
  BY <1>1, 1..0 = {}
<1>3. Behind' = {} /\ Cardinality(Behind') = 0
  BY <1>2, FS_EmptySet DEF Behind
<1>4. /\ Len(given) \in Nat /\ Cardinality(Range(given)) \in Nat /\ arrived \in Nat
      /\ Cardinality(Behind) \in Nat
  <2>1. given \in Seq(Nat) /\ Len(given) \in Nat /\ arrived \in Nat
    BY DEF StoreInv, StoreType
  <2>2. Cardinality(Range(given)) \in Nat
    BY <2>1, RangeIsFinite
  <2>3. Cardinality(Behind) \in Nat
    BY BehindType DEF StoreInv
  <2>. QED BY <2>1, <2>2, <2>3
<1>5. Len(given) - Cardinality(Range(given)) + Cardinality(Behind) <= arrived
  BY DEF PagesAreCovered
<1>6. Len(given') - Cardinality(Range(given')) + Cardinality(Behind') <= arrived'
  BY <1>1, <1>3, <1>4, <1>5
<1>. QED BY <1>2, <1>6 DEF PagesAreCovered

\* An arrival uncovers nothing, and makes one repetition due at most.
LEMMA EvaluateKeepsPages ==
  ASSUME StoreInv, CatalogInv, FeedInv, PagesAreCovered, NEW q \in Asked,
         NEW at \in scene.times, NEW outcome \in {"confirmed", "raised", "other"},
         Evaluate(q[1], q[2], at, outcome), StoreInv'
  PROVE  PagesAreCovered'
<1>1. CASE outcome = "raised"
  BY <1>1, EvaluateEffect, PagesKept
<1>2. CASE outcome # "raised"
  <2>1. PICK t \in TraceEntry : traces' = Append(traces, t) /\ t.id = evals + 1
    BY <1>2, EvaluateEffect
  <2>2. /\ UNCHANGED <<limit, given, ended, known>>
        /\ arrived' = IF limit = 0 THEN 0 ELSE arrived + 1
    BY <1>2, EvaluateEffect
  <2>. DEFINE N == Len(traces)
              L == Len(given)
              Old(i) == Position(traces, i)
              Moved(i) == Position(traces', i)
              Edge == {i \in 1..N : Old(i) = L}
  <2>3. /\ traces \in Seq(TraceEntry) /\ N \in Nat /\ L \in Nat /\ arrived \in Nat
        /\ evals \in Nat
        /\ \A i \in 1..N : Old(i) \in Nat /\ Old(i) >= 1
        /\ \A i, j \in 1..N : Old(i) = Old(j) => i = j
        /\ limit = 0 => given = <<>>
    <3>1. traces \in Seq(TraceEntry) /\ N \in Nat /\ L \in Nat /\ arrived \in Nat
          /\ evals \in Nat /\ (limit = 0 => given = <<>>)
      BY EntryType DEF StoreInv, StoreType
    <3>2. \A i \in 1..N : Old(i) \in 1..N
      BY <3>1, AheadType
    <3>3. \A i \in 1..N : Old(i) \in Nat /\ Old(i) >= 1
      BY <3>1, <3>2
    <3>4. \A i, j \in 1..N : Old(i) = Old(j) => i = j
      BY <3>1, PositionIsBijection
    <3>. QED BY <3>1, <3>3, <3>4
  <2>4. /\ \A i \in 1..N : traces'[i] = traces[i]
        /\ traces'[N + 1] = t
        /\ 1..Len(traces') = (1..N) \cup {N + 1}
    BY <2>1, <2>3
  <2>5. ASSUME NEW i \in 1..N
        PROVE  Moved(i) \in Nat /\ Old(i) <= Moved(i) /\ Moved(i) <= Old(i) + 1
    <3>1. Moved(i) \in {Old(i), Old(i) + 1}
      BY <2>1, <2>3, ArrivalMovesBack
    <3>. HIDE DEF Moved, Old
    <3>. QED BY <2>3, <3>1
  <2>6. t.id \notin known /\ t.id \notin Range(given)
    BY <2>1, <2>3 DEF StoreInv, IdsAreFresh
  <2>7. ASSUME NEW i \in 1..Len(traces'), traces'[i].id \in known',
               \/ Moved(i) <= Len(given')
               \/ ended' /\ Moved(i) <= MaxRecent
        PROVE  traces'[i].id \in Range(given')
    <3>1. i \in 1..N /\ traces'[i] = traces[i]
      BY <2>2, <2>4, <2>6, <2>7
    <3>2. Old(i) <= L \/ (ended /\ Old(i) <= MaxRecent)
      <4>1. Old(i) <= Moved(i) /\ Moved(i) \in Nat /\ Old(i) \in Nat
            /\ MaxRecent \in Nat
        BY <2>3, <2>5, <3>1, ConstantsType
      <4>2. given' = given /\ ended' = ended
        BY <2>2
      <4>. HIDE DEF Moved, Old
      <4>. QED BY <2>3, <2>7, <4>1, <4>2
    <3>3. Passed(i)
      BY <3>2 DEF Passed
    <3>. QED BY <2>2, <2>7, <3>1, <3>3 DEF PagesAreCovered
  <2>8. Behind' \subseteq Behind \cup Edge
    <3>. SUFFICES ASSUME NEW i \in Behind' PROVE i \in Behind \cup Edge
      OBVIOUS
    <3>1. i \in 1..Len(traces') /\ Moved(i) > L /\ traces'[i].id \in Range(given)
      BY <2>2 DEF Behind
    <3>2. i \in 1..N /\ traces'[i] = traces[i]
      BY <2>4, <2>6, <3>1
    <3>3. Old(i) >= L /\ Old(i) \in Nat
      <4>1. Moved(i) <= Old(i) + 1 /\ Moved(i) \in Nat /\ Old(i) \in Nat
        BY <2>3, <2>5, <3>2
      <4>. HIDE DEF Moved, Old
      <4>. QED BY <2>3, <3>1, <4>1
    <3>4. Old(i) > L \/ Old(i) = L
      <4>. HIDE DEF Old
      <4>. QED BY <2>3, <3>3
    <3>. QED BY <3>1, <3>2, <3>4 DEF Behind
  <2>9. /\ IsFiniteSet(Behind) /\ Cardinality(Behind) \in Nat
        /\ given = <<>> => Cardinality(Behind) = 0
    BY BehindType DEF StoreInv
  <2>10. /\ Cardinality(Behind') \in Nat
         /\ given' = <<>> => Cardinality(Behind') = 0
    <3>1. traces' \in Seq(TraceEntry)
      BY DEF StoreInv, StoreType
    <3>2. Behind' \in SUBSET (Behind \cup Edge)
      BY <2>8
    <3>3. IsFiniteSet(Behind \cup Edge)
      <4>1. IsFiniteSet(Edge)
        <5>1. Edge \in SUBSET (1..N)
          OBVIOUS
        <5>. QED BY <2>3, <5>1, SomeTracesFinite
      <4>. QED BY <2>9, <4>1, FS_Union
    <3>4. IsFiniteSet(Behind')
      BY <3>2, <3>3, FS_Subset
    <3>5. given' = <<>> => Behind' = {}
      BY RangeEmpty DEF Behind
    <3>. QED BY <3>4, <3>5, FS_CardinalityType, FS_EmptySet
  <2>11. Cardinality(Behind') <= Cardinality(Behind) + 1
    <3>1. PICK e : Edge \subseteq {e}
      BY <2>3
    <3>2. Behind' \in SUBSET (Behind \cup {e})
      BY <2>8, <3>1
    <3>3. /\ IsFiniteSet(Behind \cup {e})
          /\ Cardinality(Behind \cup {e}) <= Cardinality(Behind) + 1
          /\ Cardinality(Behind \cup {e}) \in Nat
      <4>1. Cardinality(Behind \cup {e})
              = IF e \in Behind THEN Cardinality(Behind) ELSE Cardinality(Behind) + 1
        BY <2>9, FS_AddElement
      <4>2. IsFiniteSet(Behind \cup {e})
        BY <2>9, FS_AddElement
      <4>. QED BY <2>9, <4>1, <4>2
    <3>4. Cardinality(Behind') <= Cardinality(Behind \cup {e})
      BY <3>2, <3>3, FS_Subset
    <3>. QED BY <2>9, <2>10, <3>3, <3>4
  <2>12. L - Cardinality(Range(given)) + Cardinality(Behind) <= arrived
    BY DEF PagesAreCovered
  <2>13. Cardinality(Range(given)) \in Nat
    BY RangeIsFinite DEF StoreInv, StoreType
  <2>14. Len(given') - Cardinality(Range(given')) + Cardinality(Behind') <= arrived'
    <3>1. CASE limit = 0
      <4>1. given' = <<>> /\ Len(given') = 0 /\ arrived' = 0 /\ Cardinality(Behind') = 0
        BY <2>2, <2>3, <2>10, <3>1
      <4>2. Cardinality(Range(given')) = 0
        BY <4>1, RangeEmpty, FS_EmptySet
      <4>. QED BY <4>1, <4>2
    <3>2. CASE limit # 0
      <4>1. given' = given /\ arrived' = arrived + 1
        BY <2>2, <3>2
      <4>2. Len(given') = L /\ Cardinality(Range(given')) = Cardinality(Range(given))
        BY <4>1
      <4>. HIDE DEF L
      <4>. QED BY <2>3, <2>9, <2>10, <2>11, <2>12, <2>13, <4>1, <4>2
    <3>. QED BY <3>1, <3>2
  <2>. QED BY <2>7, <2>14 DEF PagesAreCovered, Passed
<1>. QED BY <1>1, <1>2

\* PagesAreCovered is inductive, given the type of the store.
LEMMA PagesStep ==
  ASSUME StoreInv, CatalogInv, FeedInv, PagesAreCovered, [Next]_vars, StoreInv'
  PROVE  PagesAreCovered'
<1>1. ASSUME NEW p \in Range(Paths), NEW c \in Contents \cup {Absent}, Edit(p, c)
      PROVE  PagesAreCovered'
  BY <1>1, PagesKept DEF Edit
<1>2. CASE StartUp \/ Poll \/ UNCHANGED vars
  BY <1>2, PagesKept DEF StartUp, Poll, vars
<1>. QED BY <1>1, <1>2, RestartKeepsPages, EvaluateKeepsPages, BrowseKeepsPages DEF Next

\* A client that pages to the end misses nothing it could have been given, and
\* repetitions come from arrivals only.
THEOREM PagingServesAll == Spec => []PagingIsExact
<1>1. Init => PagesAreCovered
  <2>. SUFFICES ASSUME Init PROVE PagesAreCovered
    OBVIOUS
  <2>1. /\ traces = <<>> /\ given = <<>> /\ arrived = 0 /\ StoreType
    BY StoreInvInit DEF Init, Store!Init, StoreInv
  <2>2. 1..Len(traces) = {} /\ Len(given) = 0
    BY <2>1, 1..0 = {}
  <2>3. Cardinality(Range(given)) = 0 /\ Cardinality(Behind) = 0
    BY <2>1, RangeEmpty, FS_EmptySet, BehindType
  <2>. QED BY <2>1, <2>2, <2>3 DEF PagesAreCovered
<1>2. StoreInv /\ CatalogInv /\ FeedInv /\ PagesAreCovered /\ [Next]_vars /\ StoreInv'
        => PagesAreCovered'
  BY PagesStep
<1>3. StoreInv /\ PagesAreCovered => PagingIsExact
  <2>. SUFFICES ASSUME StoreInv, PagesAreCovered PROVE Store!PagingIsExact
    BY DEF PagingIsExact
  <2>1. /\ traces \in Seq(TraceEntry) /\ given \in Seq(Nat) /\ DOMAIN given = 1..Len(given)
        /\ Len(given) \in Nat /\ arrived \in Nat
    BY DEF StoreInv, StoreType
  <2>2. Store!Range(given) = Range(given)
    BY DEF Store!Range, Range
  <2>3. Len(Store!Newest) = Len(traces) /\ DOMAIN Store!Newest = 1..Len(traces)
    BY <2>1, NewestIsByPosition
  <2>4. ASSUME ended, NEW k \in 1..Len(traces), k <= MaxRecent,
               Store!Newest[k].id \in known
        PROVE  Store!Newest[k].id \in Range(given)
    <3>1. PICK i \in 1..Len(traces) : Position(traces, i) = k
      BY <2>1, PositionIsBijection
    <3>2. Store!Newest[k] = traces[i]
      BY <2>1, <3>1, NewestIsByPosition
    <3>3. Passed(i)
      BY <2>4, <3>1 DEF Passed
    <3>. QED BY <2>4, <3>2, <3>3 DEF PagesAreCovered
  <2>5. Len(given) - Cardinality(Range(given)) <= arrived
    <3>1. Cardinality(Behind) \in Nat /\ Cardinality(Range(given)) \in Nat
      BY <2>1, BehindType, RangeIsFinite DEF StoreInv
    <3>2. Len(given) - Cardinality(Range(given)) + Cardinality(Behind) <= arrived
      BY DEF PagesAreCovered
    <3>. QED BY <2>1, <3>1, <3>2
  <2>. QED BY <2>2, <2>3, <2>4, <2>5, SameCardinality DEF Store!PagingIsExact
<1>. QED BY <1>1, <1>2, <1>3, StoreCorrect, CatalogCorrect, FeedCorrect, PTL DEF Spec

=============================================================================
