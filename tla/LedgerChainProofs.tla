-------------------------- MODULE LedgerChainProofs -------------------------
(***************************************************************************)
(* Proofs about LedgerChain: the chain in the table stays whole for any    *)
(* events and traces and any number of faults and crashes.                 *)
(***************************************************************************)
EXTENDS LedgerChain, TLAPS

-----------------------------------------------------------------------------
(* Type correctness.                                                       *)

\* The row the running append would insert is a row.
LEMMA NewType == TypeOK => New \in RowValue /\ Hash(event, number, prev) \in HashValue
<1>. SUFFICES ASSUME TypeOK
              PROVE  New \in RowValue /\ Hash(event, number, prev) \in HashValue
  OBVIOUS
<1>1. <<event, number>> \in Event \X Nat
  BY DEF TypeOK
<1>2. Append(prev, <<event, number>>) \in Seq(Event \X Nat)
  BY <1>1 DEF TypeOK, HashValue
<1>. QED BY <1>2 DEF TypeOK, New, Row, Hash, RowValue, HashValue

\* What the reads return is typed, when the last row is one of the rows.
LEMMA ReadType ==
  ASSUME TypeOK, Gapless, NEW t \in Trace
  PROVE  /\ RowsOf(t) # {} =>
              /\ LastRow(t) \in RowsOf(t)
              /\ \A q \in RowsOf(t) : q.number <= LastRow(t).number
         /\ RowsOf(t) \subseteq RowValue
         /\ NextNumber(t) \in Nat \ {0}
         /\ LastHash(t) \in HashValue
<1>1. RowsOf(t) \subseteq RowValue
  BY DEF RowsOf, TypeOK
<1>2. RowsOf(t) # {} =>
        /\ LastRow(t) \in RowsOf(t)
        /\ \A q \in RowsOf(t) : q.number <= LastRow(t).number
  BY DEF Gapless, LastRow
<1>3. NextNumber(t) \in Nat \ {0}
  BY <1>1, <1>2 DEF NextNumber, RowValue
<1>4. LastHash(t) \in HashValue
  BY <1>1, <1>2 DEF LastHash, RowValue, NULL, HashValue
<1>. QED BY <1>1, <1>2, <1>3, <1>4

\* A lost connection or a crash leaves nothing, or the new row, in doubt.
LEMMA LeftBehindType ==
  ASSUME TypeOK, NEW x \in LeftBehind
  PROVE  /\ x = {} \/ \E b \in BOOLEAN : x = {[row |-> New, sent |-> b]}
         /\ x \subseteq [row : RowValue, sent : BOOLEAN]
         /\ x # {} => pc = "commit" \/ (pc = "insert" /\ ~Waits /\ ~Violates)
<1>1. x = {} \/ \E b \in BOOLEAN : x = {[row |-> New, sent |-> b]}
  BY DEF LeftBehind
<1>2. x # {} => pc = "commit" \/ (pc = "insert" /\ ~Waits /\ ~Violates)
  BY DEF LeftBehind
<1>. QED BY <1>1, <1>2, NewType

\* Every step keeps the types.
LEMMA TypeStep == TypeOK /\ Gapless /\ [Next]_vars => TypeOK'
<1>. SUFFICES ASSUME TypeOK, Gapless, [Next]_vars
              PROVE  TypeOK'
  OBVIOUS
<1>. USE ChainAssumption
<1>1. ASSUME NEW e \in Event, Begin(e) PROVE TypeOK'
  BY <1>1 DEF Begin, TypeOK
<1>2. CASE Duplicate \/ Check \/ Insert \/ InsertRaises
  BY <1>2 DEF Duplicate, Check, Insert, InsertRaises, TypeOK
<1>3. CASE ReadNumber
  <2>1. TraceOf[event] \in Trace
    BY DEF TypeOK
  <2>2. number' \in Nat \ {0}
    BY <1>3, <2>1, ReadType DEF ReadNumber
  <2>. QED BY <1>3, <2>2 DEF ReadNumber, TypeOK
<1>4. CASE ReadPrev
  <2>1. TraceOf[event] \in Trace
    BY DEF TypeOK
  <2>2. prev' \in HashValue
    BY <1>4, <2>1, ReadType DEF ReadPrev
  <2>. QED BY <1>4, <2>2 DEF ReadPrev, TypeOK
<1>5. CASE Commit
  <2>1. table' \subseteq RowValue /\ accepted' \in Seq(Event)
    BY <1>5, NewType DEF Commit, TypeOK
  <2>. QED BY <1>5, <2>1 DEF Commit, TypeOK
<1>6. CASE ConnectionLost
  <2>1. indoubt' \subseteq [row : RowValue, sent : BOOLEAN]
    BY <1>6, LeftBehindType DEF ConnectionLost, TypeOK
  <2>2. faults' \in 0..MaxFault
    BY <1>6 DEF ConnectionLost, TypeOK
  <2>. QED BY <1>6, <2>1, <2>2 DEF ConnectionLost, AfterLoss, TypeOK
<1>7. CASE Crash
  <2>1. indoubt' \subseteq [row : RowValue, sent : BOOLEAN]
    BY <1>7, LeftBehindType DEF Crash, TypeOK
  <2>2. crashes' \in 0..MaxCrash
    BY <1>7 DEF Crash, TypeOK
  <2>. QED BY <1>7, <2>1, <2>2 DEF Crash, TypeOK
<1>8. CASE Restart
  BY <1>8 DEF Restart, TypeOK
<1>9. ASSUME NEW x \in indoubt, ServerCommits(x) PROVE TypeOK'
  <2>1. x.row \in RowValue
    BY DEF TypeOK
  <2>2. table' \subseteq RowValue
    BY <1>9, <2>1 DEF ServerCommits, TypeOK
  <2>. QED BY <1>9, <2>2 DEF ServerCommits, callVars, TypeOK
<1>10. ASSUME NEW x \in indoubt, ServerAborts(x) PROVE TypeOK'
  BY <1>10 DEF ServerAborts, callVars, TypeOK
<1>11. CASE UNCHANGED vars
  BY <1>11 DEF vars, callVars, TypeOK
<1>. QED
  BY <1>1, <1>2, <1>3, <1>4, <1>5, <1>6, <1>7, <1>8, <1>9, <1>10, <1>11
     DEF Next, CallStep, ServerStep

-----------------------------------------------------------------------------
(* The chain.                                                              *)

\* Rows are never removed, so what they support stays supported.
LEMMA RowsStay ==
  ASSUME table \subseteq table'
  PROVE  /\ \A t : RowsOf(t) \subseteq RowsOf(t)'
         /\ \A r : Linked(r) => Linked(r)'
         /\ \A r : ReadsHold(r) => ReadsHold(r)'
<1>1. \A t : RowsOf(t) \subseteq RowsOf(t)'
  BY DEF RowsOf
<1>2. \A r : Linked(r) => Linked(r)'
  BY <1>1 DEF Linked
<1>3. \A r : ReadsHold(r) => ReadsHold(r)'
  BY <1>1, <1>2 DEF ReadsHold
<1>. QED BY <1>1, <1>2, <1>3

\* A row that shares no key with the table has its predecessor in it: it is
\* first in its trace, or directly behind the last row.
LEMMA NewIsNext ==
  ASSUME TypeOK, Gapless, NEW r \in RowValue, ReadsHold(r), Holds(r)
  PROVE  /\ Linked(r)
         /\ \A q \in RowsOf(TraceOf[r.event]) : q.number < r.number
<1>. DEFINE t == TraceOf[r.event]
<1>1. t \in Trace
  BY ChainAssumption DEF RowValue
<1>2. RowsOf(t) \subseteq RowValue
  BY DEF RowsOf, TypeOK
<1>3. \A q \in RowsOf(t) : q.number # r.number
  BY DEF Holds, SameKey, RowsOf
<1>4. Linked(r)
  BY <1>3 DEF ReadsHold
<1>5. ASSUME NEW q \in RowsOf(t) PROVE q.number < r.number
  <2>1. q.number \in Nat /\ r.number \in Nat \ {0}
    BY <1>2 DEF RowValue
  <2>2. q.number > r.number => r.number \in 1..q.number
    BY <2>1
  <2>3. ~(q.number > r.number)
    BY <1>1, <1>3, <2>2 DEF Gapless
  <2>. QED BY <1>3, <2>1, <2>3
<1>. QED BY <1>4, <1>5

\* Such a row can be added: the chain stays whole and without a hole.
LEMMA AddRow ==
  ASSUME TypeOK, ChainIntact, Gapless,
         NEW r \in RowValue, r.hash = Hash(r.event, r.number, r.prev),
         ReadsHold(r), Holds(r), table' = table \cup {r}
  PROVE  ChainIntact' /\ Gapless'
<1>. DEFINE t == TraceOf[r.event]
<1>1. Linked(r) /\ \A q \in RowsOf(t) : q.number < r.number
  BY NewIsNext
<1>2. /\ RowsOf(t)' = RowsOf(t) \cup {r}
      /\ \A u : u # t => RowsOf(u)' = RowsOf(u)
  BY DEF RowsOf
<1>3. \A q \in table' : q.hash = Hash(q.event, q.number, q.prev) /\ Linked(q)'
  BY <1>1, RowsStay DEF ChainIntact
<1>4. \A p, q \in table' : SameKey(p, q) => p = q
  BY DEF ChainIntact, Holds, SameKey
<1>5. ChainIntact'
  BY <1>3, <1>4 DEF ChainIntact, Hash, SameKey
<1>6. RowsOf(t) \subseteq RowValue /\ r.number \in Nat \ {0} /\ t \in Trace
  BY ChainAssumption DEF RowsOf, TypeOK, RowValue
<1>7. \A q \in RowsOf(t)' : q.number <= r.number
  BY <1>1, <1>2, <1>6 DEF RowValue
<1>8. ASSUME NEW n \in 1..r.number PROVE \E q \in RowsOf(t)' : q.number = n
  <2>1. CASE n = r.number
    BY <1>2, <2>1
  <2>2. CASE n # r.number
    <3>1. r.number # 1
      BY <1>6, <2>2
    <3>2. PICK p \in RowsOf(t) : p.number + 1 = r.number
      BY <1>1, <3>1 DEF Linked
    <3>3. n \in 1..p.number
      BY <1>6, <2>2, <3>2 DEF RowValue
    <3>. QED BY <1>2, <1>6, <3>2, <3>3 DEF Gapless
  <2>. QED BY <2>1, <2>2
<1>9. Gapless'
  <2>. SUFFICES ASSUME NEW u \in Trace
                PROVE  /\ RowsOf(u)' # {} => \E a \in RowsOf(u)' : \A q \in RowsOf(u)' : q.number <= a.number
                       /\ \A a \in RowsOf(u)' : \A n \in 1..a.number : \E q \in RowsOf(u)' : q.number = n
    BY DEF Gapless
  <2>1. CASE u # t
    BY <1>2, <2>1 DEF Gapless
  <2>2. CASE u = t
    BY <1>2, <1>6, <1>7, <1>8, <2>2 DEF Gapless
  <2>. QED BY <2>1, <2>2
<1>. QED BY <1>5, <1>9

\* A table that does not change keeps its chain.
LEMMA SameTable ==
  ASSUME ChainIntact, Gapless, UNCHANGED table
  PROVE  ChainIntact' /\ Gapless'
BY DEF ChainIntact, Gapless, RowsOf, Linked

\* What is known of the row a call would insert is that of a row.
LEMMA NewFields ==
  TypeOK => /\ New.event = event /\ New.number = number /\ New.prev = prev
            /\ New.hash = Hash(New.event, New.number, New.prev)
            /\ New = Row(New.event, New.number, New.prev)
            /\ New \in RowValue
<1>1. /\ New.event = event /\ New.number = number /\ New.prev = prev
      /\ New.hash = Hash(New.event, New.number, New.prev)
      /\ New = Row(New.event, New.number, New.prev)
  BY DEF New, Row
<1>. QED BY <1>1, NewType

\* Both ways a row gets into the table keep the chain.
LEMMA ChainStep ==
  ASSUME IInv, [Next]_vars
  PROVE  ChainIntact' /\ Gapless'
<1>1. CASE Commit
  <2>1. table' = table \cup {New}
    BY <1>1 DEF Commit
  <2>2. ReadsHold(New) /\ Holds(New)
    BY <1>1 DEF Commit, IInv, CallHolds
  <2>. QED BY <2>1, <2>2, NewFields, AddRow DEF IInv
<1>2. ASSUME NEW x \in indoubt, ServerCommits(x) PROVE ChainIntact' /\ Gapless'
  <2>1. table' = table \cup {x.row} /\ x.row \in RowValue
    BY <1>2 DEF ServerCommits, IInv, TypeOK
  <2>2. ReadsHold(x.row) /\ Holds(x.row)
    BY DEF IInv, InDoubtHolds
  <2>3. x.row.hash = Hash(x.row.event, x.row.number, x.row.prev)
    <3>1. x.row = Row(x.row.event, x.row.number, x.row.prev)
      BY DEF IInv, InDoubtHolds
    <3>. QED BY <3>1 DEF Row
  <2>. QED BY <2>1, <2>2, <2>3, AddRow DEF IInv
<1>3. CASE UNCHANGED table
  BY <1>3, SameTable DEF IInv
<1>4. Commit \/ UNCHANGED table \/ \E x \in indoubt : ServerCommits(x)
  BY DEF Next, CallStep, ServerStep, Begin, Duplicate, Check, ReadNumber,
         ReadPrev, Insert, InsertRaises, ConnectionLost, Crash, Restart,
         ServerAborts, vars
<1>. QED BY <1>1, <1>2, <1>3, <1>4

-----------------------------------------------------------------------------
(* The transactions.                                                       *)

\* Sharing a key is symmetric.
LEMMA SameKeySym == \A r, q : SameKey(r, q) <=> SameKey(q, r)
BY DEF SameKey

\* What a step that leaves the call alone, or only inserts its row, keeps.
LEMMA CallKept ==
  ASSUME TypeOK, CallHolds, UNCHANGED <<event, number, prev>>,
         table \subseteq table'
  PROVE  /\ New' = New
         /\ pc \in {"link", "insert", "commit"} /\ number # 1 =>
              \E q \in RowsOf(TraceOf[event])' : q.number + 1 = number'
         /\ pc \in {"insert", "commit"} => ReadsHold(New)'
<1>1. New' = New
  BY DEF New, Row, Hash
<1>2. \A t : RowsOf(t) \subseteq RowsOf(t)'
  BY RowsStay
<1>4. pc \in {"link", "insert", "commit"} /\ number # 1 =>
        \E q \in RowsOf(TraceOf[event])' : q.number + 1 = number'
  BY <1>2 DEF CallHolds, RowsOf
<1>5. ASSUME pc \in {"insert", "commit"} PROVE ReadsHold(New)'
  <2>1. ReadsHold(New)
    BY <1>5 DEF CallHolds
  <2>2. CASE Linked(New)
    <3>1. Linked(New)'
      BY <1>1, <1>2, <2>2 DEF Linked, RowsOf
    <3>. QED BY <3>1 DEF ReadsHold
  <2>3. CASE \E q \in RowsOf(TraceOf[New.event]) : q.number = New.number
    BY <1>1, <1>2, <2>3 DEF ReadsHold, RowsOf
  <2>. QED BY <2>1, <2>2, <2>3 DEF ReadsHold
<1>. QED BY <1>1, <1>4, <1>5

\* The number read is that of an empty trace, or the one behind its last row.
LEMMA CallReadNumber ==
  ASSUME IInv, ReadNumber
  PROVE  CallHolds'
<1>. DEFINE t == TraceOf[event]
<1>1. t \in Trace /\ pc' = "link" /\ number' = NextNumber(t)
  BY ChainAssumption DEF IInv, TypeOK, ReadNumber
<1>2. RowsOf(t)' = RowsOf(t) /\ event' = event
  BY DEF ReadNumber, RowsOf
<1>3. number' # 1 => \E q \in RowsOf(t) : q.number + 1 = number'
  BY <1>1, ReadType DEF IInv, NextNumber
<1>. QED BY <1>1, <1>2, <1>3 DEF CallHolds, RowsOf, ReadNumber

\* The hash read belongs to the number read, or that number has been taken.
LEMMA CallReadPrev ==
  ASSUME IInv, ReadPrev
  PROVE  CallHolds'
<1>. DEFINE t == TraceOf[event]
<1>1. /\ t \in Trace /\ pc = "link" /\ pc' = "insert" /\ prev' = LastHash(t)
      /\ number \in Nat \ {0}
      /\ UNCHANGED <<event, number, table>>
  BY ChainAssumption DEF IInv, TypeOK, ReadPrev
<1>2. /\ New'.event = event /\ New'.number = number /\ New'.prev = LastHash(t)
  BY <1>1 DEF New, Row
<1>3. RowsOf(t)' = RowsOf(t) /\ RowsOf(t) \subseteq RowValue
  BY <1>1, ReadType DEF RowsOf, IInv
<1>4. number # 1 => \E q \in RowsOf(t) : q.number + 1 = number
  BY <1>1 DEF IInv, CallHolds
<1>5. ReadsHold(New)'
  <2>1. CASE RowsOf(t) = {}
    <3>1. number = 1 /\ LastHash(t) = NULL
      BY <1>4, <2>1 DEF LastHash
    <3>. QED BY <1>2, <3>1 DEF ReadsHold, Linked
  <2>2. CASE RowsOf(t) # {}
    <3>. DEFINE l == LastRow(t)
    <3>1. l \in RowsOf(t) /\ \A q \in RowsOf(t) : q.number <= l.number
      BY <1>1, <2>2, ReadType DEF IInv
    <3>2. LastHash(t) = l.hash /\ l.number \in Nat \ {0}
      BY <1>3, <2>2, <3>1 DEF LastHash, RowValue
    <3>. HIDE DEF l
    <3>3. CASE l.number + 1 = number
      <4>1. number # 1
        BY <3>2, <3>3
      <4>. QED BY <1>1, <1>2, <1>3, <3>1, <3>2, <3>3, <4>1
               DEF ReadsHold, Linked, RowsOf
    <3>4. CASE l.number + 1 # number
      <4>1. number <= l.number
        BY <1>1, <1>3, <1>4, <3>1, <3>2, <3>4 DEF RowValue
      <4>2. number \in 1..l.number
        BY <1>1, <3>2, <4>1
      <4>3. \E q \in RowsOf(t) : q.number = number
        BY <1>1, <3>1, <4>2 DEF IInv, Gapless
      <4>. QED BY <1>1, <1>2, <1>3, <4>3 DEF ReadsHold, RowsOf
    <3>. QED BY <3>3, <3>4
  <2>. QED BY <2>1, <2>2
<1>. QED BY <1>1, <1>3, <1>4, <1>5 DEF CallHolds, RowsOf

\* A row the constraints let in shares no key with any other.
LEMMA CallInsert ==
  ASSUME IInv, Insert
  PROVE  CallHolds'
<1>1. /\ pc = "insert" /\ pc' = "commit" /\ ~Waits /\ ~Violates
      /\ UNCHANGED <<event, number, prev, table, indoubt>>
  BY DEF Insert
<1>2. New' = New
  BY <1>1 DEF New, Row, Hash
<1>3. Holds(New)' /\ ~Waits'
  BY <1>1, <1>2 DEF Holds, Waits, Violates, SameKey
<1>4. /\ number' # 1 => \E q \in RowsOf(TraceOf[event])' : q.number + 1 = number'
      /\ ReadsHold(New)'
  BY <1>1, CallKept DEF IInv
<1>. QED BY <1>1, <1>3, <1>4 DEF CallHolds

\* No step takes from the running call what it relies on.
LEMMA CallStepKeeps ==
  ASSUME IInv, [Next]_vars
  PROVE  CallHolds'
<1>1. CASE pc' \notin {"link", "insert", "commit"}
  BY <1>1 DEF CallHolds
<1>2. CASE ReadNumber \/ ReadPrev \/ Insert
  BY <1>2, CallReadNumber, CallReadPrev, CallInsert
<1>3. ASSUME NEW x \in indoubt, ServerCommits(x) PROVE CallHolds'
  <2>1. /\ table' = table \cup {x.row} /\ indoubt' = indoubt \ {x}
        /\ UNCHANGED <<pc, event, number, prev>>
    BY <1>3 DEF ServerCommits, callVars
  <2>2. CallHolds /\ TypeOK
    BY DEF IInv
  <2>3. /\ New' = New
        /\ pc' \in {"link", "insert", "commit"} /\ number' # 1 =>
             \E q \in RowsOf(TraceOf[event])' : q.number + 1 = number'
        /\ pc' \in {"insert", "commit"} => ReadsHold(New)'
    BY <2>1, <2>2, CallKept
  <2>4. pc = "commit" => Holds(New)' /\ ~Waits'
    BY <2>1, <2>2, <2>3 DEF CallHolds, Holds, Waits, SameKey
  <2>. QED BY <2>1, <2>3, <2>4 DEF CallHolds
<1>4. ASSUME NEW x \in indoubt, ServerAborts(x) PROVE CallHolds'
  <2>1. /\ indoubt' = indoubt \ {x}
        /\ UNCHANGED <<pc, event, number, prev, table>>
    BY <1>4 DEF ServerAborts, callVars
  <2>2. CallHolds /\ TypeOK
    BY DEF IInv
  <2>3. /\ New' = New
        /\ pc' \in {"link", "insert", "commit"} /\ number' # 1 =>
             \E q \in RowsOf(TraceOf[event])' : q.number + 1 = number'
        /\ pc' \in {"insert", "commit"} => ReadsHold(New)'
    BY <2>1, <2>2, CallKept
  <2>4. pc = "commit" => Holds(New)' /\ ~Waits'
    BY <2>1, <2>2, <2>3 DEF CallHolds, Holds, Waits, SameKey
  <2>. QED BY <2>1, <2>3, <2>4 DEF CallHolds
<1>5. CASE UNCHANGED vars
  <2>1. UNCHANGED <<pc, event, number, prev, table, indoubt>>
    BY <1>5 DEF vars, callVars
  <2>. QED BY <2>1 DEF IInv, CallHolds, New, Row, Hash, Holds, Waits, SameKey,
                       ReadsHold, Linked, RowsOf
<1>6. \/ pc' \notin {"link", "insert", "commit"}
      \/ ReadNumber \/ ReadPrev \/ Insert
      \/ \E x \in indoubt : ServerCommits(x) \/ ServerAborts(x)
      \/ UNCHANGED vars
  BY DEF Next, CallStep, ServerStep, Begin, Duplicate, Check, InsertRaises,
         Commit, ConnectionLost, Crash, Restart
<1>. QED BY <1>1, <1>2, <1>3, <1>4, <1>5, <1>6

\* A row left in doubt was inserted, so it shares no key with those before it.
LEMMA LeaveBehind ==
  ASSUME IInv, NEW x \in LeftBehind, indoubt' = indoubt \cup x, UNCHANGED table
  PROVE  InDoubtHolds'
<1>1. /\ \A r : Linked(r)' <=> Linked(r)
      /\ \A r : ReadsHold(r)' <=> ReadsHold(r)
      /\ \A r : Holds(r)' <=> Holds(r)
  BY DEF Linked, ReadsHold, Holds, RowsOf, SameKey
<1>2. CASE x = {}
  BY <1>1, <1>2 DEF IInv, InDoubtHolds, Row, Hash, SameKey
<1>3. ASSUME NEW b \in BOOLEAN, x = {[row |-> New, sent |-> b]}
      PROVE  InDoubtHolds'
  <2>. DEFINE z == [row |-> New, sent |-> b]
  <2>1. pc = "commit" \/ (pc = "insert" /\ ~Waits /\ ~Violates)
    BY <1>3, LeftBehindType DEF IInv
  <2>2. ReadsHold(New) /\ Holds(New) /\ ~Waits
    BY <2>1 DEF IInv, CallHolds, Holds, Violates
  <2>3. New = Row(New.event, New.number, New.prev)
    BY NewFields DEF IInv
  <2>4. indoubt' = indoubt \cup {z} /\ z.row = New
    BY <1>3
  <2>. HIDE DEF z
  <2>5. \A y \in indoubt : ~SameKey(y.row, z.row) /\ ~SameKey(z.row, y.row)
    BY <2>2, <2>4, SameKeySym DEF Waits
  <2>6. \A y \in indoubt' :
          /\ y.row = Row(y.row.event, y.row.number, y.row.prev)
          /\ ReadsHold(y.row) /\ Holds(y.row)
    BY <2>2, <2>3, <2>4 DEF IInv, InDoubtHolds
  <2>7. \A y, w \in indoubt' : SameKey(y.row, w.row) => y = w
    BY <2>4, <2>5 DEF IInv, InDoubtHolds
  <2>. QED BY <1>1, <2>6, <2>7 DEF InDoubtHolds, Row, Hash, SameKey
<1>. QED BY <1>2, <1>3, LeftBehindType DEF IInv

\* No step takes from the transactions in doubt what they rely on.
LEMMA InDoubtStep ==
  ASSUME IInv, [Next]_vars
  PROVE  InDoubtHolds'
<1>1. CASE ConnectionLost \/ Crash
  BY <1>1, LeaveBehind DEF ConnectionLost, Crash
<1>2. CASE Commit
  <2>1. table' = table \cup {New} /\ indoubt' = indoubt /\ ~Waits
    BY <1>2 DEF Commit, IInv, CallHolds
  <2>2. \A x \in indoubt : ReadsHold(x.row)'
    BY <2>1, RowsStay DEF IInv, InDoubtHolds
  <2>3. \A x \in indoubt : Holds(x.row)'
    BY <2>1, SameKeySym DEF IInv, InDoubtHolds, Holds, Waits, SameKey
  <2>. QED BY <2>1, <2>2, <2>3 DEF IInv, InDoubtHolds, Row, Hash, SameKey
<1>3. ASSUME NEW y \in indoubt, ServerCommits(y) PROVE InDoubtHolds'
  <2>1. table' = table \cup {y.row} /\ indoubt' = indoubt \ {y}
    BY <1>3 DEF ServerCommits
  <2>2. \A x \in indoubt : ReadsHold(x.row)'
    BY <2>1, RowsStay DEF IInv, InDoubtHolds
  <2>3. \A x \in indoubt' : Holds(x.row)'
    BY <2>1 DEF IInv, InDoubtHolds, Holds, SameKey
  <2>. QED BY <2>1, <2>2, <2>3 DEF IInv, InDoubtHolds, Row, Hash, SameKey
<1>4. ASSUME NEW y \in indoubt, ServerAborts(y) PROVE InDoubtHolds'
  <2>1. table' = table /\ indoubt' = indoubt \ {y}
    BY <1>4 DEF ServerAborts
  <2>. QED BY <2>1 DEF IInv, InDoubtHolds, ReadsHold, Linked, RowsOf, Holds,
                       Row, Hash, SameKey
<1>5. CASE UNCHANGED <<table, indoubt>>
  BY <1>5 DEF IInv, InDoubtHolds, ReadsHold, Linked, RowsOf, Holds, Row, Hash,
              SameKey
<1>6. \/ ConnectionLost \/ Crash \/ Commit \/ UNCHANGED <<table, indoubt>>
      \/ \E y \in indoubt : ServerCommits(y) \/ ServerAborts(y)
  BY DEF Next, CallStep, ServerStep, Begin, Duplicate, Check, ReadNumber,
         ReadPrev, Insert, InsertRaises, Restart, vars, callVars
<1>. QED BY <1>1, <1>2, <1>3, <1>4, <1>5, <1>6

-----------------------------------------------------------------------------
(* The invariant.                                                          *)

\* An empty table is a whole chain.
LEMMA IInvInit == Init => IInv
<1>. SUFFICES ASSUME Init PROVE IInv
  OBVIOUS
<1>1. TypeOK
  BY ChainAssumption DEF Init, TypeOK, NULL, HashValue
<1>2. ChainIntact /\ Gapless
  BY DEF Init, ChainIntact, Gapless, RowsOf
<1>3. CallHolds /\ InDoubtHolds
  BY DEF Init, CallHolds, InDoubtHolds
<1>. QED BY <1>1, <1>2, <1>3 DEF IInv

\* IInv holds in every state a ledger of any size reaches.
THEOREM ChainInvariant == Spec => []IInv
<1>1. IInv /\ [Next]_vars => IInv'
  BY TypeStep, ChainStep, CallStepKeeps, InDoubtStep DEF IInv
<1>. QED BY IInvInit, <1>1, PTL DEF Spec

\* Whatever breaks and whatever the server does with what is left to it, the
\* variables keep their types.
THEOREM TypeCorrect == Spec => []TypeOK
<1>1. IInv => TypeOK
  BY DEF IInv
<1>. QED BY ChainInvariant, <1>1, PTL

\* append never leaves a hole, a fork or a wrong prev_hash in a trace, for any
\* number of events, faults and crashes.
THEOREM ChainNeverBreaks == Spec => []ChainIntact
<1>1. IInv => ChainIntact
  BY DEF IInv
<1>. QED BY ChainInvariant, <1>1, PTL

-----------------------------------------------------------------------------
(* The log behind the chain.                                               *)

LogMap == [t \in Trace |-> EventsByTrace(t)]

\* EventsByTrace, of the rows themselves.
ReadBack(rows) ==
  [n \in {r.number : r \in rows} |-> (CHOOSE r \in rows : r.number = n).event]

\* The log read off the rows holds the events of the rows, and no other.
LEMMA EventsAreReadBack ==
  ASSUME NEW t
  PROVE  /\ EventsByTrace(t) = ReadBack(RowsOf(t))
         /\ EventsByTrace(t)' = ReadBack(RowsOf(t)')
BY DEF EventsByTrace, ReadBack

\* Rows with numbers of their own are read back each at its number.
LEMMA ReadBackRows ==
  ASSUME NEW rows, \A p, q \in rows : p.number = q.number => p = q
  PROVE  /\ DOMAIN ReadBack(rows) = {r.number : r \in rows}
         /\ \A r \in rows : ReadBack(rows)[r.number] = r.event
         /\ ReadBack(rows) = [n \in DOMAIN ReadBack(rows) |-> ReadBack(rows)[n]]
<1>1. ASSUME NEW r \in rows
      PROVE  (CHOOSE q \in rows : q.number = r.number) = r
  OBVIOUS
<1>. QED BY <1>1 DEF ReadBack

\* Appending, element by element.
LEMMA AppendElements ==
  ASSUME NEW S, NEW s \in Seq(S), NEW e \in S
  PROVE  /\ Len(s) \in Nat /\ DOMAIN s = 1..Len(s)
         /\ Append(s, e) \in [1..(Len(s) + 1) -> S]
         /\ \A n \in 1..Len(s) : Append(s, e)[n] = s[n]
         /\ Append(s, e)[Len(s) + 1] = e
<1>1. /\ Append(s, e) \in Seq(S) /\ Len(Append(s, e)) = Len(s) + 1
      /\ \A n \in 1..Len(s) : Append(s, e)[n] = s[n]
      /\ Append(s, e)[Len(s) + 1] = e
      /\ Len(s) \in Nat /\ DOMAIN s = 1..Len(s)
  OBVIOUS
<1>. DEFINE g == Append(s, e)
<1>. HIDE DEF g
<1>2. g \in Seq(S) => g \in [1..Len(g) -> S]
  OBVIOUS
<1>. QED BY <1>1, <1>2 DEF g

\* The events of a trace read back as a sequence, as long as the last number.
LEMMA EventsAreSequence ==
  ASSUME IInv, NEW t \in Trace
  PROVE  /\ EventsByTrace(t) \in Seq(Event)
         /\ RowsOf(t) = {} => EventsByTrace(t) = <<>>
         /\ RowsOf(t) # {} => Len(EventsByTrace(t)) = LastRow(t).number
         /\ \A r \in RowsOf(t) : EventsByTrace(t)[r.number] = r.event
         /\ DOMAIN EventsByTrace(t) = {r.number : r \in RowsOf(t)}
<1>. DEFINE numbers == {r.number : r \in RowsOf(t)}
            f == EventsByTrace(t)
<1>1. RowsOf(t) \subseteq RowValue
  BY DEF RowsOf, IInv, TypeOK
<1>2. ASSUME NEW r \in RowsOf(t)
      PROVE  (CHOOSE q \in RowsOf(t) : q.number = r.number) = r
  BY <1>2 DEF IInv, ChainIntact, SameKey, RowsOf
<1>3. DOMAIN f = numbers /\ \A r \in RowsOf(t) : f[r.number] = r.event
  BY <1>2 DEF EventsByTrace
<1>4. \A n \in numbers : f[n] \in Event
  BY <1>1, <1>3 DEF RowValue
<1>5. f = [n \in numbers |-> f[n]]
  BY DEF EventsByTrace
<1>6. CASE RowsOf(t) = {}
  <2>1. numbers = {} /\ f = [n \in {} |-> f[n]]
    BY <1>5, <1>6
  <2>2. f = <<>>
    BY <2>1, SMT
  <2>. QED BY <1>3, <1>6, <2>2
<1>7. CASE RowsOf(t) # {}
  <2>. DEFINE l == LastRow(t).number
  <2>1. l \in Nat \ {0} /\ \A q \in RowsOf(t) : q.number \in 1..l
    BY <1>1, <1>7, ReadType DEF IInv, RowValue
  <2>2. \A n \in 1..l : \E q \in RowsOf(t) : q.number = n
    BY <1>7, ReadType DEF IInv, Gapless
  <2>3. numbers = 1..l
    BY <2>1, <2>2
  <2>. HIDE DEF l
  <2>4. f \in [1..l -> Event]
    BY <1>4, <1>5, <2>3
  <2>5. f \in Seq(Event) /\ Len(f) = l
    BY <2>1, <2>4
  <2>. QED BY <1>3, <1>7, <2>5 DEF l
<1>. QED BY <1>6, <1>7

\* An append to a trace, and nothing else, is an append to its log.
LEMMA AddIsAppend ==
  ASSUME IInv, ChainIntact', NEW r \in RowValue, ReadsHold(r), Holds(r),
         table' = table \cup {r}
  PROVE  /\ r.event \notin Range(EventsByTrace(TraceOf[r.event]))
         /\ LogMap' = [LogMap EXCEPT ![TraceOf[r.event]] = Append(@, r.event)]
<1>. DEFINE t == TraceOf[r.event]
            f == EventsByTrace(t)
<1>1. t \in Trace /\ r.event \in Event /\ r.number \in Nat \ {0}
  BY ChainAssumption DEF RowValue
<1>2. /\ RowsOf(t)' = RowsOf(t) \cup {r}
      /\ \A u : u # t => RowsOf(u)' = RowsOf(u)
      /\ RowsOf(t) \subseteq RowValue
  BY DEF RowsOf, IInv, TypeOK
<1>3. Linked(r) /\ \A q \in RowsOf(t) : q.number < r.number
  BY NewIsNext DEF IInv
<1>4. /\ f \in Seq(Event) /\ DOMAIN f = {q.number : q \in RowsOf(t)}
      /\ \A q \in RowsOf(t) : f[q.number] = q.event
  BY <1>1, EventsAreSequence
<1>5. r.event \notin Range(f)
  <2>1. \A q \in RowsOf(t) : q.event # r.event
    BY DEF Holds, SameKey, RowsOf
  <2>. QED BY <1>4, <2>1 DEF Range
<1>6. r.number = Len(f) + 1
  <2>1. CASE RowsOf(t) = {}
    <3>1. f = <<>> /\ r.number = 1
      BY <1>1, <1>3, <2>1, EventsAreSequence DEF Linked
    <3>. QED BY <3>1
  <2>2. CASE RowsOf(t) # {}
    <3>1. /\ Len(f) = LastRow(t).number /\ LastRow(t) \in RowsOf(t)
          /\ \A q \in RowsOf(t) : q.number <= LastRow(t).number
      BY <1>1, <2>2, EventsAreSequence, ReadType DEF IInv
    <3>2. r.number # 1
      BY <1>2, <1>3, <3>1 DEF RowValue
    <3>3. PICK p \in RowsOf(t) : p.number + 1 = r.number
      BY <1>3, <3>2 DEF Linked
    <3>4. LastRow(t).number < r.number /\ p.number <= LastRow(t).number
      BY <1>3, <3>1, <3>3
    <3>. QED BY <1>1, <1>2, <3>1, <3>3, <3>4 DEF RowValue
  <2>. QED BY <2>1, <2>2
<1>7. f' = Append(f, r.event)
  <2>. DEFINE k == Len(f)
              g == Append(f, r.event)
  <2>1. /\ k \in Nat /\ DOMAIN f = 1..k /\ g \in [1..(k + 1) -> Event]
        /\ \A n \in 1..k : g[n] = f[n]
        /\ g[k + 1] = r.event
    <3>1. \A s \in Seq(Event), e \in Event :
            /\ Len(s) \in Nat /\ DOMAIN s = 1..Len(s)
            /\ Append(s, e) \in [1..(Len(s) + 1) -> Event]
            /\ \A n \in 1..Len(s) : Append(s, e)[n] = s[n]
            /\ Append(s, e)[Len(s) + 1] = e
      BY AppendElements
    <3>2. f \in Seq(Event) /\ r.event \in Event
      BY <1>1, <1>4
    <3>. HIDE DEF f
    <3>. QED BY <3>1, <3>2
  <2>2. \A p, q \in RowsOf(t)' : p.number = q.number => p = q
    BY DEF ChainIntact, SameKey, RowsOf
  <2>3. f' = ReadBack(RowsOf(t)')
    BY EventsAreReadBack
  <2>4. /\ DOMAIN f' = {q.number : q \in RowsOf(t)'}
        /\ \A q \in RowsOf(t)' : f'[q.number] = q.event
    <3>. DEFINE h == ReadBack(RowsOf(t)')
    <3>1. /\ DOMAIN h = {q.number : q \in RowsOf(t)'}
          /\ \A q \in RowsOf(t)' : h[q.number] = q.event
      BY <2>2, ReadBackRows
    <3>. HIDE DEF h
    <3>. QED BY <2>3, <3>1 DEF h
  <2>5. f' = [n \in DOMAIN f' |-> f'[n]]
    BY <2>2, <2>3, ReadBackRows, Zenon
  <2>6. DOMAIN f' = 1..(k + 1)
    <3>1. {q.number : q \in RowsOf(t)'} = {q.number : q \in RowsOf(t)} \cup {r.number}
      BY <1>2
    <3>2. 1..(k + 1) = (1..k) \cup {k + 1}
      BY <2>1
    <3>. QED BY <1>4, <1>6, <2>1, <2>4, <3>1, <3>2
  <2>7. \A n \in 1..k : f'[n] = g[n]
    <3>. SUFFICES ASSUME NEW n \in 1..k PROVE f'[n] = g[n]
      OBVIOUS
    <3>1. PICK q \in RowsOf(t) : q.number = n
      BY <1>4, <2>1
    <3>2. f[n] = q.event /\ q \in RowsOf(t)'
      BY <1>2, <1>4, <3>1
    <3>. QED BY <2>1, <2>4, <3>1, <3>2
  <2>8. f'[k + 1] = g[k + 1]
    <3>1. r \in RowsOf(t)'
      BY <1>2
    <3>. QED BY <1>6, <2>1, <2>4, <3>1
  <2>. HIDE DEF f, g, k
  <2>9. \A n \in 1..(k + 1) : f'[n] = g[n]
    BY <2>1, <2>7, <2>8
  <2>10. g = [n \in 1..(k + 1) |-> g[n]]
    BY <2>1
  <2>. QED BY <2>5, <2>6, <2>9, <2>10 DEF g
<1>8. ASSUME NEW u \in Trace, u # t PROVE EventsByTrace(u)' = EventsByTrace(u)
  <2>1. RowsOf(u)' = RowsOf(u)
    BY <1>2, <1>8
  <2>. QED BY <2>1, EventsAreReadBack, Zenon
<1>. QED BY <1>1, <1>5, <1>7, <1>8 DEF LogMap

\* A table that does not change reads back the same.
LEMMA SameLog == UNCHANGED table => UNCHANGED LogMap
<1>. SUFFICES ASSUME UNCHANGED table PROVE LogMap' = LogMap
  OBVIOUS
<1>1. ASSUME NEW t \in Trace PROVE EventsByTrace(t)' = EventsByTrace(t)
  <2>1. RowsOf(t)' = RowsOf(t)
    BY DEF RowsOf
  <2>. QED BY <2>1, EventsAreReadBack, Zenon
<1>. QED BY <1>1 DEF LogMap

\* An empty table is an empty log.
LEMMA LogInit == Init => Log!Init
<1>. SUFFICES ASSUME Init PROVE Log!Init
  OBVIOUS
<1>1. IInv
  BY IInvInit
<1>2. ASSUME NEW t \in Trace PROVE EventsByTrace(t) = <<>>
  <2>1. RowsOf(t) = {}
    BY DEF Init, RowsOf
  <2>. QED BY <1>1, <2>1, EventsAreSequence
<1>. QED BY <1>2 DEF Log!Init

\* A step of the table is an append to the log, every other step a stutter.
LEMMA LogStep == IInv /\ [Next]_vars => [Log!Next]_LogMap
<1>. SUFFICES ASSUME IInv, [Next]_vars
              PROVE  Log!Next \/ UNCHANGED LogMap
  OBVIOUS
<1>. USE ChainStep
<1>1. ASSUME NEW r \in RowValue, ReadsHold(r), Holds(r), table' = table \cup {r}
      PROVE  Log!Next
  <2>1. /\ r.event \in Event
        /\ r.event \notin Range(EventsByTrace(TraceOf[r.event]))
        /\ LogMap' = [LogMap EXCEPT ![TraceOf[r.event]] = Append(@, r.event)]
    BY <1>1, AddIsAppend DEF RowValue
  <2>2. TraceOf[r.event] \in Trace
    BY <2>1, ChainAssumption
  <2>3. Log!AppendEvent(r.event)
    BY <2>1, <2>2 DEF Log!AppendEvent, Log!Range, Range, LogMap
  <2>. QED BY <2>1, <2>3 DEF Log!Next
<1>2. CASE Commit
  <2>1. table' = table \cup {New} /\ ReadsHold(New) /\ Holds(New)
    BY <1>2 DEF Commit, IInv, CallHolds
  <2>. QED BY <1>1, <2>1, NewFields DEF IInv
<1>3. ASSUME NEW x \in indoubt, ServerCommits(x) PROVE Log!Next
  <2>1. table' = table \cup {x.row} /\ x.row \in RowValue
    BY <1>3 DEF ServerCommits, IInv, TypeOK
  <2>2. ReadsHold(x.row) /\ Holds(x.row)
    BY DEF IInv, InDoubtHolds
  <2>. QED BY <1>1, <2>1, <2>2
<1>4. Commit \/ UNCHANGED table \/ \E x \in indoubt : ServerCommits(x)
  BY DEF Next, CallStep, ServerStep, Begin, Duplicate, Check, ReadNumber,
         ReadPrev, Insert, InsertRaises, ConnectionLost, Crash, Restart,
         ServerAborts, vars
<1>. QED BY <1>2, <1>3, <1>4, SameLog

\* PostgresLedgerClient is the ledger its callers take it for: whatever breaks,
\* its appends are those of a log that grows at its end and holds no event
\* twice.
THEOREM ChainImplementsLog == Spec => ImplementsLedgerLog
<1>1. LogMap = [t \in Trace |-> EventsByTrace(t)]
  BY DEF LogMap
<1>. QED BY ChainInvariant, LogInit, LogStep, <1>1, PTL
         DEF Spec, ImplementsLedgerLog, Log!Spec, LogMap

-----------------------------------------------------------------------------
(* Acknowledgements.                                                       *)

\* A row the table takes in leaves the rows of accepted events where they are.
LEMMA AcceptedStays ==
  ASSUME accepted \in Seq(Event), AcceptedIsStored,
         NEW r, Holds(r), table' = table \cup {r}, UNCHANGED accepted
  PROVE  AcceptedIsStored'
<1>. SUFFICES ASSUME NEW i \in DOMAIN accepted
              PROVE  \E s \in table' :
                       /\ s.event = accepted[i]
                       /\ \A j \in 1..(i - 1) :
                            /\ accepted[j] # accepted[i]
                            /\ \A q \in table' :
                                 q.event = accepted[j]
                                   /\ TraceOf[q.event] = TraceOf[s.event]
                                 => q.number < s.number
  BY DEF AcceptedIsStored
<1>1. PICK s \in table :
        /\ s.event = accepted[i]
        /\ \A j \in 1..(i - 1) :
             /\ accepted[j] # accepted[i]
             /\ \A q \in table :
                  q.event = accepted[j] /\ TraceOf[q.event] = TraceOf[s.event]
                    => q.number < s.number
  BY DEF AcceptedIsStored
<1>2. ASSUME NEW j \in 1..(i - 1) PROVE r.event # accepted[j]
  <2>1. j \in DOMAIN accepted
    OBVIOUS
  <2>2. PICK p \in table : p.event = accepted[j]
    BY <2>1 DEF AcceptedIsStored
  <2>. QED BY <2>2 DEF Holds, SameKey
<1>. QED BY <1>1, <1>2

\* The event a commit acknowledges is new, and last in its trace.
LEMMA AcceptedCommit ==
  ASSUME IInv, AcceptedIsStored, Commit
  PROVE  AcceptedIsStored'
<1>. DEFINE n == Len(accepted)
<1>1. /\ table' = table \cup {New} /\ accepted' = Append(accepted, event)
      /\ ReadsHold(New) /\ Holds(New) /\ New \in RowValue /\ New.event = event
      /\ accepted \in Seq(Event) /\ event \in Event
  BY NewFields DEF Commit, IInv, TypeOK, CallHolds
<1>2. /\ n \in Nat /\ DOMAIN accepted = 1..n /\ DOMAIN accepted' = 1..(n + 1)
      /\ \A i \in 1..n : accepted'[i] = accepted[i]
      /\ accepted'[n + 1] = event
  BY <1>1
<1>. HIDE DEF n
<1>3. \A q \in RowsOf(TraceOf[New.event]) : q.number < New.number
  BY <1>1, NewIsNext DEF IInv
<1>4. ASSUME NEW i \in 1..n
      PROVE  \E s \in table : s.event = accepted[i] /\ s.event # event
  <2>1. PICK s \in table : s.event = accepted[i]
    BY <1>2 DEF AcceptedIsStored
  <2>. QED BY <1>1, <2>1 DEF Holds, SameKey
<1>5. ASSUME NEW i \in 1..n
      PROVE  \E s \in table' :
               /\ s.event = accepted'[i]
               /\ \A j \in 1..(i - 1) :
                    /\ accepted'[j] # accepted'[i]
                    /\ \A q \in table' :
                         q.event = accepted'[j]
                           /\ TraceOf[q.event] = TraceOf[s.event]
                         => q.number < s.number
  <2>1. PICK s \in table :
          /\ s.event = accepted[i]
          /\ \A j \in 1..(i - 1) :
               /\ accepted[j] # accepted[i]
               /\ \A q \in table :
                    q.event = accepted[j] /\ TraceOf[q.event] = TraceOf[s.event]
                      => q.number < s.number
    BY <1>2 DEF AcceptedIsStored
  <2>2. ASSUME NEW j \in 1..(i - 1)
        PROVE  /\ j \in 1..n /\ accepted'[j] = accepted[j]
               /\ New.event # accepted[j]
    <3>1. j \in 1..n
      BY <1>2
    <3>. QED BY <1>1, <1>2, <1>4, <3>1
  <2>3. s \in table' /\ accepted'[i] = accepted[i]
    BY <1>1, <1>2
  <2>. QED BY <1>1, <2>1, <2>2, <2>3
<1>6. /\ New \in table' /\ New.event = accepted'[n + 1]
      /\ \A j \in 1..n :
           /\ accepted'[j] # accepted'[n + 1]
           /\ \A q \in table' :
                q.event = accepted'[j] /\ TraceOf[q.event] = TraceOf[New.event]
                  => q.number < New.number
  BY <1>1, <1>2, <1>3, <1>4 DEF RowsOf
<1>7. \A i \in 1..(n + 1) : i \in 1..n \/ (i = n + 1 /\ 1..(i - 1) = 1..n)
  BY <1>2
<1>. QED BY <1>2, <1>5, <1>6, <1>7 DEF AcceptedIsStored

\* An append reported ACCEPTED is never lost, never reported again, and in the
\* order of its trace.
THEOREM AcceptedIsNeverLost == Spec => []AcceptedIsStored
<1>1. Init => AcceptedIsStored
  BY DEF Init, AcceptedIsStored
<1>2. IInv /\ AcceptedIsStored /\ [Next]_vars => AcceptedIsStored'
  <2>. SUFFICES ASSUME IInv, AcceptedIsStored, [Next]_vars
                PROVE  AcceptedIsStored'
    OBVIOUS
  <2>1. CASE Commit
    BY <2>1, AcceptedCommit
  <2>2. ASSUME NEW x \in indoubt, ServerCommits(x) PROVE AcceptedIsStored'
    <3>1. /\ table' = table \cup {x.row} /\ accepted' = accepted
          /\ accepted \in Seq(Event) /\ Holds(x.row)
      BY <2>2 DEF ServerCommits, IInv, TypeOK, InDoubtHolds
    <3>. QED BY <3>1, AcceptedStays
  <2>3. CASE UNCHANGED <<table, accepted>>
    BY <2>3 DEF AcceptedIsStored
  <2>4. \/ Commit \/ UNCHANGED <<table, accepted>>
        \/ \E x \in indoubt : ServerCommits(x)
    BY DEF Next, CallStep, ServerStep, Begin, Duplicate, Check, ReadNumber,
           ReadPrev, Insert, InsertRaises, ConnectionLost, AfterLoss, Crash,
           Restart, ServerAborts, vars, callVars
  <2>. QED BY <2>1, <2>2, <2>3, <2>4
<1>. QED BY ChainInvariant, <1>1, <1>2, PTL DEF Spec

=============================================================================
