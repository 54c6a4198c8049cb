----------------------------- MODULE LedgerChain ----------------------------
(***************************************************************************)
(* PostgresLedgerClient.append: three reads and an insert in one READ      *)
(* COMMITTED transaction, on a connection of its own.  The process appends *)
(* one event at a time, but a connection that breaks, or a process that    *)
(* dies, leaves its transaction to the server, which may still commit it   *)
(* while the next call is between its reads.                               *)
(*                                                                         *)
(* What keeps the chain whole is the table: PRIMARY KEY (event_id) and     *)
(* UNIQUE (trace_id, sequence_no).  An insert waits for a transaction in   *)
(* doubt that holds the same key, and raises when that one commits.        *)
(***************************************************************************)
EXTENDS Integers, Sequences, Functions

CONSTANTS
  Trace,
  Event,       \* event ids
  TraceOf,     \* the trace each event belongs to
  MaxFault,    \* bound: connections that break
  MaxCrash     \* bound: crashes of the process

ASSUME ChainAssumption ==
  /\ TraceOf \in [Event -> Trace]
  /\ MaxFault \in Nat /\ MaxCrash \in Nat

NULL == <<>>

\* compute_event_hash covers the event, its number and the hash before it, so
\* it stands for the whole chain up to the event.
Hash(e, n, prev) == Append(prev, <<e, n>>)

\* A row of ledger_events; its trace is TraceOf[event].
Row(e, n, prev) ==
  [event |-> e, number |-> n, prev |-> prev, hash |-> Hash(e, n, prev)]

VARIABLES
  pc,         \* the statement the running append is at
  event,      \* its event
  number,     \* the sequence_no it has read
  prev,       \* the prev_hash it has read
  table,      \* committed rows
  indoubt,    \* transactions left to the server: the row, and whether a COMMIT
              \* may have reached it
  accepted,   \* events reported ACCEPTED, in order (history)
  faults, crashes

callVars == <<pc, event, number, prev>>
vars == <<callVars, table, indoubt, accepted, faults, crashes>>

Init ==
  /\ pc = "idle" /\ event \in Event /\ number = 1 /\ prev = NULL
  /\ table = {} /\ indoubt = {} /\ accepted = <<>>
  /\ faults = 0 /\ crashes = 0

-----------------------------------------------------------------------------
(* The statements of the transaction.                                      *)

RowsOf(t) == {r \in table : TraceOf[r.event] = t}

\* ORDER BY sequence_no DESC LIMIT 1
LastRow(t) ==
  CHOOSE r \in RowsOf(t) : \A q \in RowsOf(t) : q.number <= r.number

\* SELECT COALESCE(MAX(sequence_no), 0) + 1
NextNumber(t) == IF RowsOf(t) = {} THEN 1 ELSE LastRow(t).number + 1

LastHash(t) == IF RowsOf(t) = {} THEN NULL ELSE LastRow(t).hash

\* The adapter appends an event, a new one or one it has tried before.
Begin(e) ==
  /\ pc = "idle"
  /\ event' = e /\ pc' = "check"
  /\ UNCHANGED <<number, prev, table, indoubt, accepted, faults, crashes>>

\* The event is there already: DUPLICATE, nothing written.
Duplicate ==
  /\ pc = "check" /\ \E r \in table : r.event = event
  /\ pc' = "idle"
  /\ UNCHANGED <<event, number, prev, table, indoubt, accepted, faults, crashes>>

Check ==
  /\ pc = "check" /\ \A r \in table : r.event # event
  /\ pc' = "number"
  /\ UNCHANGED <<event, number, prev, table, indoubt, accepted, faults, crashes>>

ReadNumber ==
  /\ pc = "number"
  /\ number' = NextNumber(TraceOf[event])
  /\ pc' = "link"
  /\ UNCHANGED <<event, prev, table, indoubt, accepted, faults, crashes>>

ReadPrev ==
  /\ pc = "link"
  /\ prev' = LastHash(TraceOf[event])
  /\ pc' = "insert"
  /\ UNCHANGED <<event, number, table, indoubt, accepted, faults, crashes>>

\* Mutant: the table has no UNIQUE (trace_id, sequence_no).
SameKeyIdOnly(r, q) == r.event = q.event

\* Mutant: the table has no PRIMARY KEY (event_id).
SameKeyNumberOnly(r, q) ==
  TraceOf[r.event] = TraceOf[q.event] /\ r.number = q.number

\* Two rows the constraints of ledger_events do not allow together.
SameKey(r, q) ==
  \/ r.event = q.event
  \/ TraceOf[r.event] = TraceOf[q.event] /\ r.number = q.number

New == Row(event, number, prev)

Waits    == \E x \in indoubt : SameKey(x.row, New)
Violates == \E r \in table : SameKey(r, New)

Insert ==
  /\ pc = "insert" /\ ~Waits /\ ~Violates
  /\ pc' = "commit"
  /\ UNCHANGED <<event, number, prev, table, indoubt, accepted, faults, crashes>>

\* Mutant: the INSERT is tried again with what was read before.
InsertRaisesRetried ==
  /\ pc = "insert" /\ ~Waits /\ Violates
  /\ pc' = "insert"
  /\ UNCHANGED <<event, number, prev, table, indoubt, accepted, faults, crashes>>

\* UniqueViolation: rolled back, and raised to the caller.
InsertRaises ==
  /\ pc = "insert" /\ ~Waits /\ Violates
  /\ pc' = "idle"
  /\ UNCHANGED <<event, number, prev, table, indoubt, accepted, faults, crashes>>

Commit ==
  /\ pc = "commit"
  /\ table' = table \cup {New}
  /\ accepted' = Append(accepted, event)
  /\ pc' = "idle"
  /\ UNCHANGED <<event, number, prev, indoubt, faults, crashes>>

-----------------------------------------------------------------------------
(* What can break.                                                         *)

\* The transaction the server is left with: none before the INSERT, one that
\* can only be aborted while the INSERT is under way, and one whose COMMIT may
\* have arrived after it.
LeftBehind ==
  IF pc = "commit" THEN {{[row |-> New, sent |-> TRUE]}}
  ELSE IF pc = "insert" /\ ~Waits /\ ~Violates
  THEN {{}, {[row |-> New, sent |-> FALSE]}}
  ELSE {{}}

\* Mutant: an exception of COMMIT is taken for an acknowledgement.
AfterLossAccepted == IF pc = "commit" THEN Append(accepted, event) ELSE accepted

\* The exception reaches the caller: no result.
AfterLoss == accepted

\* The connection breaks: the call raises, whatever statement it was at.
ConnectionLost ==
  /\ pc \notin {"idle", "down"} /\ faults < MaxFault
  /\ faults' = faults + 1
  /\ \E x \in LeftBehind : indoubt' = indoubt \cup x
  /\ accepted' = AfterLoss
  /\ pc' = "idle"
  /\ UNCHANGED <<event, number, prev, table, crashes>>

Crash ==
  /\ pc # "down" /\ crashes < MaxCrash
  /\ crashes' = crashes + 1
  /\ \E x \in LeftBehind : indoubt' = indoubt \cup x
  /\ pc' = "down"
  /\ UNCHANGED <<event, number, prev, table, accepted, faults>>

Restart ==
  /\ pc = "down" /\ pc' = "idle"
  /\ UNCHANGED <<event, number, prev, table, indoubt, accepted, faults, crashes>>

\* The server ends a transaction nobody waits for any more.
ServerCommits(x) ==
  /\ x.sent
  /\ table' = table \cup {x.row}
  /\ indoubt' = indoubt \ {x}
  /\ UNCHANGED <<callVars, accepted, faults, crashes>>

ServerAborts(x) ==
  /\ indoubt' = indoubt \ {x}
  /\ UNCHANGED <<callVars, table, accepted, faults, crashes>>

-----------------------------------------------------------------------------

CallStep ==
  Duplicate \/ Check \/ ReadNumber \/ ReadPrev \/ Insert \/ InsertRaises \/ Commit

ServerStep == \E x \in indoubt : ServerCommits(x) \/ ServerAborts(x)

Next ==
  \/ \E e \in Event : Begin(e)
  \/ CallStep
  \/ ConnectionLost \/ Crash \/ Restart
  \/ ServerStep

Spec == Init /\ [][Next]_vars

\* A statement that can run is run, and the server ends what is left to it.
FairSpec == Spec /\ WF_vars(CallStep) /\ WF_vars(ServerStep)

-----------------------------------------------------------------------------
(* Properties.                                                             *)

\* Hashes, as far as their shape goes: events with their numbers.
HashValue == Seq(Event \X Nat)

RowValue == [event : Event, number : Nat \ {0}, prev : HashValue, hash : HashValue]

\* The type invariant: sequence numbers start at one.
TypeOK ==
  /\ pc \in {"idle", "check", "number", "link", "insert", "commit", "down"}
  /\ event \in Event /\ number \in Nat \ {0} /\ prev \in HashValue
  /\ table \subseteq RowValue
  /\ indoubt \subseteq [row : RowValue, sent : BOOLEAN]
  /\ accepted \in Seq(Event)
  /\ faults \in 0..MaxFault /\ crashes \in 0..MaxCrash

\* r goes back to nothing, or to the row numbered just before it.
Linked(r) ==
  IF r.number = 1 THEN r.prev = NULL
  ELSE \E p \in RowsOf(TraceOf[r.event]) :
         p.number + 1 = r.number /\ p.hash = r.prev

\* The chain ledger_events.sql describes: numbers unique within a trace and
\* without a hole, prev_hash NULL for the first event only and the hash of the
\* event before for all others, each event once; although the number and the
\* hash are read by two statements, between which a transaction left in doubt
\* may commit (append, steps 2 to 5).
ChainIntact ==
  /\ \A r \in table : r.hash = Hash(r.event, r.number, r.prev) /\ Linked(r)
  /\ \A r, q \in table : SameKey(r, q) => r = q

\* An event reported ACCEPTED is in the table for good, it is reported so once,
\* and events of a trace are numbered in the order they were accepted.
AcceptedIsStored ==
  \A i \in DOMAIN accepted :
    \E r \in table :
      /\ r.event = accepted[i]
      /\ \A j \in 1..(i - 1) :
           /\ accepted[j] # accepted[i]
           /\ \A q \in table :
                q.event = accepted[j] /\ TraceOf[q.event] = TraceOf[r.event] =>
                  q.number < r.number

\* get_events_by_trace_id, in ascending sequence_no order.
EventsByTrace(t) ==
  [n \in {r.number : r \in RowsOf(t)} |->
     (CHOOSE r \in RowsOf(t) : r.number = n).event]

\* Behind the reads, the transactions and what breaks there is the log its
\* callers see.
Log == INSTANCE LedgerLog WITH log <- [t \in Trace |-> EventsByTrace(t)]

ImplementsLedgerLog == Log!Spec

\* An append comes back, with a result or an exception, although its INSERT
\* may wait for a transaction nobody answers for.
AppendReturns == [](pc = "check" => <>(pc \in {"idle", "down"}))

-----------------------------------------------------------------------------
(* The inductive invariant behind ChainIntact.                             *)

\* Every trace with rows has a last one, and every number up to a row's own.
Gapless ==
  \A t \in Trace :
    /\ RowsOf(t) # {} => \E r \in RowsOf(t) : \A q \in RowsOf(t) : q.number <= r.number
    /\ \A r \in RowsOf(t) : \A n \in 1..r.number : \E q \in RowsOf(t) : q.number = n

\* What a transaction has read is right, unless its number has been taken.
ReadsHold(r) ==
  \/ Linked(r)
  \/ \E q \in RowsOf(TraceOf[r.event]) : q.number = r.number

\* No committed row shares a key with r.
Holds(r) == \A q \in table : ~SameKey(q, r)

\* The number of the running append was free behind the last row when it was
\* read, its hash is the one before that number, and once inserted its row
\* keeps every other off its keys.
CallHolds ==
  /\ pc \in {"link", "insert", "commit"} /\ number # 1 =>
       \E q \in RowsOf(TraceOf[event]) : q.number + 1 = number
  /\ pc \in {"insert", "commit"} => ReadsHold(New)
  /\ pc = "commit" => Holds(New) /\ ~Waits

\* So does a row whose transaction nobody answers for.
InDoubtHolds ==
  /\ \A x \in indoubt :
       /\ x.row = Row(x.row.event, x.row.number, x.row.prev)
       /\ ReadsHold(x.row) /\ Holds(x.row)
  /\ \A x, y \in indoubt : SameKey(x.row, y.row) => x = y

\* Everything ChainIntact needs to survive a step.
IInv == TypeOK /\ ChainIntact /\ Gapless /\ CallHolds /\ InDoubtHolds
=============================================================================
