------------------------------ MODULE LedgerLog -----------------------------
(***************************************************************************)
(* What a ledger client promises its callers, whatever is behind it: for   *)
(* each trace a log that only grows at its end and holds an event at most  *)
(* once.  It is the in-memory LedgerClient as it stands, and the ledger    *)
(* DecisionRuntime writes to.                                              *)
(***************************************************************************)
EXTENDS Sequences, Functions

CONSTANTS
  Trace,
  Event,      \* event ids
  TraceOf     \* the trace each event belongs to

VARIABLE log  \* events of each trace, in the order they are read back

Init == log = [t \in Trace |-> <<>>]

AppendEvent(e) ==
  /\ e \notin Range(log[TraceOf[e]])
  /\ log' = [log EXCEPT ![TraceOf[e]] = Append(@, e)]

Next == \E e \in Event : AppendEvent(e)

Spec == Init /\ [][Next]_log
=============================================================================
