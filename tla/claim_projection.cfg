\* A commit that stops halfway, then the trace read back from the ledger.
SPECIFICATION Spec
CONSTANTS
  k1 = k1
  NoKey = NoKey
  None = None
  Key = {k1}
  Callers = {k1}
  Decisions <- OnlyFallback
  LedgerMode = "parallel"
  LedgerDurable = TRUE
  BusDurable = TRUE
  Kafka = FALSE
  AppendFaults = {"raise"}
  MaxEval = 1
  MaxCrash = 1
  MaxFault = 1
INVARIANTS
  CompletedOnlyWithOutcome
\* The process may rest: no request has to arrive, and the bounds run out.
CHECK_DEADLOCK FALSE
