\* The default ledger mode on PostgreSQL: the ledger follows the answer.
SPECIFICATION Spec
CONSTANTS
  k1 = k1
  NoKey = NoKey
  None = None
  Key = {k1}
  Callers = {k1, NoKey}
  Decisions <- AllOutcomes
  LedgerMode = "parallel"
  LedgerDurable = TRUE
  BusDurable = TRUE
  Kafka = FALSE
  AppendFaults = {"raise"}
  MaxEval = 2
  MaxCrash = 1
  MaxFault = 2
INVARIANTS
  NoConflictingResolution
  LedgerIsPrefix
  ProjectionAgrees
  GateAndTraceAgree

  
\* The process may rest: no request has to arrive, and the bounds run out.
CHECK_DEADLOCK FALSE
