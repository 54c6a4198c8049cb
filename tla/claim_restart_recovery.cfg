\* A client repeats an answered request after a restart.
SPECIFICATION Spec
CONSTANTS
  k1 = k1
  NoKey = NoKey
  None = None
  Key = {k1}
  Callers = {k1}
  Decisions <- OnlyConfirm
  LedgerMode = "strict"
  LedgerDurable = TRUE
  BusDurable = TRUE
  Kafka = TRUE
  AppendFaults = {"raise"}
  MaxEval = 2
  MaxCrash = 1
  MaxFault = 0
INVARIANTS
  RestartKeepsAnswer
\* The process may rest: no request has to arrive, and the bounds run out.
CHECK_DEADLOCK FALSE
