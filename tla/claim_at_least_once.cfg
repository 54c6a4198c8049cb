\* The broker never takes a record.
SPECIFICATION Spec
CONSTANTS
  k1 = k1
  NoKey = NoKey
  None = None
  Key = {k1}
  Callers = {k1}
  Decisions <- OnlyConfirm
  LedgerMode = "strict"
  LedgerDurable = TRUE
  BusDurable = TRUE
  Kafka = TRUE
  AppendFaults = {"raise"}
  MaxEval = 1
  MaxCrash = 0
  MaxFault = 1
INVARIANTS
  AtLeastOnceDelivery
\* The process may rest: no request has to arrive, and the bounds run out.
CHECK_DEADLOCK FALSE
