\* The default settings: no ledger, in-memory bus, and a Kafka topic; a client
\* retries one key until it is served, with finitely many failures.
SPECIFICATION FairSpec
CONSTANTS
  k1 = k1
  NoKey = NoKey
  None = None
  Key = {k1}
  Callers = {k1}
  Decisions <- ConfirmOrEscalate
  LedgerMode = "off"
  LedgerDurable = FALSE
  BusDurable = FALSE
  Kafka = TRUE
  AppendFaults = {}
  MaxEval = 5
  MaxCrash = 2
  MaxFault = 2
INVARIANTS
  RepeatOnlyAfterLoss
PROPERTIES
  CacheIsWriteOnce
  EventuallyServed
\* The process may rest: no request has to arrive, and the bounds run out.
CHECK_DEADLOCK FALSE
