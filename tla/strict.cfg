\* Strict commit on PostgreSQL, Redis bus, Kafka; calls raise or are
\* refused, the process dies.
SPECIFICATION FairSpec
CONSTANTS
  k1 = k1
  NoKey = NoKey
  None = None
  Key = {k1}
  Callers = {k1, NoKey}
  Decisions <- Resolvable
  LedgerMode = "strict"
  LedgerDurable = TRUE
  BusDurable = TRUE
  Kafka = TRUE
  AppendFaults = {"raise", "invalid"}
  MaxEval = 2
  MaxCrash = 1
  MaxFault = 2
INVARIANTS
  IInv
  CommitBeforeExecute
  
  AckedResolutionRecorded
  StrictAnswerIsDurable
  CachedMeansFinished
  FailedRequestLeavesGateOnly
PROPERTIES
  ImplementsCommitGate
  LoopReturns
\* The process may rest: no request has to arrive, and the bounds run out.
CHECK_DEADLOCK FALSE
