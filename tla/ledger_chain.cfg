\* Appends, repeated ones too, while connections break and the process dies.
SPECIFICATION FairSpec
CONSTANTS
  a1 = a1
  a2 = a2
  a3 = a3
  b1 = b1
  A = A
  B = B
  Event = {a1, a2, a3, b1}
  Trace = {A, B}
  TraceOf <- TwoTraces
  MaxFault = 2
  MaxCrash = 1
INVARIANTS
  IInv
  ChainIntact
  AcceptedIsStored
PROPERTIES
  ImplementsLedgerLog
  AppendReturns
