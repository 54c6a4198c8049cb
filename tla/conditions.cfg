\* Conditions up to three levels deep, signals with and without their fields.
SPECIFICATION Spec
CONSTANTS
  Conditions <- AllConditions
  Blank <- BlankCondition
  Trees <- AllTrees
  Height <- AllHeight
  Signals <- AllSignals
  Values <- AllValues
  Rank <- TextRank
  Inside <- TextInside
INVARIANTS
  AcceptedNeverRaises
  
  MissingFieldNeverMatches
  
\* An evaluation ends with its verdict.
CHECK_DEADLOCK FALSE
