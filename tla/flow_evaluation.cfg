\* Every flow of up to three nodes, under both strategies.
SPECIFICATION Spec
CONSTANTS
  Node <- AllNodes
  MaxNodes = 3
INVARIANTS
  ResultFollowsPolicy
  ErrorsAreNotAbsorbed
  AbstractionIsFaithful
  ProjectionNeverMisreports
  
\* An evaluation ends with its result.
CHECK_DEADLOCK FALSE
