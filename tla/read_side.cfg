\* Deployments, and both listings read while events and traces arrive.
SPECIFICATION FairSpec
CONSTANTS
  Paths <- TwoPaths
  Contents <- SomeContents
  Absent = Absent
  MaxLimit = 2
  Limits = {1, 2, 3}
  MaxEvent = 4
  MaxRestart = 2
  MaxRecent = 3
  Scenes <- ThreeScenes
INVARIANTS
  
  
  FeedIsExact
  PagingIsExact
  SimulationReplaysItsFlow
  EventsMatchTraces
PROPERTIES
  EverythingReceived
\* Edits, requests and restarts are bounded.
CHECK_DEADLOCK FALSE
