SPECIFICATION FairWatched
CONSTANTS
  Launches = {l1, l2}
  None = None
CHECK_DEADLOCK FALSE
INVARIANTS
  OneReader
  
  AdmittedWasReading
  FailureEndsManager
PROPERTY WatchedLaunchEnds
