SPECIFICATION FairSpec
CONSTANTS
  Supervisors = {s1, s2}
  LastTransition = 3
  MaxExtensions = 1
  None = None
CHECK_DEADLOCK FALSE
INVARIANTS
  AtMostOneTrigger
  TriggersInOrder
  EvidenceHonest
  ReportBrackets
PROPERTY RunEnds
