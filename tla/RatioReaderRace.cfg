SPECIFICATION Spec
CONSTANTS
  Readers = {r1, r2}
  Writers = {w1, w2}
  LastTransition = 2
  NoFile = NoFile
  MaxClock = 0
  MaxTriggers = 1
  FifoCapacity = 1
SYMMETRY Interchangeable
CHECK_DEADLOCK FALSE
INVARIANTS
  AtMostOneRunPerTransition
  ArchiveIsWhatRan
PROPERTY ImplementsExactlyOnce
