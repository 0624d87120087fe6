SPECIFICATION FairSpec
CONSTANTS
  Readers = {r1}
  Writers = {w1, w2}
  LastTransition = 2
  NoFile = NoFile
  MaxClock = 1
  MaxTriggers = 3
  FifoCapacity = 1
CHECK_DEADLOCK FALSE
INVARIANTS
  RunBindingAddressed
  ReaderInOrder
PROPERTY TriggerAnswered
