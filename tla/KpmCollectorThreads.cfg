SPECIFICATION FairSpec
CONSTANTS
  Callbacks = {c1, c2}
  Capacity = 1
  Sinks = 1
  PrometheusEnabled = FALSE
  Worker = Worker
  Main = Main
  Free = Free
  NoRecord = NoRecord
  MaxIndications = 1
  HasDuration = TRUE
  MaxRecords = 1
  MaxSequence = 1
CHECK_DEADLOCK FALSE
INVARIANTS
  ExitZeroIsComplete
  NoCallbackAfterDestroy
PROPERTY CollectorEnds
