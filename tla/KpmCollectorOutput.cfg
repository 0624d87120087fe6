SPECIFICATION Spec
CONSTANTS
  Callbacks = {c1}
  Capacity = 2
  Sinks = 2
  PrometheusEnabled = TRUE
  Worker = Worker
  Main = Main
  Free = Free
  NoRecord = NoRecord
  MaxIndications = 1
  HasDuration = TRUE
  MaxRecords = 3
  MaxSequence = 1
CHECK_DEADLOCK FALSE
INVARIANTS
  SinksHoldPrefix
  MetricsAreTrue
PROPERTY MetricsNeverGoBack
