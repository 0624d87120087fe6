SPECIFICATION PipelineSpec
CONSTANTS
    Period = 2
    W = 2
    Guard = 2
    MaxAge = 2
    TailRows = 3
    Target = 8
    Latest = 10
    Rates = {0, 20}
    MaxControls = 2
    MaxDelay = 1
    Latency = 0
    MaxLines = 7
    MaxIrregular = 1
CHECK_DEADLOCK FALSE
INVARIANTS
  SnapshotParses
  RunIsLatest
  WindowsAfterLastStep
  AdmittedAfterLastStep
  TailFailsOnBadSource
