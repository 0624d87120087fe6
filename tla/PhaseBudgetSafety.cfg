SPECIFICATION Spec
CONSTANTS
  LastTransition = 2
  PreMin = 2
  PreMax = 3
  PostMin = 3
  PostMax = 4
  Extension = 1
  MaxExtensions = 1
  ExperimentMax = 9
  MaxAge = 2
  Horizon = 11
CHECK_DEADLOCK FALSE
INVARIANTS
  ControlsSeparated
  AdmittedOnNewSamples
  WithinExperiment
