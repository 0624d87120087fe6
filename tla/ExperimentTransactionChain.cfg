CONSTANTS
    Identities = {tx1}
    Prbs = {p13, p26}
    Names = {n1}
    Reasons = {why}
    NULL = null
SYMMETRY Symmetry
SPECIFICATION Spec
CHECK_DEADLOCK FALSE
INVARIANTS
  TriggerTupleHonest
  ValidMeansComplete
  AdmittedIdentitiesKept
