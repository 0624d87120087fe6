CONSTANTS
    Procs = {p1, p2, p3}
    Exps = {e1, e2}
    Runs = {r1, r2}
    Ops = {o1, o2}
    MaxAge = 1
SYMMETRY Symmetry
SPECIFICATION Spec
CHECK_DEADLOCK FALSE
INVARIANTS
  AtMostOneTrigger
  OneRunPerOperation
  OutcomeHonest
  PassMeansTriggered
