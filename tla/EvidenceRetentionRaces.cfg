SPECIFICATION Spec
CONSTANTS
  Procs = {p1, p2, p3}
  Names = {n1}
  Dirs = {d1}
  MaxLength = 2
  None = None
  Link = Link
SYMMETRY Interchangeable
CHECK_DEADLOCK FALSE
INVARIANTS
  RetainedIsSource
  ManifestDescribesPayload
PROPERTY RetainedStays
