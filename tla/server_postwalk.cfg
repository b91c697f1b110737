SPECIFICATION Spec
CONSTANTS
  Programs = {p1, p2, p3}
  Faults = {}
  NoOne = NoOne
SYMMETRY ProgramSymmetry
CHECK_DEADLOCK FALSE
INVARIANT PostWalkSafe
