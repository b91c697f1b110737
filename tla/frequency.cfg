SPECIFICATION Spec
CONSTANTS
  Programs = {p1, p2}
  Requests <- Bands
  Sidebands = {0, 2, 4}
  Restricted <- Restrictions
  MaxPoints = 16
  Garbage <- Leftovers
SYMMETRY ProgramSymmetry
CHECK_DEADLOCK FALSE
INVARIANTS TypeOK Spacing ToldIsKept
PROPERTIES  NoneIfCovered
