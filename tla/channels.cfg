SPECIFICATION Spec
CONSTANTS
  Programs = {p1, p2, p3}
  MAX_RADARS = 2
  MAX_CHANNELS = 2
  Priorities = {0, 98}
  NULL = NULL
SYMMETRY ProgramSymmetry
INVARIANTS TypeOK SlotOwner  LoopsAgree
PROPERTIES NoEviction
