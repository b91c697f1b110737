SPECIFICATION Spec
CONSTANTS
  Programs = {p1, p2}
  MAX_RADARS = 1
  MAX_CHANNELS = 3
  Indexes = {0}
  Seqs = {q1, q2}
  Long = {q1, q2}
  Habits = {}
  NULL = NULL
SYMMETRY SequenceSymmetry
INVARIANTS TypeOK RegisteredSequenceUsed
