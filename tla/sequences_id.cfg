SPECIFICATION Spec
CONSTANTS
  Programs = {p1, p2}
  MAX_RADARS = 1
  MAX_CHANNELS = 3
  Indexes = {0, 1}
  Seqs = {q1}
  Long = {q1}
  Habits = {}
  NULL = NULL
SYMMETRY SequenceSymmetry
INVARIANT RegisteredSequenceUsed
