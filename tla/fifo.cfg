SPECIFICATION Spec
CONSTANTS
  FIFOLVL = 3
  FIFOWIDTH = 1
  FifoSize = 8
  Lengths = {0, 2, 9, 10, 13}
  Behaviours <- AllConditions
CHECK_DEADLOCK FALSE
INVARIANTS TypeOK InOrder NoOverflow NoUnderrun WaitMeansSent
PROPERTY WaitEnds
