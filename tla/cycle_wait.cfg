SPECIFICATION Spec
CONSTANTS
  Programs = {p1, p2}
  Behaviours <- Exits
  NoOne = NoOne
CHECK_DEADLOCK FALSE
PROPERTY WaitEnds
