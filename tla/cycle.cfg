SPECIFICATION Spec
CONSTANTS
  Programs = {p1, p2, p3}
  Behaviours <- Mixed
  NoOne = NoOne
CHECK_DEADLOCK FALSE
INVARIANTS TypeOK SetUpAsDeclared NothingCutOff
 
