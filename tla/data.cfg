SPECIFICATION Spec
CONSTANTS
  Programs = {p1, p2}
  First = p1
  Behaviours <- AllHabits
  NoOne = NoOne
CHECK_DEADLOCK FALSE
INVARIANTS TypeOK  FrontEndAtTrigger OwnSamples OwnTransmitTimes
 
