SPECIFICATION Spec
CONSTANTS
  Programs = {p1, p2}
  Faults = {"stall", "drop", "late", "slowpass"}
  NoOne = NoOne
SYMMETRY ProgramSymmetry
CHECK_DEADLOCK FALSE
INVARIANTS TypeOK TriggerInv CommandTriggerAllReady
PROPERTIES TriggerSetStable ReadyAcknowledged
