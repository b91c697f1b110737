SPECIFICATION Spec
CONSTANTS
  Slots = {s1, s2, s3}
  Values = {v1, v2}
  NotReady = NotReady
INVARIANTS IndexExact
PROPERTIES ImplementsReadySet
