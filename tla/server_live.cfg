SPECIFICATION FairSpec
CONSTANTS
  Programs = {p1, p2}
  Faults = {}
  NoOne = NoOne
INVARIANTS  NoDangling 
  
