\* What a comment says of the trackers that are lost.
SPECIFICATION Spec
CONSTANTS
  Persons = {"ann", "bob"}
  MaxRows = 2
  MaxFaces = 2
  MaxTrackers = 3
  MaxNames = 3
INVARIANTS DeletesWithName
CHECK_DEADLOCK FALSE
