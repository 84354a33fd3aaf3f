\* What a comment says of the names that are drawn.
SPECIFICATION Spec
CONSTANTS
  Persons = {"ann", "bob"}
  MaxRows = 2
  MaxFaces = 2
  MaxTrackers = 3
  MaxNames = 3
INVARIANTS ShowsEveryPerson
CHECK_DEADLOCK FALSE
