\* Two persons, a file of at most two rows, up to three trackers.
SPECIFICATION Spec
CONSTANTS
  Persons = {"ann", "bob"}
  MaxRows = 2
  MaxFaces = 2
  MaxTrackers = 3
  MaxNames = 3
INVARIANTS TypeOK LabelsMatchDescriptors NamesInBounds ShowsRecognisedPerson
CHECK_DEADLOCK FALSE
