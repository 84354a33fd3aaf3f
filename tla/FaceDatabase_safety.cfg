SPECIFICATION Spec
CONSTANTS
  People = {a, b}
  Names <- MCNames
  Labels <- MCLabels
  LabelOf <- MCLabelOf
  MaxFaces = 2
  MaxRows = 3
\* After an index past the end the behaviour is undefined and the model stops.
CHECK_DEADLOCK FALSE
INVARIANT TypeOK NoNameLeft DescriptorForEveryName NamesReadBack
PROPERTY SavedAsNamed DeletesWhatIsShown
