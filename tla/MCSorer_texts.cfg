SPECIFICATION Spec
CONSTANTS
  Buf = 4
  GuessLines = 2
  MaxString = 1
  Files <- SomeFiles
  Slices <- AllOf
  None = None
INVARIANT KeepsTexts
