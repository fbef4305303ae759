SPECIFICATION Spec
CONSTANTS
  Buf = 4
  GuessLines = 2
  MaxString = 1
  Files <- ThreeLines
  Slices <- Everywhere
  None = None
PROPERTY HandsOutLines
