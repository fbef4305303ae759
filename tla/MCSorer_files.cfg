SPECIFICATION Spec
CONSTANTS
  Buf = 4
  GuessLines = 2
  MaxString = 1
  Files <- SomeFiles
  Slices <- WholeAndParts
  None = None
INVARIANTS TypeOK SchemaIsJoin RowsAreLines
PROPERTY HandsOutLines
