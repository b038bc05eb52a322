SPECIFICATION Spec
CONSTANTS
  Lines <- MCLines
  MaxLines = 7
  Distance <- Manhattan
  None = None
INVARIANTS
  TypeOK
  IdsArePositions
  WholeFileOrError
  FormatIsUsable
