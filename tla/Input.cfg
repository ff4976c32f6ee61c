SPECIFICATION Spec
CONSTANTS
  Keys <- MCKeys
  CursorPositions <- MCCursorPositions
INVARIANTS
  TypeOK
  HeldIffDown
  FreshIffTouched
  NoSilentEdge
PROPERTIES
  ReleasedKeySettles
  ImplementsKeyEdges
