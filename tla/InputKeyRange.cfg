SPECIFICATION Spec
CONSTANTS
  Keys <- MCBoundaryKeys
  CursorPositions <- MCOneCursor
INVARIANT WritesStayInTable
