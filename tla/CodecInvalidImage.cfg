SPECIFICATION Spec
CONSTANTS
  Names <- MCNames
  Wup = 1
  Picture <- MCPicture
  Unreadable <- MCUnreadable
  Leftovers <- MCLeftovers
  Payloads <- MCPayloads
CHECK_DEADLOCK FALSE
INVARIANT InvalidIsMissing
