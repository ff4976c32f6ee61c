SPECIFICATION Spec
CONSTANTS
  Names <- MCNames
  Wup = 2
  MaxVersion = 1
  MaxObjects = 5
  ClientOps <- MCAllOps
  DiskFailures <- MCDiskFailures
INVARIANTS
  TypeOK
  MapIsLive
  DebugStartSurvives
  ReleaseServesShipped
PROPERTIES
  ServedFromFile
  FileIsSafe
  TextureKept
  LeaksOnlyReloads
  ImplementsStore
