SPECIFICATION Spec
CONSTANTS
  Names <- MCNames
  Wup = 2
  MaxVersion = 1
  MaxObjects = 5
  ClientOps <- MCDocumentedOps
  DiskFailures = {}
PROPERTY SaveStores
