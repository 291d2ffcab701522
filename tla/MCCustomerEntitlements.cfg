SPECIFICATION Spec
CONSTANTS
  Customers = {1, 2}
  Lineages = {1, 2}
  Owner <- MCOwner
  Snapshots <- MCSnapshots
  Aliases = {11}
  Mapping <- MCMapping
  Catalog <- MCCatalog
  AnonymousIds = {1}
  InvalidIds = {}
  Exports <- MCExports
  Batches = {1, 2}
  Commands <- MCCommands
  IdBase = 10
  Importers = {i1}
  Requests = {r1, r2}
  MaxNow = 2
  MaxOperations = 3
SYMMETRY MCSymmetry
INVARIANTS AccessFollowsAnswers EventPerVersion EventAgreesWithRead AllowedImportIsPaid ExitZeroMeansImported
PROPERTIES DuplicateChangesNothing RepeatedImportChangesNothing
CHECK_DEADLOCK FALSE
