SPECIFICATION Spec
CONSTANTS
  empty = empty
  starter = starter
  unsat = unsat
  broken = broken
  NoFile = NoFile
  TornFile = TornFile
  Texts <- MCTexts
  Words <- MCWords
  ValidTexts <- MCValidTexts
  EmptyText = empty
  Starter = starter
  SatTexts <- MCSatTexts
  ValidNames <- MCValidNames
  TypedNames = {}
  ImportTexts = {}
  StoredProjects = {}
  TypedTexts <- MCTypedTexts
  DiskWritable = FALSE
  MaxId = 2
  MaxRows = 2
  MaxRequest = 1
INVARIANT SolvingMeansBusy
