SPECIFICATION HistorySpec
CONSTANTS
  empty = empty
  starter = starter
  unsat = unsat
  broken = broken
  NoFile = NoFile
  TornFile = TornFile
  Texts <- MCTexts
  Words <- MCWords
  ValidTexts <- MCValidTexts
  EmptyText = empty
  Starter = starter
  SatTexts <- MCSatTexts
  ValidNames <- MCValidNames
  TypedNames = {}
  ImportTexts = {}
  StoredProjects <- MCStoredProjects
  TypedTexts <- MCTypedTexts
  DiskWritable = TRUE
  MaxId = 3
  MaxRows = 2
  MaxRequest = 2
INVARIANTS TypeOK CleanMeansSaved EditorInSync JobsAreChecked VerdictFitsUndisturbed
PROPERTY IdsNeverReturn
