SPECIFICATION FairSpec
CONSTANTS
  empty = empty
  starter = starter
  unsat = unsat
  broken = broken
  NoFile = NoFile
  TornFile = TornFile
  Texts <- MCTexts
  Words <- MCWords
  ValidTexts <- MCValidTexts
  EmptyText = empty
  Starter = starter
  SatTexts <- MCSatTexts
  ValidNames <- MCValidNames
  TypedNames <- MCTypedNames
  ImportTexts <- MCImports
  StoredProjects = {}
  TypedTexts = {broken, starter}
  DiskWritable = TRUE
  MaxId = 2
  MaxRows = 2
  MaxRequest = 2
INVARIANTS OneJobInFlight JobsAreChecked EditorInSync IdsAndNamesUnique
PROPERTIES VerdictDropsWithText IdsNeverReturn BusyEnds CloseEnds ImplementsSession
