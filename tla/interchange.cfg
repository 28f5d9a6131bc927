SPECIFICATION Spec
CONSTANTS
  WordBits = 4
  NumberOf <- SpelledNumber
  MaxDepth = 3
  TypedTexts <- MCTypedTexts
  ForeignScripts <- MCForeignScripts
  Parse <- ParseSource
  ImportFile <- ImportScript
  Decimal <- DecimalText
  Hex <- PrefixedHex
  Nothing = Nothing
INVARIANTS ContentsSaySource QueryIsWellSorted PrintRebuildsProblem PrintsTokens PrintedRebuildsProblem ExportMeansQuery ImportRestoresExport ImportKeepsMeaning
CHECK_DEADLOCK FALSE
