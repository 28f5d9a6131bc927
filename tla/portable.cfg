SPECIFICATION Spec
CONSTANTS
  WordBits = 4
  NumberOf <- SpelledNumber
  MaxDepth = 3
  TypedTexts <- MCTypedTexts
  ForeignScripts = {}
  Parse <- ParseSource
  ImportFile <- ImportScript
  Decimal <- DecimalText
  Hex <- PrefixedHex
  Nothing = Nothing
INVARIANT ExportIsPortable
CHECK_DEADLOCK FALSE
