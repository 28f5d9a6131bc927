SPECIFICATION Spec
CONSTANTS
  WordBits = 4
  NumberOf <- SpelledNumber
  MaxDepth = 3
  TypedTexts = {}
  ForeignScripts <- MCOddNames
  Parse <- ParseSource
  ImportFile <- ImportScript
  Decimal <- DecimalText
  Hex <- PrefixedHex
  Nothing = Nothing
INVARIANT ImportKeepsNames
CHECK_DEADLOCK FALSE
