SPECIFICATION EntrySpec
CONSTANTS
  WordBits = 4
  NumberOf <- SpelledNumber
  Topics <- MCTopics
  Scan <- Lex
INVARIANTS LexesAsDocumented ParsesAsGrammar ResumesAtKeyword BlockStatesFollowComments
CHECK_DEADLOCK FALSE
