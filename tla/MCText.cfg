CONSTANTS
  Documents <- MCDocuments
  Texts <- MCTexts
  MaxQuote = 1
  Shifts <- MCShifts
  MaxPast = 1
  MaxOps = 2
  Letters = {"b"}
  Characters <- MCCharacters
  MaxEdits = 1
  FuzzyThreshold = 70

SPECIFICATION TextSpec
INVARIANTS TextTypeOK EditsLandInPlace ParagraphsKept
CHECK_DEADLOCK FALSE
