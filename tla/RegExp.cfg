CONSTANTS
  MATCHES_NUM = 3
  NAMED_MATCHES_NUM = 2
  MAX_REQUIRED_SETS = 2
  Chars <- MCChars
  Ascii <- MCAscii
  Digits <- MCDigits
  Letters <- MCLetters
  Underscores = {}
  Spaces <- MCSpaces
  Uppers <- MCUppers
  Lowers <- MCLowers
  LineBreaks <- MCLineBreaks
  LowerCase <- MCLowerCase
  Patterns <- MCPatterns
  Back <- MCBack
  StepLimit = 300

SPECIFICATION Spec
INVARIANTS AgreesWithMeaning PrefiltersSound BudgetSpared
