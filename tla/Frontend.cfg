CONSTANTS
  Texts <- MCTexts
  Items <- MCItems
SPECIFICATION Spec
INVARIANTS
  GrammarParsed
  ScannedAsTheGrammarSays
  LinesFollowText
CHECK_DEADLOCK FALSE
