SPECIFICATION Spec
CONSTANTS
  Texts <- NumberTexts
  Keywords <- MCKeywords
INVARIANTS
  NumbersInTheirBase
