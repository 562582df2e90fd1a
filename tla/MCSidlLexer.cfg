SPECIFICATION Spec
CONSTANTS
  Texts <- MCTexts
  Keywords <- MCKeywords
INVARIANTS
  SeparatorsIrrelevant
  PlacesRight
  IInv
PROPERTIES
  TextEnds
