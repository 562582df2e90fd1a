SPECIFICATION Spec
CONSTANTS
  Names <- MCNames
  Histories <- MCHistories
  WordSize = 4
INVARIANTS
  IInv
  UsesDeclared
  MasksTile
