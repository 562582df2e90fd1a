SPECIFICATION Spec
CONSTANTS
  Names <- MCNames
  Histories <- EnumUnderBitfield
  WordSize = 4
INVARIANT
  UsesDeclared
