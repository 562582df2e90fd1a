SPECIFICATION Spec
CONSTANTS
  BlockSize = 64
  LengthSize = 8
  MaxMessage = 140
INVARIANTS
  BytesInOrder
  Padded
