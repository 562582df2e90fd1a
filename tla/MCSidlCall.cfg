SPECIFICATION Spec
CONSTANTS
  BuiltinSize <- MCBuiltinSize
  MaxRegArgs = 6
  PointerSize = 8
  Interfaces <- MCInterfaces
  Decls <- MCDecls
  Signatures <- MCSignatures
INVARIANTS
  IInv
  TypeOK
  ArgumentsArrive
  NeverTurnedAway
  OutsDelivered
  RightFunction
  RefusedOnlyIfMissing
