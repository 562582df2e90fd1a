SPECIFICATION Spec
CONSTANTS
  BuiltinSize <- MCBuiltinSize
  MaxRegArgs = 6
  PointerSize = 8
  Interfaces <- Simplest
  Decls <- SameRevisionDecls
  Signatures <- ScalarLists
INVARIANTS
  ArgumentsArrive
