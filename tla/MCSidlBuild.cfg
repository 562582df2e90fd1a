SPECIFICATION FairSpec
CONSTANTS
  Modes = {"client", "server"}
  Artifact <- Plain
  MaxVersion = 2
  MaxKills = 1
  MaxLosses = 1
INVARIANTS
  TypeOK
  IInv
  DeclaredWhole
  TypesWhole
  NothingOutOfDate
PROPERTIES
  BuildSettles
