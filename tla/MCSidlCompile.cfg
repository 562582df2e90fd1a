SPECIFICATION Spec
CONSTANTS
  Paths = {a, b}
  None = None
  Malformed = Malformed
  Sources <- MCSources
  Text <- MCText
  Names = {"f", "g", "h"}
  Bodies = {"b0", "b1"}
  Idents <- MCIdents
  MaxDamage = 1
INVARIANTS
  TypeOK
  IInv
  PublishedOrRefused
  LoadedWasPublished
  FuncIdsDense
  ExtensionKeepsHistory
  SplitIndependence
  SuccessMeansReadable
  ArtifactsKept
SYMMETRY Symmetry
