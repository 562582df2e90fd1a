SPECIFICATION FairSpec
CONSTANTS
  Paths = {a, b}
  None = None
  Malformed = Malformed
  Sources <- LiveSources
  Text <- MCText
  Names = {"f", "g", "h"}
  Bodies = {"b0", "b1"}
  Idents <- MCIdents
  MaxDamage = 1
INVARIANTS
  SharedHashSharedPast
PROPERTIES
  KeepsHistories
  EveryRunEnds
