SPECIFICATION Spec
CONSTANTS
  ByteBase = 4
  Histories <- MCHistories
  MaxDamage <- MCDamage
INVARIANTS
  ReadsBack
  DamageNoticed
  OneSpelling
