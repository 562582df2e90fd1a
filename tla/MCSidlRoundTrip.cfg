SPECIFICATION Spec
CONSTANTS
  Uuid <- MCUuid
  Prefix <- MCPrefix
  Spelling <- MCSpelling
  Drafts <- MCDrafts
  Strays <- MCStrays
INVARIANTS
  AsDeclared
  RoundTrip
  NothingLost
