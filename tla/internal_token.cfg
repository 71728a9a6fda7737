\* Two tokens rotated on either side, SSM and lingo-core coming and going.
SPECIFICATION FairSpec
CONSTANTS
  Tokens = {t1, t2}
  Empty = Empty
  Unresolved = Unresolved
INVARIANTS
  TypeOK
  BootVerdictHolds
PROPERTIES
  OneTokenPerContainer
  RotationIsPickedUp
