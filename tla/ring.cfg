SPECIFICATION FairSpec
CONSTANTS
  N = 6
  B = 3
  Extras = {"none", "complete", "flush"}
  MaxSeq = 15
INVARIANTS
  TypeOK
  PointerOrder
  LagBounded
  InOrder
  NoStandoff
PROPERTIES
  RefinesFifo
  PublishedIsRead
  FullDrains
