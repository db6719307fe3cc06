SPECIFICATION FairSpec
CONSTANTS
  Clients = {c1, c2}
  len = 4
  ReadLens = {2, 5}
  MaxWritten = 9
INVARIANTS
  TypeOK
  RingHoldsNewest
  HeadsAtWrittenBytes
PROPERTIES
  LosesOnlyOverrun
  NeverGoesBack
  CopiesInOrder
  ReadsReturn
  ImplementsLiveLog
