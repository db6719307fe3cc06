SPECIFICATION FairSpec
INVARIANTS
  TypeOK
  NoOrphans
  ReadsOpenPipe
PROPERTIES
  ThreadsGoOn
  DestructorReturns
  IdleStreamsStop
