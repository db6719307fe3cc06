SPECIFICATION FairSpec
CONSTANTS
  Streams = {3}
  Files = {1, 2}
  PerCent = {3}
  Ampersand = {2}
  Threads = {t1}
  MaxIndex = 1
  Everything = 3
  Patience = 2
  MaxBatch = 1
INVARIANTS TypeOK LiveAreStreams PagesAreSlices
PROPERTIES StatusFollows SignalEnds BrowsesReturn
CHECK_DEADLOCK FALSE
